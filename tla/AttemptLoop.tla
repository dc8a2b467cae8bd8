---------------------------- MODULE AttemptLoop ----------------------------
(***************************************************************************)
(* What the rest of the program takes the implementation attempts of a     *)
(* task to be (module GovernedTask starts from this, module Attempt does   *)
(* it): providers work one after the other, none twice, each on the        *)
(* checkout as the task found it, and what failed is undone unless the     *)
(* run says that it could not.                                             *)
(*                                                                         *)
(* clean: the checkout holds the files the task found.  lost: the harness  *)
(* died or lost hold of a provider, who may still be writing.              *)
(***************************************************************************)
EXTENDS Naturals

CONSTANTS Resources, Limit

VARIABLES stage, tried, n, clean, lost

vars == <<stage, tried, n, clean, lost>>

Init == stage = "attempt" /\ tried = {} /\ n = 1 /\ clean = TRUE /\ lost = FALSE

\* Only a provider at work, or one lost sight of, touches the checkout.
Write == /\ stage \in {"working", "fixing"} \/ lost
         /\ clean' \in BOOLEAN /\ UNCHANGED <<stage, tried, n, lost>>

Launch == /\ stage = "attempt" /\ (clean \/ lost)
          /\ stage' = "working" /\ UNCHANGED <<tried, n, clean, lost>>

\* The attempt is over, or lost sight of; edits out of scope are undone.
Report(p) == /\ stage \in {"attempt", "working"} /\ p \in Resources \ tried
             /\ stage' = "judge" /\ tried' = tried \cup {p}
             /\ lost' \in {lost, TRUE} /\ clean' \in BOOLEAN /\ UNCHANGED n

Keep == stage = "judge" /\ stage' = "kept" /\ clean' \in BOOLEAN /\ UNCHANGED <<tried, n, lost>>

\* The next provider finds the checkout as the first one did.
HandOver == /\ stage = "judge" /\ n < Limit
            /\ stage' = "attempt" /\ n' = n + 1 /\ clean' = TRUE /\ UNCHANGED <<tried, lost>>

Fix == stage = "kept" /\ stage' = "fixing" /\ UNCHANGED <<tried, n, clean, lost>>
Fixed == stage = "fixing" /\ stage' = "kept" /\ clean' \in BOOLEAN /\ UNCHANGED <<tried, n, lost>>

Fail == /\ stage \in {"judge", "fixing"}
        /\ \/ stage' = "failed" /\ clean' = TRUE
           \/ stage' = "unrestored" /\ clean' \in BOOLEAN
        /\ tried' = {} /\ n' = 1 /\ UNCHANGED lost

Die == /\ stage \notin {"failed", "unrestored", "dead"}
       /\ stage' = "dead" /\ tried' = {} /\ n' = 1 /\ lost' = TRUE /\ UNCHANGED clean

\* What lies in the checkout may be taken for the implementation.
Restart == stage = "dead" /\ stage' \in {"attempt", "kept"} /\ UNCHANGED <<tried, n, clean, lost>>

Next == Write \/ Launch \/ (\E p \in Resources: Report(p)) \/ Keep \/ HandOver \/ Fix \/ Fixed \/ Fail \/ Die \/ Restart

\* The providers may hang and the harness may die once and again: the loop still comes to an
\* end with a candidate, a failure, or a checkout it could not restore.
Ends == <>[](stage \in {"kept", "failed", "unrestored"})

Spec == Init /\ [][Next]_vars /\ Ends
=============================================================================
