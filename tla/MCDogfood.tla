---- MODULE MCDogfood ----
EXTENDS Dogfood

Good == [builds |-> TRUE, starts |-> TRUE, answers |-> TRUE, persists |-> TRUE, blocked |-> FALSE]

\* One product for every way to fail, and one that does not.
MCArtifacts ==
  {Good, [Good EXCEPT !.builds = FALSE], [Good EXCEPT !.starts = FALSE],
   [Good EXCEPT !.persists = FALSE], [Good EXCEPT !.blocked = TRUE]}
====
