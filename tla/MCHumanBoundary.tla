------------------------- MODULE MCHumanBoundary -------------------------
(* Small instances of HumanBoundary. *)
EXTENDS HumanBoundary, TLC

(* A person edits (another diff at the same commit) or commits. *)
MCVersions == {[commit |-> "c1", diff |-> "d1"], [commit |-> "c1", diff |-> "d2"],
               [commit |-> "c2", diff |-> "d1"]}

(* One action, which the executor offers.                                  *)
OneAction == <<"create_release_candidate">>
Offered == {"create_release_candidate"}

Symmetry == Permutations(Workers) \cup Permutations(Ids)
==========================================================================
