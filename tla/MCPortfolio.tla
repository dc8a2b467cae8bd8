------------------------------ MODULE MCPortfolio ------------------------------
(* Five items: an owner direction and a backlog item outside the product, a  *)
(* backlog item and a self-improvement inside it, and a speculative idea.    *)
EXTENDS Portfolio

FiveItems   == 1 .. 5
FiveOrigins ==
    <<"owner_direction", "existing_backlog", "existing_backlog",
      "self_improvement", "speculative_idea">>
Product     == {2, 4}
Ranks       == <<<<0, 0>>, <<1, 0>>, <<0, 1>>, <<0, 0>>, <<0, 0>>>>
============================================================================
