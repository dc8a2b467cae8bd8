---- MODULE MCCampaign ----
\* Two rows to work, the bug first, and one below the floor.
EXTENDS Campaign
Pending(kind, score) == [kind |-> kind, status |-> "Pending", score |-> score]
ThreeRows == <<Pending("improvement", 0), Pending("improvement", 2), Pending("bug", 1)>>
====
