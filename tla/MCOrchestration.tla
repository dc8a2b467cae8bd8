-------------------------- MODULE MCOrchestration --------------------------
(* Instances of Orchestration for TLC. *)
EXTENDS Orchestration, TLC

TwoAgents == <<"claude", "codex">>
Ask(policy, lead, strategy, failover, verify, without) ==
    [policy |-> policy, lead |-> lead, strategy |-> strategy, failover |-> failover,
     verify |-> verify, without |-> without]
Audit == "PLAN + EXECUTE + INDEPENDENT AUDIT"

\* An audited session without preferences, and a plain one led by a named agent that
\* may not fall back.
SomeRequests == {Ask(Audit, "AUTO", "BALANCED", TRUE, FALSE, {}),
                 Ask("PLAN + EXECUTE", "claude", "ECONOMY", FALSE, TRUE, {}),
                 Ask("PLAN ONLY", "codex", "QUALITY", TRUE, FALSE, {"claude"})}

\* A second session is started only while a coordinator is still at its own, and that
\* one only plans: a new goal after the first session's end is the first one again.
Overlapping ==
    disk["t"] = NoSession /\ disk'["t"] # NoSession =>
        \E c \in Coordinators : Running(c) /\ mem[c].policy = "PLAN ONLY"
=============================================================================
