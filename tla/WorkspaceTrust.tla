--------------------------- MODULE WorkspaceTrust ---------------------------
(* Workspace trust: which agent CLIs refuse a directory they have not been   *)
(* told to trust, what each trust policy may do about it, and the vendor's    *)
(* own store of trusted directories (workspace_trust.py).  A directory is    *)
(* trusted for what lies below it too.  No state lives here.                 *)
EXTENDS FiniteSets

CONSTANTS
    Agents,       \* the agents with a command line, in AGENT_ORDER's set
    Persistent,   \* agents whose audited flag records trust (cursor)
    Invocation,   \* agents whose flag skips one check only (devin)
    Folders,      \* the directories workers run in
    Above,        \* folder -> the folders that contain it
    Inheritable   \* the folders whose trust covers their descendants

ASSUME AgentAssumption == Persistent \subseteq Agents /\ Invocation \subseteq Agents
ASSUME TrustAssumption ==
    Above \in [Folders -> SUBSET Folders] /\ Inheritable \subseteq Folders

Policies == {"prepare", "bypass", "strict"}

\* A CLI whose noninteractive mode asks at all (ADAPTERS' scope "ancestor").
Enforced(a) == a \in Persistent \cup Invocation

\* How an invocation is made under a policy: with the audited flag or without.
Mechanism(a, policy) ==
    IF policy = "bypass" /\ Enforced(a) THEN "flag" ELSE "plain"

\* The vendor's verdict on one directory, from its own store of trusted ones.
Check(a, f, store) ==
    IF \/ ~Enforced(a)
       \/ f \in store[a]
       \/ \E g \in Above[f] : g \in store[a] /\ (a \in Persistent => g \in Inheritable)
    THEN "READY" ELSE "TRUST_REQUIRED"

\* Whether an unattended invocation can run there under the policy.
Effective(a, vendor, policy) ==
    IF vendor = "READY" \/ Mechanism(a, policy) = "flag" THEN "READY" ELSE vendor

\* A refusal on record applies unless this policy invokes the CLI differently.
BindingRefusal(a, refusal, policy) ==
    /\ refusal # "none"
    /\ Mechanism(a, policy) = "plain" \/ refusal = Mechanism(a, policy)

\* The routing view: why an agent may not be sent into a directory.
WorkspaceBlocked(a, f, refusal, store, policy) ==
    \/ BindingRefusal(a, refusal, policy)
    \/ Effective(a, Check(a, f, store), policy) = "TRUST_REQUIRED"
=============================================================================
