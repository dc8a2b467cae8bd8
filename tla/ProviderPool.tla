----------------------------- MODULE ProviderPool -----------------------------
(***************************************************************************)
(* The provider pool (synthesis/provider_pool.py): which AI resource may    *)
(* be given work, and what one result teaches about it.                     *)
(*                                                                          *)
(* Several processes (a Factory supervisor, a command line) each hold a     *)
(* pool: a map loaded from one shared file when the process starts, changed *)
(* in memory, and written back WHOLE by every _persist.  A read-only pool   *)
(* (doctor, previews) writes nothing and runs no agent: it is a stuttering  *)
(* step here.                                                               *)
(*                                                                          *)
(* Time is relative.  A retry_after is the number of ticks still to go, so  *)
(* the clock needs no bound.  What an agent printed is abstracted to which  *)
(* markers the classifier finds in it (Evidence).                           *)
(***************************************************************************)
EXTENDS Integers, FiniteSets, Sequences

CONSTANTS
  Resources,       \* resource ids, numbers: their order is the lexical order of the ids
  Pools,           \* the processes that hold a pool
  Profile,         \* [Resources -> what the registry knows of the resource]
  Configured,      \* the operator's configuration: the resources it enables, {} if it names none
  LocalOnly,       \* operating_mode = "local_only"
  AllowPaid, MaxMetered, SubscriptionFirst, ExternalFirst, PreferCapacity,  \* the policy
  Transient, Session, Quota,     \* the policy's cooldowns, in ticks
  Strict,          \* whether a broken semantic judgment blocks a selection
  RetryHints,      \* retry-after seconds a provider may report, in ticks
  Worlds,          \* what a readiness probe can report
  Evidence,        \* what a failed run can leave behind
  ReviewRoles,     \* the roles a review needs, in order
  MaxLaunches,     \* MAX_REVIEWER_LAUNCH_ATTEMPTS
  MaxCrashes       \* bound: processes that die in the middle of a task

\* A configuration that names a resource the registry does not know opens no pool.
ValidConfiguration == Configured \subseteq Resources /\ LocalOnly \in BOOLEAN

ASSUME PolicyAssumption ==
  /\ Resources \subseteq Nat /\ ValidConfiguration
  /\ Transient \in Nat /\ Session \in Nat /\ Quota \in Nat /\ RetryHints \subseteq Nat
  /\ MaxMetered \in Nat /\ (AllowPaid \/ MaxMetered = 0)
  /\ IsFiniteSet(Resources) /\ MaxLaunches \in Nat /\ ReviewRoles \in Seq(STRING)
  /\ \A i \in DOMAIN ReviewRoles : ReviewRoles[i] \notin {"implementation", "none"}

VARIABLES
  disk,     \* provider_capacity.json
  mem,      \* each process's _provider_states
  open,     \* the processes that run
  running,      \* the resource a process's agent works on, and for which role
  tried,    \* the resources the process's current task has had (failover)
  world,    \* what a probe of the resource would report now
  cycle,    \* the review cycle of the process's current task
  crashes,  \* ghost: processes lost in the middle of a task
  asked,    \* ghost: per process, what became of each candidate of the current role
  last      \* ghost: whose trouble the result handled by the last step was

poolVars == <<disk, mem, open, running, tried, world, cycle, crashes, asked, last>>

None == -1        \* no retry_after; no resource
Idle == [resource |-> None, role |-> "none"]
Roles == {"implementation"} \cup {ReviewRoles[i] : i \in DOMAIN ReviewRoles}
Exhausted == {"SESSION_EXHAUSTED", "QUOTA_EXHAUSTED", "RATE_LIMITED"}
Unready == {"MISSING_EXECUTABLE", "AUTH_REQUIRED", "UNREACHABLE", "UNAVAILABLE"}
Local(r) == Profile[r].economic = "LOCAL"
Metered(r) == Profile[r].economic = "METERED_API"

\* A configuration that names none means every resource, or under local_only the local ones.
Enabled == IF Configured # {} THEN Configured ELSE {r \in Resources : LocalOnly => Local(r)}

NewStatus == [status |-> "UNKNOWN", readiness |-> "NOT_PROBED", retry |-> None,
              excluded |-> {}, metered |-> 0]
\* A resource nobody has a record of yet.
Unrecorded == [r \in Resources |-> NewStatus]

-----------------------------------------------------------------------------
(* Classification: one result, one failure class. *)

\* The machine-readable envelope, else an anchored stop line in the provider's
\* own error channels (never in stdout, which is a transcript).
StructuredFailure(e) ==
  IF e.envelope # "none" THEN e.envelope
  ELSE IF e.stopLine # "none" /\ ~e.stopInStdout THEN e.stopLine ELSE "none"

\* Marker scan of everything printed: the strongest marker present.
TextFailure(e) ==
  IF e.saysNotFound /\ e.launch # "launched" /\ ~e.timedOut THEN "MISSING_EXECUTABLE"
  ELSE IF e.text # "none" THEN e.text
  ELSE IF e.timedOut THEN "TRANSPORT_UNAVAILABLE"
  ELSE "ENGINEERING_FAILURE"

\* Mutant of StructuralFailure: our own deadline is read as a transport failure.
DeadlineAsTransport(e) ==
  CASE e.stalled -> "PROVIDER_STALLED"
    [] ~e.stalled /\ e.launch = "failed" -> "MISSING_EXECUTABLE"
    [] ~e.stalled /\ e.launch # "failed" /\ e.trust -> "WORKSPACE_TRUST_REQUIRED"
    [] ~e.stalled /\ e.launch # "failed" /\ ~e.trust /\ e.ownDeadline -> "TRANSPORT_UNAVAILABLE"
    [] OTHER -> "none"

\* What the harness itself observed of the process outranks what was printed.
StructuralFailure(e) ==
  CASE e.stalled -> "PROVIDER_STALLED"
    [] ~e.stalled /\ e.launch = "failed" -> "MISSING_EXECUTABLE"
    [] ~e.stalled /\ e.launch # "failed" /\ e.trust -> "WORKSPACE_TRUST_REQUIRED"
    [] ~e.stalled /\ e.launch # "failed" /\ ~e.trust /\ e.ownDeadline -> "EXECUTION_BUDGET_EXCEEDED"
    [] OTHER -> "none"

Classify(e) ==
  LET structural == StructuralFailure(e) structured == StructuredFailure(e) IN
  IF structural # "none" THEN structural
  ELSE IF e.launch # "launched" /\ e.exit127 THEN "MISSING_EXECUTABLE"
  ELSE IF e.denied
       THEN IF structured # "none" THEN structured ELSE "EXECUTION_PERMISSION_REQUIRED"
  ELSE IF e.envelope # "none" THEN e.envelope
  ELSE IF e.stopLine # "none" THEN e.stopLine
  ELSE TextFailure(e)

\* Whose trouble a failure is: a deadline of ours that expired, or a folder
\* nobody trusted, is not the provider's.
OurTrouble(e) == /\ ~e.stalled /\ e.launch # "failed"
                 /\ e.trust \/ e.ownDeadline

\* Everything a result can teach: the class, whose trouble, the reported retry.
Answers ==
  {[class |-> Classify(e), ours |-> OurTrouble(e), hint |-> h] :
     e \in Evidence, h \in RetryHints \cup {None}}
  \cup {[class |-> c, ours |-> FALSE, hint |-> None] : c \in {"SUCCESS", "RESOURCE_CONSTRAINED"}}

-----------------------------------------------------------------------------
(* One resource's record. *)

Ready(s, r, seen) ==
  [s EXCEPT
     !.readiness = seen,
     !.status = IF seen \in Unready THEN seen
                ELSE IF seen # "READY" \/ s.status \in Exhausted THEN s.status
                ELSE IF Local(r) THEN "AVAILABLE" ELSE "UNKNOWN"]

EgressForbidden(r) == LocalOnly /\ ~Local(r)
Usable(r) == r \in Enabled /\ ~EgressForbidden(r)

\* A due retry_after is cleared and the resource probed once.
Recovered(s, r, seen) ==
  IF s.retry # 0 THEN s
  ELSE Ready([s EXCEPT !.retry = None, !.status = "UNKNOWN"], r, seen)

\* A record that says the executable is missing is never trusted: it is probed.
Rechecked(s, r, seen) ==
  IF s.readiness # "MISSING_EXECUTABLE" THEN s ELSE Ready(s, r, seen)

CapacityOf(class) ==
  CASE class = "EXECUTION_BUDGET_EXCEEDED" -> "DEGRADED"
    [] class = "QUOTA_EXHAUSTED" -> "QUOTA_EXHAUSTED"
    [] class = "SESSION_LIMIT" -> "SESSION_EXHAUSTED"
    [] class = "RATE_LIMITED" -> "RATE_LIMITED"
    [] class = "AUTHENTICATION_REQUIRED" -> "AUTH_REQUIRED"
    [] class \in {"PROVIDER_UNAVAILABLE", "PROVIDER_STALLED"} -> "UNAVAILABLE"
    [] class = "TRANSPORT_UNAVAILABLE" -> "UNREACHABLE"
    [] class = "MISSING_EXECUTABLE" -> "MISSING_EXECUTABLE"
    [] OTHER -> "none"

\* Mutant of CooldownOf: a quota never expires (the historical defect).
QuotaForever(class) ==
  CASE class = "SESSION_LIMIT" -> IF Session # 0 THEN Session ELSE 48
    [] class \in {"RATE_LIMITED", "TRANSPORT_UNAVAILABLE", "PROVIDER_UNAVAILABLE",
                  "PROVIDER_STALLED", "EXECUTION_BUDGET_EXCEEDED"} -> Transient
    [] OTHER -> 0

\* Zero means no cooldown; a zero session or quota setting falls back.
CooldownOf(class) ==
  CASE class = "SESSION_LIMIT" -> IF Session # 0 THEN Session ELSE 48
    [] class \in {"RATE_LIMITED", "TRANSPORT_UNAVAILABLE", "PROVIDER_UNAVAILABLE",
                  "PROVIDER_STALLED", "EXECUTION_BUDGET_EXCEEDED"} -> Transient
    [] class = "QUOTA_EXHAUSTED" -> IF Quota # 0 THEN Quota ELSE Transient
    [] OTHER -> 0

\* When a resource just seen failing may be asked again.
RetryAt(s, o) ==
  IF o.hint # None THEN o.hint
  ELSE IF CooldownOf(o.class) > 0 THEN CooldownOf(o.class) ELSE s.retry

ReviewRole(role) == role # "implementation"

Failed(s, role, o) ==
  CASE o.class = "WORKSPACE_TRUST_REQUIRED" -> s
    [] o.class = "EXECUTION_PERMISSION_REQUIRED" ->
         [s EXCEPT !.excluded = @ \cup {role} \cup IF ReviewRole(role) THEN {"review"} ELSE {}]
    [] CapacityOf(o.class) # "none" ->
         [s EXCEPT !.status = CapacityOf(o.class), !.retry = RetryAt(s, o)]
    [] OTHER -> s

Succeeded(s, role) ==
  [s EXCEPT !.status = "AVAILABLE", !.retry = None, !.excluded = @ \ {role}]

\* record_result: the invocation is counted, then what it showed is recorded.
Recorded(s, r, role, o) ==
  LET counted == IF Metered(r) THEN [s EXCEPT !.metered = @ + 1] ELSE s
  IN  IF o.class = "SUCCESS" THEN Succeeded(counted, role) ELSE Failed(counted, role, o)

\* detect_exhaustion takes the local runtime's own shortage before record_result.
Constrained(s) == [s EXCEPT !.status = "RESOURCE_CONSTRAINED"]

ResetStatus(s, r, seen) ==
  LET cleared == [s EXCEPT !.status = "UNKNOWN", !.retry = None, !.excluded = {}]
  IN  IF EgressForbidden(r) THEN cleared ELSE Ready(cleared, r, seen)

-----------------------------------------------------------------------------
(* Selection. *)

Blocked == Exhausted \cup Unready \cup {"RESOURCE_CONSTRAINED"}

\* The state work every selection does first, on each resource policy permits.
Swept(states) ==
  [r \in Resources |->
     IF ~Usable(r) THEN states[r]
     ELSE Rechecked(Recovered(states[r], r, world[r]), r, world[r])]

RoleExcluded(s, role) ==
  role \in s.excluded \/ (ReviewRole(role) /\ "review" \in s.excluded)

Capable(r, role) ==
  /\ role \in Profile[r].roles
  /\ ~(Local(r) /\ role = "security-reviewer")

Affordable(s, r) == Metered(r) => AllowPaid /\ s.metered < MaxMetered

\* The survivors of every hard filter, in the code's order of filters.
Eligible(states, role, excluding) ==
  {r \in Resources :
     /\ Usable(r)
     /\ states[r].readiness \notin Unready
     /\ Capable(r, role)
     /\ states[r].status \notin Blocked
     /\ ~RoleExcluded(states[r], role)
     /\ r \notin excluding
     /\ Affordable(states[r], r)}

EconomicRank(r) ==
  IF SubscriptionFirst
  THEN CASE Profile[r].economic = "SUBSCRIPTION" -> 0
         [] Local(r) -> 1
         [] Metered(r) -> 3
         [] OTHER -> 2
  ELSE IF ExternalFirst /\ Local(r) THEN 1 ELSE 0

CapacityRank(s) ==
  IF ~PreferCapacity THEN 0
  ELSE CASE s.status = "AVAILABLE" -> 0 [] s.status = "DEGRADED" -> 1
         [] s.status = "UNKNOWN" -> 2 [] OTHER -> 3

Rank(states, r, advised, avoided) ==
  <<EconomicRank(r), CapacityRank(states[r]),
    IF r = advised THEN 0 ELSE 1, IF r = avoided THEN 1 ELSE 0, r>>

Before(a, b) ==
  \E i \in DOMAIN a : a[i] < b[i] /\ \A j \in 1..(i - 1) : a[j] = b[j]

\* The router recommends one of the survivors.
Recommended(candidates) == IF candidates = {} THEN {None} ELSE candidates

\* A semantic judgment is asked for only without an explicit request and with a
\* choice to make.  It names a survivor, or none (refused by policy, no answer);
\* an answer that fails its integrity check blocks the selection in strict mode.
Judgments(candidates, explicit) ==
  {[pick |-> None, blocks |-> FALSE]}
  \cup (IF explicit # None \/ Cardinality(candidates) < 2 THEN {}
        ELSE {[pick |-> r, blocks |-> FALSE] : r \in candidates}
             \cup {[pick |-> None, blocks |-> Strict]})

Best(states, candidates, advised, avoided) ==
  IF candidates = {} THEN None
  ELSE CHOOSE r \in candidates : \A q \in candidates \ {r} :
         Before(Rank(states, r, advised, avoided), Rank(states, q, advised, avoided))

\* Selected resource; an explicit request outside the survivors selects nothing.
Chosen(states, candidates, explicit, advised, avoided) ==
  IF explicit = None THEN Best(states, candidates, advised, avoided)
  ELSE IF explicit \in candidates THEN explicit ELSE None

-----------------------------------------------------------------------------
(* Reviewer selection. *)

\* One role: another provider first, else another resource, preferring one no
\* role has yet; failing both the maker reviews itself.
ReviewerFor(states, maker, role, used, advised) ==
  LET eligible == Eligible(states, role, {})
      others   == eligible \ {maker}
      distinct == {r \in others : Profile[r].provider # Profile[maker].provider}
      choices  == IF distinct # {} THEN distinct ELSE others
      fresh    == IF choices \ used # {} THEN choices \ used ELSE choices
  IN  IF choices = {} THEN maker ELSE Best(states, fresh, advised, maker)

\* Role by role: who reviews it, knowing who reviews the roles before.
Planned(mapping, states, maker, advised) ==
  \A i \in DOMAIN ReviewRoles :
    mapping[i] = ReviewerFor(states, maker, ReviewRoles[i], {mapping[j] : j \in 1..(i - 1)}, advised)

\* Whether a resource planned for a role can serve it now.  The planned one is
\* asked about capacity and role exclusion only: neither the budget, nor the
\* readiness record, nor its right to the role is looked at again.
CapacityBlocked(s, role) == s.status \in Blocked \/ RoleExcluded(s, role)

\* The candidates of a role are the pool's survivors and the planned one, which comes
\* first unless it is blocked, then last; but the maker's family comes after every other
\* candidate, and the maker at the end.
AskingOrder(states, maker, role, preferred, advised, r) ==
  <<IF r = maker THEN 2 ELSE IF Profile[r].provider = Profile[maker].provider THEN 1 ELSE 0,
    IF r # preferred THEN 1 ELSE IF CapacityBlocked(states[r], role) THEN 2 ELSE 0>>
  \o Rank(states, r, advised, preferred)

\* The candidates in asking order (one sequence: the order is total).
ReviewQueues(states, maker, role, preferred, advised) ==
  LET candidates == Eligible(states, role, {}) \cup {preferred}
      order(r) == AskingOrder(states, maker, role, preferred, advised, r)
  IN  {queue \in [1..Cardinality(candidates) -> candidates] :
         \A i, j \in DOMAIN queue : i < j => Before(order(queue[i]), order(queue[j]))}

\* A review cycle in progress: who made the change, the planned reviewers, the
\* role being reviewed, its candidates left, the launches left, who served.
NoCycle == [maker |-> None, mapping |-> <<>>, role |-> 0, queue |-> <<>>, budget |-> 0,
            served |-> <<>>]

\* The classes detect_exhaustion reports as an event: the provider is out, so the
\* launch is refunded.
Exhausting == {"QUOTA_EXHAUSTED", "SESSION_LIMIT", "RATE_LIMITED", "AUTHENTICATION_REQUIRED",
               "PROVIDER_UNAVAILABLE", "TRANSPORT_UNAVAILABLE", "MISSING_EXECUTABLE",
               "RESOURCE_CONSTRAINED"}

-----------------------------------------------------------------------------
(* The processes. *)

PoolInit ==
  /\ disk = Unrecorded
  /\ mem = [p \in Pools |-> disk]
  /\ open = {}
  /\ running = [p \in Pools |-> Idle]
  /\ tried = [p \in Pools |-> {}]
  /\ world = [r \in Resources |-> "READY"]
  /\ cycle = [p \in Pools |-> NoCycle]
  /\ crashes = 0
  /\ asked = [p \in Pools |-> [r \in Resources |-> "not"]]
  /\ last = "none"

Unasked == [r \in Resources |-> "not"]

\* Every write is the whole map.  A sweep that changed nothing writes nothing.
Persist(p, states) ==
  /\ mem' = [mem EXCEPT ![p] = states]
  /\ disk' = IF states = mem[p] THEN disk ELSE states

NoTask(p) == running[p] = Idle /\ tried[p] = {} /\ cycle[p] = NoCycle


\* A process starts: load the file, disable what the configuration forbids,
\* unpark what it now permits, and probe if this command probes on start.
Initialised(states, probe) ==
  [r \in Resources |->
     LET s == states[r]
         unparked == IF s.status = "DISABLED"
                     THEN [s EXCEPT !.status = "UNKNOWN", !.readiness = "NOT_PROBED"] ELSE s
     IN  IF ~Usable(r) THEN [s EXCEPT !.status = "DISABLED", !.readiness = "NOT_PROBED"]
         ELSE IF probe THEN Ready(unparked, r, world[r]) ELSE unparked]

Open(p) ==
  /\ p \notin open
  /\ \E probe \in BOOLEAN :
       /\ disk' = Initialised(disk, probe)
       /\ mem' = [mem EXCEPT ![p] = disk']
  /\ open' = open \cup {p}
  /\ last' = "none"
  /\ UNCHANGED <<running, tried, world, cycle, crashes, asked>>

\* A process ends, perhaps in the middle of a task: what an agent did is not recorded.
Close(p) ==
  /\ p \in open
  /\ NoTask(p) \/ crashes < MaxCrashes
  /\ crashes' = IF NoTask(p) THEN crashes ELSE crashes + 1
  /\ open' = open \ {p}
  /\ running' = [running EXCEPT ![p] = Idle]
  /\ tried' = [tried EXCEPT ![p] = {}]
  /\ cycle' = [cycle EXCEPT ![p] = NoCycle]
  /\ asked' = [asked EXCEPT ![p] = Unasked]
  /\ mem' = [mem EXCEPT ![p] = Unrecorded]
  /\ last' = "none"
  /\ UNCHANGED <<disk, world>>

\* select_resource for an implementation, then the agent is launched on it.
\* With nobody left for the task, the process turns to another task.
Select(p) ==
  /\ p \in open /\ running[p] = Idle /\ cycle[p] = NoCycle
  /\ LET states == Swept(mem[p]) candidates == Eligible(states, "implementation", tried[p]) IN
     \E explicit \in Resources \cup {None}, advised \in Recommended(candidates) :
     \E judged \in Judgments(candidates, explicit) :
       LET advice == IF judged.pick = None THEN advised ELSE judged.pick
           r == IF judged.blocks THEN None
                ELSE Chosen(states, candidates, explicit, advice, None) IN
       /\ Persist(p, states)
       /\ IF r = None
          THEN tried' = [tried EXCEPT ![p] = {}] /\ UNCHANGED running
          ELSE /\ running' = [running EXCEPT ![p] = [resource |-> r, role |-> "implementation"]]
               /\ tried' = [tried EXCEPT ![p] = @ \cup {r}]
  /\ last' = "none"
  /\ UNCHANGED <<open, world, cycle, crashes, asked>>

\* The state a result leaves behind.
AfterResult(p, o) ==
  LET r == running[p].resource s == mem[p][r]
      new == IF o.class = "RESOURCE_CONSTRAINED" THEN Constrained(s)
             ELSE Recorded(s, r, running[p].role, o)
  IN  Persist(p, [mem[p] EXCEPT ![r] = new])

\* The local runtime alone can report its own shortage.
Possible(r) == {o \in Answers : o.class = "RESOURCE_CONSTRAINED" => Local(r)}

\* An implementation ends.  A success goes to review; a failure fails over.
ImplementationEnds(p) ==
  /\ p \in open /\ running[p].role = "implementation"
  /\ \E o \in Possible(running[p].resource) :
       /\ AfterResult(p, o)
       /\ last' = IF o.ours THEN "ours" ELSE "theirs"
       /\ IF o.class = "SUCCESS"
          THEN /\ cycle' = [cycle EXCEPT ![p] = [NoCycle EXCEPT !.maker = running[p].resource]]
               /\ tried' = [tried EXCEPT ![p] = {}]
          ELSE UNCHANGED <<cycle, tried>>
  /\ running' = [running EXCEPT ![p] = Idle]
  /\ UNCHANGED <<open, world, crashes, asked>>

\* select_reviewers, when the implementation settles.
PlanReview(p) ==
  /\ p \in open /\ cycle[p].maker # None /\ cycle[p].mapping = <<>>
  /\ LET states == Swept(mem[p]) IN
     \E advised \in Resources, mapping \in [DOMAIN ReviewRoles -> Resources] :
       /\ Planned(mapping, states, cycle[p].maker, advised)
       /\ cycle' = [cycle EXCEPT ![p].mapping = mapping]
       /\ Persist(p, states)
  /\ last' = "none"
  /\ UNCHANGED <<open, running, tried, world, crashes, asked>>

\* A role's turn: its candidates are drawn up with a full launch budget.
StartRole(p) ==
  /\ p \in open /\ running[p] = Idle
  /\ LET c == cycle[p] i == c.role + 1 states == Swept(mem[p]) IN
     /\ c.mapping # <<>> /\ Len(c.served) = c.role /\ i <= Len(ReviewRoles)
     /\ \E advised \in Resources :
        \E queue \in ReviewQueues(states, c.maker, ReviewRoles[i], c.mapping[i], advised) :
          cycle' = [cycle EXCEPT ![p] = [c EXCEPT !.role = i, !.budget = MaxLaunches, !.queue = queue]]
     /\ Persist(p, states)
  /\ asked' = [asked EXCEPT ![p] = Unasked]
  /\ last' = "none"
  /\ UNCHANGED <<open, running, tried, world, crashes>>

InRole(p) == p \in open /\ running[p] = Idle /\ Len(cycle[p].served) < cycle[p].role

\* Why a candidate is not launched now: the pool's live word, or its backend is gone.
PassedOver(p, r, role) == CapacityBlocked(mem[p][r], role) \/ world[r] \in Unready

\* The next candidate: one the pool knows cannot serve, or whose backend is not
\* there, is passed over free of charge; another is launched and charged.
AskNext(p) ==
  /\ InRole(p) /\ cycle[p].queue # <<>> /\ cycle[p].budget > 0
  /\ LET c == cycle[p] r == Head(c.queue) role == ReviewRoles[c.role] IN
     \/ /\ PassedOver(p, r, role)
        /\ cycle' = [cycle EXCEPT ![p].queue = Tail(@)]
        /\ asked' = [asked EXCEPT ![p][r] = "away"]
        /\ UNCHANGED running
     \/ /\ ~PassedOver(p, r, role)
        /\ cycle' = [cycle EXCEPT ![p].queue = Tail(@), ![p].budget = @ - 1]
        /\ running' = [running EXCEPT ![p] = [resource |-> r, role |-> role]]
        /\ UNCHANGED asked
  /\ last' = "none"
  /\ UNCHANGED <<disk, mem, open, tried, world, crashes>>

\* Mutant of Refund: learning that a provider is out still costs the role a launch.
NoRefund(class) == 0

\* A provider found exhausted costs the role nothing.
Refund(class) == IF class \in Exhausting THEN 1 ELSE 0

\* A reviewer ends.  Its output may be unusable even when the run succeeded.
ReviewerEnds(p) ==
  /\ p \in open /\ running[p].role \in Roles \ {"implementation"}
  /\ LET r == running[p].resource IN
     \E o \in Possible(r), valid \in BOOLEAN :
       /\ AfterResult(p, o)
       /\ last' = IF o.ours THEN "ours" ELSE "theirs"
       /\ cycle' = [cycle EXCEPT ![p].budget = @ + Refund(o.class),
                      ![p].served = IF o.class = "SUCCESS" /\ valid THEN Append(@, r) ELSE @]
       /\ asked' = [asked EXCEPT ![p][r] = IF o.class \in Exhausting THEN "away" ELSE "answered"]
  /\ running' = [running EXCEPT ![p] = Idle]
  /\ UNCHANGED <<open, tried, world, crashes>>

\* Nobody served the role: the cycle records the failure.
RoleFails(p) ==
  /\ InRole(p) /\ (cycle[p].queue = <<>> \/ cycle[p].budget = 0)
  /\ cycle' = [cycle EXCEPT ![p].served = Append(@, None)]
  /\ last' = "none"
  /\ UNCHANGED <<disk, mem, open, running, tried, world, crashes, asked>>

\* Every role has been through: the verdict goes to the orchestrator.
CycleEnds(p) ==
  /\ p \in open /\ running[p] = Idle /\ Len(cycle[p].served) = Len(ReviewRoles)
  /\ cycle' = [cycle EXCEPT ![p] = NoCycle]
  /\ asked' = [asked EXCEPT ![p] = Unasked]
  /\ last' = "none"
  /\ UNCHANGED <<disk, mem, open, running, tried, world, crashes>>

\* reset_resource, by an operator's command or at the start of a campaign: the
\* process has no task at hand.
Reset(p, r) ==
  /\ p \in open /\ NoTask(p) /\ r \in Enabled
  /\ Persist(p, [mem[p] EXCEPT ![r] = ResetStatus(@, r, world[r])])
  /\ last' = "none"
  /\ UNCHANGED <<open, running, tried, world, cycle, crashes, asked>>

\* The world: an executable, a login or a service comes and goes.
Weather(r) ==
  /\ \E w \in Worlds \ {world[r]} : world' = [world EXCEPT ![r] = w]
  /\ last' = "none"
  /\ UNCHANGED <<disk, mem, open, running, tried, cycle, crashes, asked>>

Sooner(n) == IF n > 0 THEN n - 1 ELSE n
Aged(states) == [r \in Resources |-> [states[r] EXCEPT !.retry = Sooner(@)]]

\* Time passes for every record of a retry time at once.
TimePasses ==
  /\ disk' = Aged(disk)
  /\ mem' = [p \in Pools |-> Aged(mem[p])]
  /\ <<disk', mem'>> # <<disk, mem>>
  /\ last' = "none"
  /\ UNCHANGED <<open, running, tried, world, cycle, crashes, asked>>

Run(p) ==
  \/ RoleFails(p) \/ CycleEnds(p) \/ AskNext(p) \/ ImplementationEnds(p) \/ ReviewerEnds(p)
  \/ PlanReview(p) \/ StartRole(p) \/ Select(p)

PoolNext ==
  \/ \E p \in Pools : Open(p) \/ Close(p) \/ Run(p) \/ \E r \in Resources : Reset(p, r)
  \/ \E r \in Resources : Weather(r)
  \/ TimePasses

PoolSpec == PoolInit /\ [][PoolNext]_poolVars

\* The clock runs, and a process that stays up keeps working.
PoolFairSpec == PoolSpec /\ WF_poolVars(TimePasses) /\ \A p \in Pools : WF_poolVars(Run(p))

-----------------------------------------------------------------------------
(* Properties. *)

\* A deadline of ours, or a folder nobody trusts, never makes the resource less
\* eligible than it was: not for another role, not for another workspace
\* (classify_result, record_result; HOWLFRAM-SLOPFIX-05).
OwnTroubleNeverBenches ==
  [][last' = "ours" =>
       \A p \in Pools, r \in Resources, role \in Roles :
         CapacityBlocked(mem'[p][r], role) => CapacityBlocked(mem[p][r], role)]_poolVars

\* A role whose review fails with launches to spare has asked every resource that
\* could serve it: an outage of some providers never denies a turn to a healthy
\* one behind them (invoke_reviewer_with_failover).
OutageDeniesNobody ==
  \A p \in Pools :
    LET c == cycle[p] answered == {r \in Resources : asked[p][r] = "answered"} IN
    c.role > 0 /\ Len(c.served) = c.role /\ c.served[c.role] = None
      => c.queue = <<>> \/ Cardinality(answered) >= MaxLaunches

\* Every exhaustion passes: a process that stays up and keeps working asks the
\* provider again ("Every capacity condition expires", record_result).
ExhaustionPasses ==
  \A p \in Pools, r \in Resources :
    (p \in open /\ mem[p][r].status \in Exhausted)
      ~> (p \notin open \/ mem[p][r].status \notin Exhausted)

===============================================================================
