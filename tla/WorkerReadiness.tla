-------------------------- MODULE WorkerReadiness --------------------------
(* What HowlPlane knows of its workers between one command and the next: the *)
(* readiness cache, the vendor's trust stores and the operator's             *)
(* authorizations (agent_readiness.py, workspace_trust.py, prepare.py).      *)
(* Every writer loads a whole file, changes its copy and saves the whole     *)
(* copy, without a lock.  Orchestrate sessions write one observation, or what *)
(* an agent's model listing shows; the doctor keeps its copy while it probes  *)
(* and smokes; `factory prepare` clears the refusals it has re-verified;      *)
(* `--revoke` may come at any time.                                           *)
EXTENDS Naturals, WorkspaceTrust

CONSTANTS
    Workspaces,   \* the folders workers are sent into
    Sessions,     \* orchestrate sessions, which report their invocations back
    Models,       \* models a limit may name
    Any,          \* the limit that names no model: the agent's own
    Policy,       \* the trust policy of each session and of the doctor
    Wary,         \* <<agent, folder, mechanism>> the CLI refuses whatever its store says
    Window,       \* ticks a limit or a verdict on login stays fresh
    MaxOutcomes,  \* bound: invocations reported back
    MaxDoctors,   \* bound: doctor runs
    MaxSmokes,    \* bound: live smokes of one doctor run
    MaxPrepares   \* bound: prepare commands

Doctor == "doctor"
Preparer == "prepare"
Writers == Sessions \cup {Doctor, Preparer}

ASSUME WriterAssumption == Workspaces \subseteq Folders /\ Doctor \notin Sessions /\ Preparer \notin Sessions
ASSUME BoundAssumption == Window \in Nat \ {0} /\ MaxOutcomes \in Nat /\ MaxDoctors \in Nat

VARIABLES
    cache,        \* agent -> its record in agent_readiness.json
    store,        \* agent -> the directories the vendor trusts
    registry,     \* the directories the operator has authorized
    verdict,      \* the last readiness report: its status and the workers it counts
    pc,           \* writer -> what it does next
    copy,         \* writer -> its copy of the cache, meaningful while it holds one
    job,          \* writer -> the observation it reports, or where the doctor looks
    seen,         \* history: the latest observation of each kind, as a record
    behind,       \* history: writers whose copy another writer has overtaken
    budget        \* invocations and doctor runs still allowed

readinessVars == <<cache, store, registry, verdict, pc, copy, job, seen, behind, budget>>

\* One agent's evidence.  Dated evidence is the number of ticks it stays fresh.
NoEvidence == [refusal |-> [f \in Workspaces |-> "none"],
               limit |-> [m \in Models \cup {Any} |-> 0],
               loggedOut |-> 0, interactive |-> 0]
Records == [refusal : [Workspaces -> {"none", "plain", "flag"}],
            limit : [Models \cup {Any} -> 0..Window],
            loggedOut : 0..Window, interactive : 0..Window]

NoJob == [agent |-> "none"]
NoCopy == [a \in Agents |-> NoEvidence]

\* How an invocation can end: as a kind, with the model a limit names.
Kinds == [type : {"ok", "trust", "denied", "auth"}, model : {Any}]
         \cup [type : {"limit"}, model : Models \cup {Any}]

ReadinessInit ==
    /\ cache = NoCopy
    /\ store \in [Agents -> {{}}]
    /\ registry = {}
    /\ verdict = [status |-> "none", workers |-> {}]
    /\ pc = [w \in Writers |-> "idle"]
    /\ copy = [w \in Writers |-> NoCopy]
    /\ job = [w \in Writers |-> NoJob]
    /\ seen = cache
    /\ behind = {}
    /\ budget = [outcomes |-> MaxOutcomes, doctors |-> MaxDoctors, prepares |-> MaxPrepares]

----------------------------------------------------------------------------
(* Evidence                                                                  *)

\* Mutant of Limits: a limit on one model is taken for the agent's own.
LimitsAgent(m) == Any

\* The scope a limit proves: the model that met it, or the agent when unknown.
Limits(m) == m

\* record_session_outcome, record_workspace_trust and the smoke's verdict: what
\* one invocation proves, at the scope it proves it.
Observed(rec, kind, f, mech, fresh) ==
    CASE kind.type = "ok" -> [rec EXCEPT !.interactive = 0]
      [] kind.type = "denied" -> [rec EXCEPT !.interactive = fresh]
      [] kind.type = "auth" -> [rec EXCEPT !.loggedOut = fresh]
      [] kind.type = "trust" -> [rec EXCEPT !.refusal[f] = mech]
      [] OTHER -> [rec EXCEPT !.limit[Limits(kind.model)] = fresh]

\* A smoke in a directory: a pass also settles an earlier refusal there, and a
\* denied tool is kept with the smoke, not as evidence about the agent.
Smoked(rec, kind, f, mech, fresh) ==
    CASE kind.type = "ok" -> [Observed(rec, kind, f, mech, fresh) EXCEPT !.refusal[f] = "none"]
      [] kind.type = "denied" -> rec
      [] OTHER -> Observed(rec, kind, f, mech, fresh)

\* History only: what an observation shows, by the words of the record it keeps.
Shown(rec, kind, f, mech, fresh, smoke) ==
    [refusal |-> [g \in Workspaces |->
         IF g # f THEN rec.refusal[g] ELSE IF kind.type = "trust" THEN mech
         ELSE IF smoke /\ kind.type = "ok" THEN "none" ELSE rec.refusal[g]],
     limit |-> [m \in Models \cup {Any} |->
         IF kind.type = "limit" /\ kind.model = m THEN fresh ELSE rec.limit[m]],
     loggedOut |-> IF kind.type = "auth" THEN fresh ELSE rec.loggedOut,
     interactive |-> IF kind.type = "ok" THEN 0
                     ELSE IF kind.type = "denied" /\ ~smoke THEN fresh ELSE rec.interactive]

Less(n) == IF n = 0 THEN 0 ELSE n - 1
Older(rec) == [rec EXCEPT !.limit = [m \in Models \cup {Any} |-> Less(@[m])],
                          !.loggedOut = Less(@), !.interactive = Less(@)]

\* summarize: fresh negative evidence about the whole agent, never about a model.
Excluded(rec) == rec.loggedOut > 0 \/ rec.limit[Any] > 0

\* What the agent's CLI does with this invocation, whatever HowlPlane believes.
CliRefuses(a, f, mech) ==
    /\ Enforced(a)
    /\ \/ <<a, f, mech>> \in Wary
       \/ mech = "plain" /\ Check(a, f, store) # "READY"
Outcomes(a, f, mech) == {kind \in Kinds : (kind.type = "trust") <=> CliRefuses(a, f, mech)}

\* The documented flag records trust with the vendor; devin's only skips a check.
Trusting(a, f, mech, kind) ==
    IF mech = "flag" /\ a \in Persistent /\ kind.type # "trust"
    THEN [store EXCEPT ![a] = @ \cup {f}] ELSE store

Holding(w) == pc[w] \in {"save", "smoking", "clear"}

\* A save overtakes every other writer that holds a copy.  Saving an overtaken
\* copy, or failing to save, loses observations: the history starts over there.
Saves(w, agents) ==
    /\ cache' = agents
    /\ seen' = IF w \in behind THEN agents ELSE seen
    /\ behind' = (behind \cup {v \in Writers : Holding(v)}) \ {w}
SaveFails(w) ==
    /\ seen' = cache
    /\ behind' = (behind \cup {v \in Writers : Holding(v)}) \ {w}
    /\ UNCHANGED cache

----------------------------------------------------------------------------
(* Sessions: dispatch, report                                                *)

\* inventory: the agent is not excluded, and the vendor's store or the policy's
\* flag opens the directory.  The refusals on record are not looked at.
Routable(a, f, policy) ==
    /\ ~Excluded(cache[a])
    /\ Effective(a, Check(a, f, store), policy) # "TRUST_REQUIRED"

\* A session routes by its inventory; the invocation is dispatched and comes
\* back.  What the session remembers of its own refusals bars an agent only
\* there (workspace_trust_block): each dispatch is a new session's.
Dispatch(s) ==
    /\ pc[s] = "idle" /\ budget.outcomes > 0
    /\ \E a \in Agents, f \in Workspaces :
         /\ Routable(a, f, Policy[s])
         /\ LET mech == Mechanism(a, Policy[s]) IN
            \E kind \in Outcomes(a, f, mech) :
              /\ job' = [job EXCEPT ![s] = [agent |-> a, folder |-> f, kind |-> kind, mech |-> mech]]
              /\ store' = Trusting(a, f, mech, kind)
    /\ pc' = [pc EXCEPT ![s] = "load"]
    /\ budget' = [budget EXCEPT !.outcomes = @ - 1]
    /\ UNCHANGED <<cache, registry, verdict, copy, seen, behind>>

\* _update_cache: load the whole cache and change one record of the copy ...
LoadCache(s) ==
    /\ pc[s] = "load"
    /\ LET j == job[s] IN
       \E agents \in {[cache EXCEPT ![j.agent] = Observed(@, j.kind, j.folder, j.mech, Window)]} :
         /\ copy' = [copy EXCEPT ![s] = agents]
         /\ seen' = [seen EXCEPT ![j.agent] = Shown(@, j.kind, j.folder, j.mech, Window, FALSE)]
    /\ pc' = [pc EXCEPT ![s] = "save"]
    /\ job' = [job EXCEPT ![s] = NoJob]
    /\ UNCHANGED <<cache, store, registry, verdict, behind, budget>>

\* ... and save the copy whole, or not at all: an OSError is swallowed.
Save(s) ==
    /\ pc[s] = "save"
    /\ Saves(s, copy[s]) \/ SaveFails(s)
    /\ pc' = [pc EXCEPT ![s] = "idle"]
    /\ copy' = [copy EXCEPT ![s] = NoCopy]
    /\ UNCHANGED <<store, registry, verdict, job, budget>>

\* routing_models, for the inventory: the whole cache is loaded, only what an
\* agent's listing shows is changed, and the copy is saved like any other.
ListModels(s) ==
    /\ pc[s] = "idle" /\ budget.outcomes > 0
    /\ copy' = [copy EXCEPT ![s] = cache]
    /\ pc' = [pc EXCEPT ![s] = "save"]
    /\ UNCHANGED <<cache, store, registry, verdict, job, seen, behind, budget>>

----------------------------------------------------------------------------
(* The doctor: load, probe and smoke for as long as it takes, save the copy  *)

\* probe_auth for what is stale (or for everything, with --refresh), and the
\* agents a live smoke is due for; every verdict carries the starting moment.
Probed(agents, asked, out) == [a \in Agents |->
    IF a \in asked THEN [agents[a] EXCEPT !.loggedOut = IF a \in out THEN Window ELSE 0]
    ELSE agents[a]]
Examine ==
    /\ pc[Doctor] = "idle" /\ budget.doctors > 0
    /\ \E asked \in {Agents} \cup SUBSET {a \in Agents : cache[a].loggedOut = 0} :
       \E out \in SUBSET asked :
         /\ copy' = [copy EXCEPT ![Doctor] = Probed(cache, asked, out)]
         /\ seen' = Probed(seen, asked, out)
    /\ \E f \in Workspaces, due \in SUBSET {a \in Agents : copy'[Doctor][a].loggedOut = 0} :
         /\ Cardinality(due) <= MaxSmokes
         /\ job' = [job EXCEPT ![Doctor] = [agent |-> "none", folder |-> f, due |-> due, age |-> 0,
                                         answered |-> {}, able |-> {}]]
    /\ pc' = [pc EXCEPT ![Doctor] = "smoking"]
    /\ budget' = [budget EXCEPT !.doctors = @ - 1]
    /\ UNCHANGED <<cache, store, registry, verdict, behind>>

\* run_smoke: one agent's bounded, read-only invocation in the directory.
RunSmoke ==
    /\ pc[Doctor] = "smoking"
    /\ \E a \in job[Doctor].due :
       LET f == job[Doctor].folder
           mech == Mechanism(a, Policy[Doctor])
           fresh == IF job[Doctor].age >= Window THEN 0 ELSE Window - job[Doctor].age
       IN \E kind \in Outcomes(a, f, mech) :
            /\ copy' = [copy EXCEPT ![Doctor][a] = Smoked(@, kind, f, mech, fresh)]
            /\ seen' = [seen EXCEPT ![a] = Shown(@, kind, f, mech, fresh, TRUE)]
            /\ store' = Trusting(a, f, mech, kind)
            /\ job' = [job EXCEPT ![Doctor].due = @ \ {a}, ![Doctor].answered = @ \cup {a}]
    /\ budget' = [budget EXCEPT !.outcomes = @ - 1]
    /\ UNCHANGED <<cache, registry, verdict, pc, behind>>

\* Mutant of Barred: the vendor's own verdict alone decides.
BarredByVendor(agents, a, f) == Check(a, f, store) = "TRUST_REQUIRED"

\* workspace_ok: effective readiness under the policy decides.
Barred(agents, a, f) == WorkspaceBlocked(a, f, agents[a].refusal[f], store, Policy[Doctor])

\* summarize, autonomous: who is logged in, has capacity and runs unattended.
Able(agents) == {a \in Agents : ~Excluded(agents[a]) /\ agents[a].interactive = 0}

\* factory_readiness: who may implement and who may review there, unattended.
Autonomous(able, agents, f) == {a \in able : ~Barred(agents, a, f)}
Readiness(workers) ==
    CASE workers = {} -> "BLOCKED"
      [] Cardinality(workers) = 1 -> "DEGRADED"
      [] OTHER -> "READY"

\* _factory_preflight: the report that lets a campaign start.
Starts(report) == report.status # "BLOCKED"

\* evaluate saves the copy it has held all along and summarizes it ...
SaveReport ==
    /\ pc[Doctor] = "smoking" /\ job[Doctor].due = {}
    /\ Saves(Doctor, copy[Doctor])
    /\ pc' = [pc EXCEPT ![Doctor] = "report"]
    /\ job' = [job EXCEPT ![Doctor].able = Able(copy[Doctor])]
    /\ copy' = [copy EXCEPT ![Doctor] = NoCopy]
    /\ UNCHANGED <<store, registry, verdict, budget>>

\* ... and workspace_report loads the file again to say who is barred.
Report ==
    /\ pc[Doctor] = "report"
    /\ LET workers == Autonomous(job[Doctor].able, cache, job[Doctor].folder) IN
       verdict' = [status |-> Readiness(workers), workers |-> workers]
    /\ pc' = [pc EXCEPT ![Doctor] = "idle"]
    /\ job' = [job EXCEPT ![Doctor] = NoJob]
    /\ UNCHANGED <<cache, store, registry, copy, seen, behind, budget>>

----------------------------------------------------------------------------
(* factory prepare and its --revoke                                          *)

\* scope_plan and the strict or prepare policy: what there is to prepare.
ScopePlan == {a \in Agents : Enforced(a) /\ Mechanism(a, Policy[Preparer]) = "plain"} \X Folders
\* authorize: the scope's directories join what was authorized before.
Registered == registry \cup Folders

\* The operator confirms the scope; agents whose flag suffices are left out.
Authorize ==
    /\ pc[Preparer] = "idle" /\ budget.prepares > 0
    /\ registry' = Registered
    /\ pc' = [pc EXCEPT ![Preparer] = "prepare"]
    /\ job' = [job EXCEPT ![Preparer] = [agent |-> "none", todo |-> ScopePlan]]
    /\ budget' = [budget EXCEPT !.prepares = @ - 1]
    /\ UNCHANGED <<cache, store, verdict, copy, seen, behind>>

\* One agent in one directory: refused outside the authorized scope, which ends
\* the command; otherwise the vendor's own means, which may not take effect.
Prepare ==
    /\ pc[Preparer] = "prepare"
    /\ \E a \in Agents, f \in Folders :
         /\ <<a, f>> \in job[Preparer].todo
         /\ IF f \notin registry
            THEN /\ pc' = [pc EXCEPT ![Preparer] = "idle"]
                 /\ job' = [job EXCEPT ![Preparer] = NoJob]
                 /\ UNCHANGED store
            ELSE /\ store' \in {store, [store EXCEPT ![a] = @ \cup {f}]}
                 /\ job' = [job EXCEPT ![Preparer] = [agent |-> a, folder |-> f, todo |-> @.todo \ {<<a, f>>}]]
                 /\ pc' = [pc EXCEPT ![Preparer] = IF Check(a, f, store') = "READY" THEN "verify" ELSE "prepare"]
    /\ UNCHANGED <<cache, registry, verdict, copy, seen, behind, budget>>

\* The CLI is asked itself; only when it accepts is the old refusal cleared.
Verify ==
    /\ pc[Preparer] = "verify"
    /\ LET a == job[Preparer].agent
           f == job[Preparer].folder
       IN IF CliRefuses(a, f, "plain") \/ f \notin Workspaces
          THEN pc' = [pc EXCEPT ![Preparer] = "prepare"] /\ UNCHANGED <<copy, seen>>
          ELSE /\ copy' = [copy EXCEPT ![Preparer] = [cache EXCEPT ![a].refusal[f] = "none"]]
               /\ seen' = [seen EXCEPT ![a].refusal[f] = "none"]
               /\ pc' = [pc EXCEPT ![Preparer] = "clear"]
    /\ UNCHANGED <<cache, store, registry, verdict, job, behind, budget>>

ClearRefusal ==
    /\ pc[Preparer] = "clear"
    /\ Saves(Preparer, copy[Preparer]) \/ SaveFails(Preparer)
    /\ pc' = [pc EXCEPT ![Preparer] = "prepare"]
    /\ copy' = [copy EXCEPT ![Preparer] = NoCopy]
    /\ UNCHANGED <<store, registry, verdict, job, budget>>

\* record_prepared loads the registry; without an entry it leaves it alone.
LoadPrepared ==
    /\ pc[Preparer] = "prepare" /\ job[Preparer].todo = {}
    /\ pc' = [pc EXCEPT ![Preparer] = IF registry = {} THEN "idle" ELSE "record"]
    /\ job' = [job EXCEPT ![Preparer] = NoJob]
    /\ UNCHANGED <<cache, store, registry, verdict, copy, seen, behind, budget>>

SavePrepared ==
    /\ pc[Preparer] = "record"
    /\ registry' = Folders
    /\ pc' = [pc EXCEPT ![Preparer] = "idle"]
    /\ UNCHANGED <<cache, store, verdict, copy, job, seen, behind, budget>>

\* --revoke removes HowlPlane's own authorization; vendor trust stays.
Revoke ==
    /\ registry # {}
    /\ registry' = {}
    /\ UNCHANGED <<cache, store, verdict, pc, copy, job, seen, behind, budget>>

\* Evidence ages alike in the file, in a copy and in the history.
Tick ==
    /\ \/ \E a \in Agents : \E agents \in {cache, seen} :
             agents[a] # Older(agents[a])
       \/ pc[Doctor] = "smoking" /\ job[Doctor].age < Window
    /\ cache' = [a \in Agents |-> Older(cache[a])]
    /\ seen' = [a \in Agents |-> Older(seen[a])]
    /\ copy' = [w \in Writers |-> [a \in Agents |-> Older(copy[w][a])]]
    /\ job' = IF pc[Doctor] = "smoking" /\ job[Doctor].age < Window
              THEN [job EXCEPT ![Doctor].age = @ + 1] ELSE job
    /\ UNCHANGED <<store, registry, verdict, pc, behind, budget>>

ReadinessNext ==
    \/ \E s \in Sessions : Dispatch(s) \/ ListModels(s) \/ LoadCache(s) \/ Save(s)
    \/ Examine \/ RunSmoke \/ SaveReport \/ Report
    \/ Authorize \/ Prepare \/ Verify \/ ClearRefusal \/ LoadPrepared \/ SavePrepared
    \/ Revoke \/ Tick

ReadinessSpec == ReadinessInit /\ [][ReadinessNext]_readinessVars

----------------------------------------------------------------------------
(* Properties                                                                *)

\* What is on record is exactly what invocations and preparation last showed, at
\* the scope they showed it, until it lapses: a refusal, a failed login or a
\* limit that was reported is there, and one that was settled is gone.  The only
\* losses are those of a writer that saves a copy another writer has overtaken,
\* as the doctor's whole-cache save may (agent_readiness.py:679), or that fails
\* to save; the history starts over there.
Settled == \A w \in Writers : ~Holding(w)
RecordMatchesObservations == Settled => cache = seen

\* A refusal the CLI itself returned outranks the vendor's store
\* (workspace_status, agent_readiness.py:502-504).  What the doctor's own smokes
\* met is on record when it saves, overtaken or not; and the report that lets a
\* campaign start (factory_run_cli.py:425) counts no worker that the last answer
\* of its CLI, given when it was run the way this policy runs it or with the
\* flag, turned away from the directory, unless another writer is between its
\* load and its save, and none whose CLI refuses for what its store shows.
AnswersOutrankStores ==
    [][\A a \in Agents :
        LET f == job[Doctor].folder
            mech == Mechanism(a, Policy[Doctor])
        IN /\ pc[Doctor] = "smoking" /\ pc'[Doctor] = "report"
              /\ a \in job[Doctor].answered /\ CliRefuses(a, f, mech)
              => cache'[a].refusal[f] = mech
           /\ pc[Doctor] = "report" /\ pc'[Doctor] = "idle"
              /\ Starts(verdict') /\ a \in verdict'.workers
              => /\ Settled => seen[a].refusal[f] \notin {mech, "flag"}
                 /\ CliRefuses(a, f, mech) => <<a, f, mech>> \in Wary]_readinessVars
=============================================================================
