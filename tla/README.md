# A formal model of HowlPlane

HowlPlane runs software work through AI providers under an owner's authority.
This directory models the parts of it whose correctness depends on the order in
which processes, provider programs, people, GitHub and crashes act on shared
files and checkouts: the locks, the factory supervisor, the portfolio policy, the
approved task queue, the human authority boundary, orchestration sessions, the
governed task, the provider pool, provider attempts and their rollback, the
campaigns that run unattended, and the readiness cache.

Paths below are relative to `src/src/howlplane/control_plane/` unless they say
otherwise; `src/` is the repository.

Contents: 1 the system, 2 the modules, 3 the runs, 4 bounds, 5 fairness,
6 proofs, 7 where the code and its own statements differ, 8 what is not
modelled, 9 plan.

## 1. The system

### Components, their state and their operations

| component | durable state | operations | correct when |
|---|---|---|---|
| File locks (`locking.py`) | one JSON file per lock; an in-process registry of lineages | acquire, re-enter by token, reclaim a stale lock, release, `howlplane unlock` | at most one lineage holds; a holder's metadata stays on disk; nothing running leaves an orphan |
| Factory supervisor (`factory/supervisor.py`, `supervisor_state.py`) | the supervisor record; the work items | build, run loop, tick (reconcile, requeue, ingest, select, dispatch, settle), bounded stop, signals | one item in progress; a crash is visible from disk; the budget holds; a stop is not lost |
| Work items (`factory/work_item.py`, `work_item_decision.py`) | one file per item | admit, reopen on new evidence, block, release, ship, approve, reject | only cleared work runs; the lifecycle is followed |
| Operator commands (`factory/factory_cli.py`, `factory_run_cli.py`) | the supervisor record | run, start, stop, resume | a refused process costs nothing; a stop holds |
| Portfolio (`factory/portfolio.py`) | the last dispatches | select | caps hold; starvation ends; the product is served |
| Task queue (`factory/task_queue.py`), mission binding (`factory/mission_binding.py`) | an approved queue, an append-only ledger, a contract, flocks | select, retire older revisions, launch, report, admit a start | one session per worktree unless a running one is discarded; no outcome lost or silently rerun; limits survive edits and crashes |
| Human boundary (`human_boundary.py`), executor (`executor.py`) | a task's run directory; `.howlchangeops` (external) | approve, reject, resume, cancel; evaluate, execute, query | completion is earned; nothing runs unapproved, or twice |
| Orchestration sessions (`orchestration.py`) | session files with leases | start, resume, discard, supersede; plan, implement, review, rework, validate, accept | one coordinator per worktree; a completed session was accepted on what it delivers; a run ends |
| Governed task (`orchestrator.py`, `checkpoints.py`, `recovery.py`), reviews (`review_runner.py`, `reconciliation.py`), verification (`verification.py`) | task.yaml, checkpoints, retained fragments, review files, reports | the attempt loop with failover and salvage, review, remediation, verification, resume, cancel | completed on what was verified; nobody reviews itself knowingly; rejected work does not stay |
| Provider pool (`synthesis/provider_pool.py`) | a capacity store shared by processes | open, sweep, re-probe, select, record, reset | our own trouble benches nobody; exhaustion passes; an outage costs a healthy reviewer nothing |
| Agent execution (`agent_execution.py`), baselines (`git_baseline.py`) | a child process; the checkout; baseline.json | spawn, poll, stall, deadline, kill; capture, delta, restore, scope, retain | no provider outlives its call; a rollback reports exact restoration only when it is |
| Marathon (`synthesis/marathon.py`, `campaign_state.py`) | campaign state | backlog loop, canary, benchmark loop, falsification, local continuation | records are true; attempts do not mix; budgets hold; the framework is modified only on earned evidence |
| Git integration (`git_integration.py`), authority (`authority_envelope.py`) | the checkout, the remote, the pull request | branch, commit, push, open, observe CI, merge, verify main | what the record says of the remote is so |
| Synthesis engine (`synthesis/engine.py`, `acceptance.py`) | a product directory | negotiate, synthesise, compile, accept, review, repair | a bundle that is called verified was accepted |
| Worker readiness (`agent_readiness.py`, `workspace_trust.py`, `prepare.py`) | a cache file; vendors' trust stores; authorizations | observe, doctor, smoke, prepare, revoke | evidence in the file is what was last observed; a CLI's own refusal outranks its store |

The other components (routing, evidence, the agent registry, bootstrap, service,
presentation, setup, the Go launcher) are listed in `PROJECT.json` with the
reason each is left out.

### How they interact

* `factory run` builds a supervisor from its record, takes the supervisor lock
  (FileLock) and ticks. A tick saves items and record in separate files, and the
  dispatcher works one item through a marathon campaign (Campaign).
* A campaign asks the provider pool for somebody, has them work in the checkout,
  and carries the result through GitIntegration to a merged pull request.
* `factory stop`, `factory resume`, `approve` and `reject` are other processes.
  They load a file, change it and save it, without the supervisor lock.
* `factory run` with an approved queue runs the task queue instead: it takes the
  queue's flock, selects a task and calls `orchestrate`, which keeps the sessions.
* A governed task runs providers one after another (Attempt), each on the checkout
  as the task found it, then reviews, remediates and verifies (GovernedTask). One
  that meets an authority boundary stops; a person decides in another process;
  `resume` takes the task's lock, hands approved actions to HowlChangeOps,
  verifies, and ends the task (HumanBoundary).
* Every worker of a session reports into the readiness cache the doctor and
  `factory prepare` also write.

### What is hard

Saves are atomic but read-modify-writes are not, and most commands hold no lock
while they do one. Every process can die between two saves. Locks are files that
are read, classified and unlinked by path. Providers are programs of somebody
else, which edit a person's checkout, run out of quota half-way, print nothing for
long, or survive the harness. GitHub answers late, or not, or has done what it was
never seen to do. `PROJECT.json` lists these hazards line by line with the
properties that would show them go wrong.

## 2. The modules

| module | models | state and actions |
|---|---|---|
| `FileLock` | `locking.py` | the path; per object where it is and what it has read; one action per system call of acquire, release and reclaim, plus Crash and Recycle (PID reuse) |
| `Factory` | supervisor, record, items, operator commands | `rec` and `items` on disk, `mem` what a process has read; one action per save. Build ... Enter start a process; Reconcile ... Settle are the tick; LeaveStopped ... Again the loop; StopLoad ... Reject are other processes |
| `WorkItemLifecycle` | the documented life of work items | abstract: one status per item, at most one in progress. `Factory` implements it (`FollowsLifecycle`) |
| `Portfolio` | `portfolio.py` and the history the supervisor keeps | `ready`, `starving`, `history`; Tick dispatches `Selected`, a function of the three |
| `TaskQueue` | `task_queue.py`, `mission_binding.py`, orchestrate's session bookkeeping | the queue's revisions, the ledger, sessions, two locks, per run a pc and memory; people edit, clean, start, resume and discard, running sessions too; a discarded one that runs saves itself back |
| `HumanBoundary` | `human_boundary.py`, `executor.py`, what resume reaches of `orchestrator.py` | the run directory's documents, the executor's records, the repository's version; people decide without a lock, workers resume and cancel under it |
| `Orchestration` | `orchestration.py` | `disk` (sessions), `mem` (the coordinator's copy), `at`, the worktree's version; a command is one step under the flock, a checkpoint is one save; workers edit while they run |
| `GovernedTask` | `orchestrator.py`, `review_runner.py`, `recovery.py`, `checkpoints.py`, `verification.py` | task status, checkpoint, fragments, verdicts and reports on disk; the run's locals; the worktree as a version number with the history of who made which |
| `ProviderPool` | `provider_pool.py`, the reviewer queue of `review_runner.py` | the shared file, each process's copy, relative clocks, the review under way; a process opens the pool, selects, records results, plans and holds reviews, resets a record, ends; time and the providers' readiness change |
| `WorkTree` | `git_baseline.py` | pure: a file as head, index and work; porcelain status, snapshots, delta, restore, scope, retain and promote |
| `AgentExecution` | one call in `agent_execution.py` | the child and what the harness knows of it; a poll is the unit of time; how each ending is classified |
| `Attempt` | the attempt loop of `orchestrator.py` on a real checkout | composes WorkTree and AgentExecution with a person's unfinished files, failover, retained fragments, remediation and the harness's death |
| `AttemptLoop` | what the rest of the program takes that loop to be | abstract: providers one at a time, none twice, each on a clean checkout or a run that says it is not. `Attempt` implements it (`ImplementsLoop`) |
| `GitIntegration` | `git_integration.py`, `_execute_governed_engineering_improvement`, `authority_envelope.py` | the task from grant to merged pull request: the process, the checkout, the remote, CI, GitHub's answers, what the record says |
| `Campaign` | `run_backlog_marathon`, the acceptance canary | composes GitIntegration with the ranked backlog, start, resume, the four ends and the campaign's own record |
| `Synthesis` | `engine.py`, `acceptance.py` | one synthesis: providers, compile, acceptance, review and repair; what a failure is evidence of |
| `Dogfood` | the benchmark loop, falsification and local continuation of `marathon.py` | composes Synthesis with the campaign's record, providers that run out, restarts |
| `WorkspaceTrust` | `workspace_trust.py` | pure: mechanisms, inherited trust, what a vendor's store answers |
| `WorkerReadiness` | `agent_readiness.py`, `prepare.py` | the cache, trust stores and authorizations; each writer's copy; sessions (dispatch, model listing), doctor and report, prepare, revoke |
| `MC*` | | instances: model values, tables, symmetry, constraints |
| `FactoryProofs`, `OrchestrationProofs`, `TaskQueueProofs`, `GovernedTaskProofs`, `CampaignProofs` | | the theorems of the module named |
| `SchedulingProofs`, `AgentProofs`, `AuthorityProofs` | | the theorems of FileLock and Portfolio; of Attempt, WorkerReadiness and ProviderPool; of HumanBoundary and Dogfood |

Conventions. Names follow the source. A definition whose comment says "Mutant of"
is a plausible bug in the definition it names, kept to show that a property
notices it; no specification uses it. Variables declared as ghosts (`runs`,
`cleared`, `spent`, `faults` and the like) are history or bounds, not state of the
program. A refusal that only raises changes nothing and has no action, except in
`HumanBoundary`, where it releases the lock exactly as a death does (`Abort`).

Abstractions worth knowing. Two reads with no write of another process that
matters between them are one step. In `Factory` a malformed record, `run_once`
outside the loop and the arithmetic of wake times are left out, and `Idle`
over-approximates the portfolio's caps (a tick may idle with work ready);
`Portfolio` has the caps exactly. In `TaskQueue` a session's phases are one step
with any outcome; `Orchestration` has the phases. In `HumanBoundary` the
verification plan has any outcome, and the executor does not refuse a second
execution itself, so that HowlPlane's own query carries the property. In
`GovernedTask` an attempt on the checkout is a version number; `Attempt` has the
files. In `Orchestration` each agent has one model. In `GitIntegration` a file's
content is who made it, for which task, in which life of the process. A clock is
the ticks still to go until something is due.

## 3. The runs

Every run finishes without an error; the sizes are distinct states.

| run | what it asks | states |
|---|---|---|
| `filelock_careful` | does the lock exclude, with crashes, PID reuse, re-entry and `unlock`, if acquisitions and reclamations do not overlap? | 6,176 |
| `factory_quiet` | are the lifecycle, the budget, the record and the stop kept, and dependencies released, through faults, commands, decisions and a second process? | 440,009 |
| `portfolio` | do the caps hold over every window, is starving work passed over only when capped, is product work always served in the end? | 77,824 |
| `taskqueue_mission` | is a worktree's one session doubled or lost only by a discard while it runs, are starts due, do the mission's limits survive edits and crashes? | 696,859 |
| `human_approval` | is an action executed once, only approved, and completion earned, with edits, killed executions and crashes at every step? | 329,454 |
| `orchestration_sessions` | does a worktree have one coordinator, is COMPLETE earned by the content it stands for, does a run end? | 296,508 |
| `task_run` | is a task completed on what it verified, are reviews independent, is a rejected fragment undone, does a run end? | 623,587 |
| `provider_work` | whom does trouble bench, for how long, and what does an outage cost a review? | 18,336 |
| `campaign_backlog` | does the campaign's record agree with the remote, do attempts stay apart, does the merge budget hold, does a campaign end? | 607,653 |
| `dogfood_run` | was every delivered bundle accepted, every framework change earned, the local budget kept through restarts? | 544,509 |
| `attempt_run` | does a provider outlive its call, is a reported rollback exact, does the loop implement `AttemptLoop`? | 275,865 |
| `readiness_doctor` | does the cache say what was observed although three commands save whole copies, and does the doctor's report go by what the CLIs answered? | 1,771,889 |

What they show, beyond "no error": `factory_quiet` checks the refinement to
`WorkItemLifecycle`, so no crash window produces a move the documented table does
not have; `attempt_run` checks the one to `AttemptLoop`, so what `GovernedTask`
assumes of an attempt is what the code does on files; `campaign_backlog` and
`attempt_run` let the outside lie (a command that exits 0 and did nothing, a merge
that landed unseen, a provider that goes on after the harness died).

`factory_quiet` restricts `Factory` to `QuietNext`: while a starting process, an
operator command or an owner decision has read a file it has not yet written
back, nothing else moves. That is how the system is used (one operator, at rest),
and it is what the code needs: with the overlap allowed, the budget and the record
can be overwritten (section 7). `CarefulNext` plays the same part in `FileLock`.
`CarefulSpec` of `Orchestration` assumes
what its comment lists: nobody begins while a coordinator is reopening a session,
discards a session or edits the worktree while one works; a worker ends before its
coordinator's lease runs out; and no coordinator dies in the two windows of
section 7. The proofs
about `Spec` say what does not need the restriction.

Every property of a run has at least one mutant of a mapped definition under which
the same run refutes it.

## 4. Bounds

* FileLock: four objects of three processes on two hosts, tokens for the
  acquisitions that can be live, `MaxBirth` = 1 PID reuse. Two objects of one
  process show re-entry; a process of another host can classify nothing.
* Factory: a budget of three and `MaxRuns` = 4, so that the code's budget and not
  the bound stops the fourth dispatch; one backlog item and one owner direction of
  unproven provenance; one fault, which covers the crash windows since
  reconciliation is the same after any number of crashes; one stop or resume. The
  action constraint `Small` starts the second process only during the first
  dispatch (where the record it could overwrite matters) and lets a fault and a
  command befall the same behaviour only before the first run.
* Portfolio: a window of 2 with caps of 1 fills and empties; `Kept` = 3 drops
  entries from the window and from the history.
* TaskQueue: three launches, two disturbances (edits, crashes, interventions). Two
  dependent tasks that share a root cause and a worktree meet every rule.
* HumanBoundary: finite without a bound. Two ids tell a bound decision from a
  fresh one, three versions a commit from an edit. One consequential action:
  section 7 says what two do.
* Orchestration: two agents, two sessions, two commands, one rework round, two
  versions of the worktree. `Overlapping` starts a second session only beside a
  coordinator that is still at its own PLAN ONLY session: a new goal after a
  session's end is the first case again.
* GovernedTask: two providers, one review role, two attempts, one remediation, two
  edits, one crash, two runs: the second run is the resume.
* ProviderPool: two subscriptions, one process that restarts, cooldowns of one tick
  each (what matters is due or not due).
* Campaign: two rows worth working and one below the floor, two providers, one
  merge allowed (so that the second task meets the spent budget), CI observed
  twice (pending, then the deadline), two faults of any kind.
* Dogfood: two benchmarks, one needing a feature the framework lacks, two cloud
  providers, one repair, a product for each way to fail, two faults, one local
  attempt allowed.
* Attempt: three providers (one of each kind of backend whose endings are told
  apart), two attempts, one fix, two operations on three files (the project's with
  or without a person's staged edit, a person's untracked note, one not yet
  written), one sign printed, one fault. Three operations have been run too (1.3
  million states, over five minutes): nothing new; the theorems have no such bound.
* WorkerReadiness: an agent whose flag records trust and one that asks nothing, one
  session under the bypass policy beside a doctor and a preparer under prepare, one
  directory the CLI refuses whatever its store says, two outcomes reported, one
  doctor run with one live smoke, one prepare.

Deadlock is checked in `factory_quiet`. Elsewhere a behaviour may end: work is
done, or a bound is spent.

## 5. Fairness

* `Factory!FairSpec`: a started process takes its steps (WF on Restart, Turn,
  Work), a command or decision that began completes, the clock moves, and a
  supervisor that ended gets past the stopped state infinitely often if it can (SF
  on EnterResuming): its service unit restarts the command and passes
  `--resume-stopped` (`factory/service.py:140-150`). Nothing is assumed of crashes,
  signals, the owner or discovery.
* `PortfolioFairSpec`: WF on Tick, since the loop ticks as long as it runs.
* `Orchestration!CarefulSpec`, `GovernedTask!FairSpec`, `Campaign!FairSpec`: WF on
  the steps of a process that runs: it is sequential code whose every wait has a
  deadline (a worker's time limit, CI's). Starting it again is nobody's duty, so
  `RunEnds` and `CampaignEnds` speak of a run, which a crash also ends.
* `PoolFairSpec`: time passes, and a process that wants work asks again.
* `Attempt!FairSpec`: WF on the harness's steps, none on a provider's: a call must
  end even though the provider neither prints nor exits. `ImplementsLoop` then
  includes the fairness of `AttemptLoop`.

The other modules claim no liveness.

## 6. Proofs

TLAPS checks, for every value of the constants:

* `SchedulingProofs`, on FileLock: `TypeCorrect`, `DepthCorrect`, `NoOrphanCorrect` for `Spec`
  (every race); `MutualExclusionCorrect`, `HolderOwnsFileCorrect` for
  `CarefulSpec`. `RacingInv` ties tokens to held objects, lineages to one process
  and create times to the past. `CarefulInv` adds that one object acquires at a
  time, that whoever is about to unlink has a dead owner's file, and that an
  object that registers or releases is alone in possession: mutual exclusion by
  itself says nothing about an unlink on its way. On Portfolio: `CapsHoldCorrect`
  and `StarvingPassedOverOnlyIfCappedCorrect`, for any items, caps and window. The
  counts are inductive without a stronger invariant: the window after a dispatch is
  the window before without its first entry, and the entry that joins it is not
  capped. The second rests on `FirstIsOf`: the sort key is a total order of the
  items, so a first candidate exists and is the least.
* `FactoryProofs`: `TypeCorrect`, `SerialWorkCorrect`, `SignalledCorrect` for
  `Spec`; `BudgetCorrect`, `RunIsOnRecordCorrect`, `OnlyClearedCorrect`,
  `FollowsLifecycleCorrect` for `QuietSpec`. `SerialInv` follows what a process
  knows about items in progress at each place of the tick; `QuietInv` adds that
  every copy in memory agrees with the record (`FreshInv`) and that a dispatch is
  counted on disk before it begins (`CountInv`). From it each action is shown to be
  a step or a stutter of `WorkItemLifecycle`, item by item, and an item that starts
  to be one whose evidence the gate has passed. Neither is true of `Spec`: a save
  from a stale copy undoes an owner's rejection (section 7).
* `AuthorityProofs`, on HumanBoundary: `TypeCorrect`, `ExecutedOnce` and `StartedIsSigned` for
  any plan and any number of people and workers. `PlaceInv` gives a worker that is
  not idle the lock; `ReplayInv` says that what has not started is pending and
  that whoever is about to start holds a pending, signed decision, so a start
  leaves the pending state for good. `NoEffectUnapprovedCorrect` supposes one
  person deciding at a time (`OneOwner`), and `CompletionEarnedCorrect` also a task
  of at most one action (`AtMostOneAction`): for two people, or two actions, the
  code breaks them in the ways section 7 tells. `ApprovedInv` and `EarnedInv` say
  which copy of the run directory each process may still write back.
* `AuthorityProofs`, on Dogfood, for any benchmarks, providers and bounds:
  `BundleIsAcceptedCorrect` rests on `BundleInv` (the results in memory are those on
  disk, what is worked on is neither done nor still to come, so that no synthesis
  ever writes where a recorded product is) and on `ProductChecked`, which ties the
  end of a synthesis to the product it left. `LocalBudgetCorrect` rests on
  `BudgetInv`: the record lags behind the count by the attempt under way.
  `SelfModificationCorrect` speaks of who answered, not only of who was asked:
  `AnswersItself` follows the request through the synthesis (the provider asked is
  asked first, is asked again for every repair, and gives way only by running
  out), and `Examined` counts the providers that gave the failure under
  examination: one more than the confirmations so far. What an outage cut short it
  excepts (`CutShort`), since there the code counts whatever comes (section 7).
* `OrchestrationProofs`: `OneCoordinatorCorrect` for `CarefulSpec`, any number of
  coordinators, sessions and agents. That two coordinators do not work is not
  inductive: what excludes the second is the file. `CoordInv` says that the
  session of a working coordinator is on disk as it knows it, under its own lease,
  renewed, and that it is the only active one, so every command that looks under
  the flock finds the worktree taken; each checkpoint keeps that (`Owns`), and each
  end of a run leaves a session nobody may take for active (`Finished`).
  `CompleteIsEarnedCorrect` adds `EarnedInv`: a document whose stage is acceptance
  has been reviewed as the worktree stands (`Sound`), on disk as in memory, whoever
  resumes it. Only a document on its way back from a rejection, or from a read-only
  role that wrote, may not be sound (`GoingBack`), which is why `Dies` lets nobody
  die there; and while a worker runs, what the document says is of the worktree
  the worker began on.
* `TaskQueueProofs`: `OneResumableCorrect` (one session at most to resume in
  each repository, those discarded while they ran aside) and `MissionLimitsCorrect`,
  for any tasks, repositories and limits: what the process that serves a task knows of the queue at each place
  between its pick and its last save, with every crash. `NoSessionIsLostCorrect` and
  `StartsAreDueCorrect` suppose a queue bound to a mission, whose controller reads
  the ledger under its lock (without one the second is false, section 7).
  `SessionsKnown` says what they rest on: the session that can be resumed is the
  newest of its worktree, each one of a task is named by the last record of one of
  its revisions or found by that record's time, and a run that has decided still
  holds what it would find if it looked now. Each of them speaks of the sessions
  nobody discarded while they ran (`pulled`): such a session returns with its next
  save, whatever has happened in its worktree meanwhile.
* `GovernedTaskProofs`: `VerifiedAsCompletedCorrect` (what is completed is what was
  verified), `NoKnownSelfReviewCorrect` and `RejectedFragmentIsUndoneCorrect`, through
  resume, remediation, failover and crash: the invariants tie the copy of a task in
  memory, the one on disk and the version of the worktree to one another at each
  place. For the third, `FragmentsAreKnown`: an attempt begins on the baseline, and
  what it leaves is claimed finished or is a fragment known as one - by the run
  while it lives, by the candidate on file to every later run.
* `AgentProofs`, on Attempt: `NoneOutlivesCorrect` for `Spec` (no child of a call is left
  running when the call returns). `RollbackCorrect` and `LoopStepsCorrect` suppose
  that at the start every file is one git has committed and finds in place, or one
  git does not know, by its own name (`Ordinary`): the other files are those of
  section 7, for which the code's rollback is not exact. `TreeInv` says what of the
  agent's work the tree may hold at each place, `DeltaInv` that the delta the
  harness computed names it, and the lemmas about WorkTree that restoring a
  snapshot gives back what was there. `LoopStepsCorrect` is the refinement of
  `AttemptLoop` without its fairness: the first state, and each step or stutter.
  On WorkerReadiness, for any agents, folders, vendor rules and writers:
  `RecordMatchesObservationsCorrect` and `AnswersOutrankStoresCorrect`. Between a
  load and a save the cache may lag, so the invariant speaks of the copies: a writer
  that holds the only copy, and whom no save has overtaken, holds the history
  (`LoneCopyIsCurrent`). For the second, `SmokesAreHeld`: each directory whose CLI
  turned the doctor's smoke away, and still does, is refused in the doctor's copy,
  since vendors' stores only grow and nothing but a smoke changes a refusal there.
  On ProviderPool, for any processes, resources, roles and policy:
  `OutageDeniesNobodyCorrect` counts launches. Each of a role's budget is left, spent
  on an answer or under way (`LaunchesCounted`); the candidates to come are different
  and nobody has asked them (`QueueFresh`, since the asking order puts no candidate
  before itself), so an answer counts once and a refund gives back what was taken.
  `OwnTroubleNeverBenchesCorrect` needs only the records' types: the two classes that
  are our own trouble leave every exclusion alone and a status that blocks nobody.
* `CampaignProofs`: `MergeBudgetCorrect`, `RecordIsTrueCorrect` and
  `AttemptsDoNotMixCorrect` for `Spec`, with every fault. Merges are counted in
  three places (the remote, the campaign's record, the process's copy);
  `BudgetHolds` bounds the first by the budget plus the merges that landed unseen,
  and the invariant relates the three at each place between the merge and the save.
  The other two rest on `Known`: what the record, the process's copy, the local
  branch, the remote one, CI's verdict and the pull request say of one task hold
  together (`Holds`): the pushed branch is the local one, green checks are its
  head's, a merge is in main. Two restarts may observe a head, lose the process and
  push another, so it also has to say that a head once read is never the branch's
  again once the branch has moved (`Gone`): without it the invariant is not
  inductive, since an old verdict would count for a new attempt.

Assumptions are the named ASSUMEs of the modules (names differ, sets are finite,
data have their types); TLC evaluates them on every run.

Only model-checked:

* every liveness property (`BlockedIsReleased`, `ProductIsServed`, `RunEnds`,
  `CampaignEnds`, `ExhaustionPasses`) and the fairness half of `ImplementsLoop`:
  the prover has neither ENABLED nor a rule for fairness that applies here.

Every other property of a run is the statement of a theorem.

## 7. Where the code and its own statements differ

Each item was met while modelling. Where a restriction of section 3 or 4 keeps it
out of a run, the item says which; lifting that restriction shows it.

### Locks and the factory

* **A lock that vanishes is taken for corrupt** (`locking.py:457`). The path
  exists, its owner releases, the read fails, and the unlink that follows removes a
  lock somebody else has just linked; the comment at `locking.py:475-477` says
  link() prevents exactly that. Two contenders that both classified a dead owner,
  or a person running `howlplane unlock` beside them, do the same. `CarefulNext`
  excludes the overlap.
* **A second `factory run` rewrites the record before it asks for the lock**
  (`factory/factory_run_cli.py:198`, against the repository's README.md:51-52). If
  its read and its save straddle a dispatch, the count is lost and the run goes one
  over its budget: `BudgetRespected` fails under `Spec`, holds under `QuietSpec`.
* **A bounded run that dies in its last dispatch never parks its item**
  (`factory/supervisor.py:1400`, against `:1170`): the spent budget ends the loop
  before the tick that reconciles.
* **A killed supervisor does not leave a stopped record**: the dispatch in progress
  saves its own record over the one `factory stop` saved (`supervisor.py:1057`,
  `factory/service.py:306`; `factory_cli.py:314-315` promises the opposite).
  `SignalledLeavesStopped` speaks of signals for this reason. Without a managed
  campaign the stop can also be overwritten by a running loop
  (`factory_cli.py:332-343`, `supervisor.py:633`).
* An owner's decision is saved over whatever the supervisor did to the item since
  it was read (`work_item_decision.py:47-85`), which can make a move the documented
  table does not have.
* `admit` reopens a disposed item on new references alone (`work_item.py:366-369`),
  where `reopen` asks for new fingerprints (`work_item.py:278-280`).
* Two items that name each other as blockers are never released, nor is one with
  the default blocker `dependency` (`factory/dispatcher.py:156`).
* The key of a decision has no provenance (`factory/supervisor.py:751`): an owner
  direction first heard without it is not heard again with it.
* "A ready item older than this jumps its repository's queue" (`portfolio.py:70`):
  it passes only items of its own origin.

### Task queue, human boundary

* Without a mission, the ledger is read before the queue's lock is taken
  (`factory/task_queue.py:655`), and an outcome another run just recorded is run
  again without `--retry` (against `task_queue.py:16-17`): with `Mission = FALSE`
  TLC refutes `StartsAreDue` in ten steps.
* A session started by a person between the look at the worktree and the launch is
  recorded as the task's own (`task_queue.py:608`) and retired with its next
  revision, against `task_queue.py:399-401`.
* **A task completes on the receipt of one of several approved actions**
  (`human_boundary.py:1242`, against `:1289-1290`). All actions share one
  `execution_receipt.json`; after a later action raised, the next resume finds the
  file and skips every action. With two actions in the plan `CompletionEarned`
  fails. The file is never removed, so after a re-approval at a new commit every
  resume fails on the old receipt.
* Approving again without a new reason returns the approval on record even if the
  repository changed (`human_boundary.py:700-705`); the person is told TASK
  AUTHORIZED, and resume still answers "Re-review and re-approval required".
* Rejecting again with the same reason, after a reject that died between its two
  saves, changes nothing: the task stays `awaiting_human` while the command prints
  FAILED.
* approve and reject take no lock: two at once can replace a decision meant to
  stand, and a reject can save `failed` over a task that completed meanwhile.
* A resume that dies after a failed verification but before the task is failed
  leaves `verifying`; the next resume plans afresh and verification runs again, so a
  recorded failure can become a pass (against `human_boundary.py:905-923`).
* An approval whose packet names no executor decision gets a new one on each
  resume; after a crash the owner may sign the second and the action runs twice,
  once per decision (`OncePerDecision` is per decision).

### Orchestration sessions

* **A session being reopened looks final to everybody else.** A resume of a BLOCKED
  session after the worktree changed drops its audit reason
  (`orchestration.py:1497-1514`) and saves it as BLOCKED without one (`:2148`) until
  `run()`'s first checkpoint. In between another goal may start in the same
  worktree, and two coordinators work in it; a crash there leaves a session nobody
  can resume. `CarefulSpec` lets nobody begin in that window; without that TLC has
  two coordinators in eighteen steps.
* **A write by a read-only worker, or findings, are saved one checkpoint before they
  take effect.** A coordinator that dies in between is resumed at the same stage,
  asks the next candidate, and the session completes over partial changes no test
  has seen (`CompleteIsEarned` fails when deaths in `Handing` are allowed).
* A rejection is to be final until the repository changes (`orchestration.py:1060`),
  but when another agent than the lead rejected, a resumed session asks the lead on
  the same content (`:1066`): the hazard has no property, since the code breaks it.
* `orchestrate discard` deletes a session whose coordinator runs (`:2092`): save()
  checks the lease only if the file is there, so the next checkpoint (`:504-509`)
  brings the session back. If another was started meanwhile, the worktree has two
  resumable sessions, against `factory/task_queue.py:398-399`, and a task another
  waits for may have an unfinished session again after that other began. `TaskQueue` has these
  steps (`HumanDiscards`, `SavedBack`): its properties except the sessions
  discarded while somebody ran them, and no others. `orchestrate resume` takes the
  newest session of the worktree.
* A worker may run for 1800 seconds while its coordinator's lease lapses after 330
  without a renewal; a takeover then runs beside it. The next checkpoint of the
  first is refused, its edits are not.

### Governed task and reviews

* **A resumed run may let the implementer review itself**: it no longer knows who
  implemented (`orchestrator.py:1021`, `review_runner.py:533`).
  `NoKnownSelfReview` speaks of rounds that know. A reviewer reconstructed from a
  cached verdict is not counted as non-independent, and a local implementer may be
  its own security reviewer (`review_runner.py:518`).
* Cached verdicts are reused on other content (`review_runner.py:833`), and a stale
  `effective_route.json` credits an earlier failover target.
* A crash in "verifying" makes the next resume raise InvalidStateTransition, where
  `recovery.py:56` says SAFE_TO_RETRY; so do reviewing with an empty tree and a
  blocked task with a pre-execution boundary (`orchestrator.py:2297`,
  `task_spec.py:56-70`). Right after a run begins, the checkpoint says "planned" and
  SAFE_TO_RETRY over half-made work of the run before.
* If the latest retained fragment cannot be restored, the run fails without trying
  an earlier one. A fragment that is promoted, approved and then fails verification
  is not rolled back.
* The accepted implementer is never recorded after an approved resume. Finalising
  may close an older checkpoint than the latest.
* `recovery.inspect_task`, which only `status` calls, classifies a parked fragment
  as safe to retry and tells the owner of a failed task to resume it, which resume
  refuses.

### Attempts on a checkout

`RollbackIsExact` holds for the files the runs contain; it does not for these:

* a person's file inside a directory that was untracked when the task began has no
  snapshot (`git_baseline.py:354`, against `:624-625` and the repository's
  `tests/test_git_baseline.py:275`); one over the snapshot limit is not restored
  though the restore reports success;
* `git rm` of a file the person had modified, or of one staged as new: the rollback
  unlinks it and reports success; deletions the person had staged are attributed to
  the task;
* a person's untracked file that the agent staged: the scope check unlinks it, the
  rollback checks the agent's staged bytes out over it, and the delta stays
  non-empty. `marathon.py:1461` (`_reconcile_attempt_state`) does the same. With a
  third operation (edit, stage, delete) the rollback even reports success over bytes
  that are not the person's (`git_baseline.py:509-517`): the proof of
  `RollbackIsExact` failed on this sequence, and the property leaves such a file out
  (`Staged`);
* a new directory appears as `dir/`, so the diff, the fingerprint, the salvage patch
  and the scope check do not see its files.

Elsewhere: descendants of a provider, and a provider whose harness crashed, keep
writing (`register_process` has no caller); an observer that raises leaks the
process. A stop by the watchdog discards a success that fell in the same poll. The
"machine-wide" inference lock is per repository root (`locking.py:605-610`), and its
LOCAL_PROVIDER_BUSY counts as an engineering failure, so nobody takes over.

### Campaigns

* **A merge is counted after it was seen** (`synthesis/marathon.py:2065-2067`,
  `git_integration.py:695-698`): a crash or an unseen answer in between, and later
  runs spend the budget again. `BudgetHolds` bounds the excess by exactly those
  merges. After such a crash the task is redone and merged a second time.
* Branch creation refuses an existing local branch, so a retry after a crash past it
  always fails: the reconciliation of pushes and pull requests is unreachable on
  resume.
* A person who merges first makes the command answer "already executed" without a
  commit; the verification of main then raises a TypeError nobody catches, and the
  campaign dies. A failing fetch there does the same.
* The merge does not name the head it was checked for.
* After a failed CI the checkout stays on that task's branch, and the next attempt
  starts from its commit while its branch is cut from main. The docstring at
  `marathon.py:1577` has the branch first; the code implements first. The hook
  baseline is taken after agents worked (`git_integration.py:700` says before), and
  `git commit -m` takes the whole index (`marathon.py:1594-1598`).
* A campaign without an envelope is to park its tasks before any provider is asked
  (comment at `synthesis/marathon.py:1681-1690`), but every campaign builds an executor, with
  an envelope or without (`:252-256`, `:763`, `:961`). The provider runs, the
  branch is denied, and the task is recorded as failed with the work left behind.
* An expired envelope or spent budget met in the middle of a task is recorded as
  failed, not parked (`marathon.py:1583-1585`, `:335-336`). An exhaustion whose revert
  failed still hands the task over.
* The dogfood campaign asks whether a gap is parked under an id with the iteration in
  it, so a resumed campaign selects it again (comment at `marathon.py:581`).
  Completed gaps lack `gap_type_resolved` and are tried again locally. The stop
  AWAITING_HUMAN is unreachable, since the current benchmark counts as remaining.
* **A failure may be confirmed by the provider that gave it, or by nobody**
  (`marathon.py:1277`, against `:517-521` and `:1249-1250`). `_falsify_framework_gap`
  asks another provider and counts what comes back without looking at who answered:
  when that provider runs out, the synthesizer goes on to the one that failed
  first, or reports an exhausted pool, and the same signature makes the gap
  VERIFIED. `SelfModificationEarned` excepts exactly these (`CutShort`); with that
  disjunct left out TLC finds the second failure by the first provider. With no
  confirmation required a gap is VERIFIED at once. When the second provider fails differently, `_falsify` returns
  PROVIDER_SPECIFIC_FAILURE where its docstring has PROVISIONAL_FAILURE. Code of a provider that does not compile counts as proof
  against the framework.
* The engine delivers VERIFIED_PRODUCT with blockers left when the repairs are spent
  (`synthesis/engine.py:316-317`), and "high" findings never block. Acceptance uses
  port 8088 + i where the docs have an ephemeral one.

### Provider pool, readiness

* **Two processes' saves of the whole pool erase each other's cooldowns and metered
  counts** (`synthesis/provider_pool.py:434`, `:752`). With two pools in
  `provider_work` TLC shows it.
* A pool built without probing re-probes only a missing executable
  (`provider_pool.py:735-750`). If that probe finds the resource unreachable or not
  ready, it stays out of this process until a reset: the record trusted for ever
  that the docstring wants to prevent. A cooldown of 0 and RESOURCE_CONSTRAINED
  never expire.
* The metered budget is exceeded by reviewers planned together, by a lost update and
  by a crash (`documentation/AI_RESOURCE_POOL.md:105-107`).
* DISABLED by a local-only run overwrites a session or quota status.
  EXECUTION_BUDGET_EXCEEDED gets DEGRADED and a cooldown, where
  `documentation/TASK_EVENT_SPEC.md:304` gives it none.
* The doctor's save of the whole cache loses refusals and limits reported meanwhile
  and brings cleared ones back (`agent_readiness.py:679`); `RecordMatchesObservations`
  allows a loss only to a save of an overtaken copy or one that fails. The report
  reads the file once more after that save (`:549`), so a session's overtaken save
  in between may lose a refusal the doctor has just met. Preparation clears a refusal
  met with the flag after asking the CLI without it (`:479-481`). `factory prepare` can bring a
  revoked authorization back, and a refusal raised after a revoke is not caught. An
  unflagged refusal overwrites a flagged one. The inventory of `orchestrate` ignores
  cached refusals (`orchestration.py:670-678`), so a new session sends a worker into
  a folder that turned it away before, where `agent_readiness.py:502-504` has that it
  can never happen (`Routable`).

## 8. What is not modelled

Text, rendering, prompts, provider output and its parsing (a model knows which signs
an output bears); configuration; durations (leases, stalls, cooldowns and deadlines
are ticks or events); disk errors; git's object store and merges (a commit is its
content); several models of one agent and configured fallbacks in a session;
verification tasks and approval states of the queue; tasks that stopped for the
owner after implementation, in `HumanBoundary` (their reviewed patch and their way
back are `GovernedTask`'s); the ship step of a session.

Components without a module, and why:

* The factory's bootstrap and repository proposals: the tick only writes a proposal
  and waits; the owner's answer is the read-modify-write of `Factory`'s Approve and
  Reject.
* Service units, status and logs: the restart policy is an assumption of section 5,
  the rest is I/O. Evidence ledger: append-only, no modelled decision reads it.
* Routing, role binding, agent registry: pure selection from configuration.
* Staged and creative pipelines: linear stages without concurrency or recovery.
* Setup, doctor reports, presentation, semantic helpers, the Go launcher: no state
  of their own, or configuration only.

## 9. Plan

What is left, in this order:

1. Refinements: careful FileLock implements a mutex, and Factory's `holder` is that
   mutex; `Orchestration` implements the one-step sessions of `TaskQueue`;
   `GovernedTask` takes the place of `HumanBoundary`'s one-step redo.
2. Models: several models per agent in a session; verification tasks of the queue;
   the ship step; capability needs in the factory's tick.
3. Larger instances: two pools in `provider_work`, two actions in `human_approval`,
   once the code's behaviour of section 7 is settled.
