---------------------------- MODULE GovernedTask ----------------------------
(***************************************************************************)
(* One governed task: GovernedTaskOrchestrator.run, the resume of an       *)
(* interrupted or approved task, and the durable record under .task_runs   *)
(* they share (orchestrator.py, review_runner.py, recovery.py,             *)
(* checkpoints.py, verification.py, human_boundary.py).                    *)
(*                                                                         *)
(* One process at a time works on the task: it holds the repository and    *)
(* the task lock (module FileLock).  It may die between any two steps, and *)
(* while a provider writes; what it knew is lost, what it wrote stays, and *)
(* the next run starts from the top.  People edit, approve and cancel      *)
(* while no process runs.                                                  *)
(*                                                                         *)
(* The worktree is a version number: 0 is the baseline, every edit makes   *)
(* the next version.  Ghosts remember who made a version, which versions a *)
(* provider claimed to have finished, and which stages were cut short.     *)
(* Abstracted: the ranking of the provider pool (any resource it could     *)
(* name), one provider family per resource, the text of diffs, briefs and  *)
(* findings, path scope, a baseline that somebody commits over.            *)
(***************************************************************************)
EXTENDS Naturals, FiniteSets

CONSTANTS Providers,        \* resources that implement and review
          Roles,            \* routing.recommended_reviewers
          Correctness,      \* the reviewer every finding calls in again
          Person,           \* who edits between runs
          Nobody,           \* no resource
          MaxAttempts,      \* config.max_provider_failover_attempts
          MaxRemediations,  \* config.max_remediation_cycles
          MaxEdits,         \* bound: versions of the worktree
          MaxCrashes,       \* bound: deaths of the process
          MaxRuns           \* bound: runs from the top

ASSUME ActorsAssumption == /\ Correctness \in Roles
                           /\ Person \notin Providers /\ Nobody \notin Providers \cup {Person}
ASSUME BoundsAssumption == {MaxAttempts, MaxRemediations, MaxEdits, MaxCrashes, MaxRuns} \subseteq Nat

Versions == 0..MaxEdits
Resources == Providers \cup {Nobody}
Core == {"discovered", "planned", "implementing", "reviewing", "remediating", "verifying"}
Ended == {"complete", "failed", "cancelled"}
TaskStates == Core \cup Ended \cup {"awaiting_human", "blocked"}
Phases == {"idle", "planned", "attempt", "working", "judge", "rollback", "handoff", "promoting",
           "credit", "review", "remediate", "verify", "verifying", "gate"}
Implementing == {"attempt", "working", "judge", "rollback", "handoff", "promoting", "credit"}
Results == {"success", "budget", "eligible", "fatal"}
Usable == {"clean", "findings"}

NoReview == [status |-> "none", of |-> 0, by |-> Nobody]
NoRoute == [accepted |-> Nobody, candidate |-> Nobody, last |-> Nobody]
Unverified == [status |-> "unverified", of |-> 0]
NotApproved == MaxEdits + 1

VARIABLES state,         \* task.yaml: current_state
          implementer,   \* task.yaml: effective_implementer_resource_id
          route,         \* effective_route.json
          salvage,       \* attempt_record.json: the retained fallbacks
          candidates,    \* candidate.json files
          reviews,       \* per review cycle and role: result.json
          verification,  \* verification_plan.json: status, and of what
          decision,      \* human_decision.json: the version approved
          chk,           \* stage_checkpoint.json
          tree,          \* the worktree
          at,            \* where the process is
          run,           \* what it knows
          gated,         \* the objective crosses an authority boundary
          makers, attested, edits, struck, crashes, runs, unrestored   \* ghosts and bounds

record == <<implementer, route, salvage, candidates, reviews, verification, decision>>
ghosts == <<makers, attested, edits, struck, crashes, runs, unrestored>>
vars == <<state, record, chk, tree, at, run, gated, ghosts>>

Locals == [selected: Resources, cur: Resources, n: 0..MaxAttempts, tried: SUBSET Providers,
           next: Resources, result: Results \cup {"none"}, final: Resources, last: Resources,
           fragment: BOOLEAN, approved: BOOLEAN, rem: 0..MaxRemediations,
           asked: SUBSET Roles, todo: SUBSET Roles,
           round: [Roles -> [status: Usable \cup {"none", "failed"}, of: Versions, by: Resources]]]
Fresh == [selected |-> Nobody, cur |-> Nobody, n |-> 0, tried |-> {}, next |-> Nobody,
          result |-> "none", final |-> Nobody, last |-> Nobody, fragment |-> FALSE,
          approved |-> FALSE, rem |-> 0, asked |-> {}, todo |-> {},
          round |-> [r \in Roles |-> NoReview]]

TypeOK ==
  /\ state \in TaskStates /\ implementer \in Resources /\ gated \in BOOLEAN
  /\ route \in [accepted: Resources, candidate: Resources, last: Resources]
  /\ salvage \subseteq [n: 1..MaxAttempts, by: Providers, patch: Versions,
                        status: {"retained", "promoted", "superseded", "unusable"}]
  /\ candidates \subseteq [n: 1..MaxAttempts, by: Providers, patch: Versions]
  /\ reviews \in [0..MaxRemediations -> [Roles -> [status: Usable \cup {"none", "failed"},
                                                   of: Versions, by: Resources]]]
  /\ verification \in [status: {"unverified", "passed", "failed"}, of: Versions]
  /\ decision \in Versions \cup {NotApproved} /\ tree \in Versions
  /\ chk \in [stage: TaskStates, status: {"in_progress", "completed", "failed"}]
  /\ at \in Phases /\ run \in Locals
  /\ makers \in [Versions -> SUBSET (Providers \cup {Person})] /\ attested \subseteq Versions
  /\ edits \in Versions /\ crashes \in 0..MaxCrashes /\ runs \in 0..MaxRuns /\ struck \subseteq Core
  /\ unrestored \in BOOLEAN

Init ==
  /\ state = "discovered" /\ implementer = Nobody /\ route = NoRoute
  /\ salvage = {} /\ candidates = {} /\ verification = Unverified /\ decision = NotApproved
  /\ reviews = [c \in 0..MaxRemediations |-> [r \in Roles |-> NoReview]]
  /\ chk = [stage |-> "discovered", status |-> "completed"]
  /\ tree = 0 /\ at = "idle" /\ run = Fresh /\ gated \in BOOLEAN
  /\ makers = [v \in Versions |-> {}] /\ attested = {} /\ edits = 0
  /\ struck = {} /\ crashes = 0 /\ runs = 0 /\ unrestored = FALSE

(***************************************************************************)
(* The record.                                                             *)
(***************************************************************************)
\* STATE_TRANSITIONS.
Follow(s) ==
  LET out == {"awaiting_human", "blocked", "failed", "cancelled"} IN
  CASE s = "discovered" -> out \cup {"planned"}
    [] s = "planned" -> out \cup {"implementing"}
    [] s = "implementing" -> out \cup {"reviewing", "verifying"}
    [] s = "reviewing" -> out \cup {"remediating", "verifying"}
    [] s = "remediating" -> out \cup {"reviewing", "verifying"}
    [] s = "verifying" -> out \cup {"complete", "remediating"}
    [] s = "awaiting_human" -> (out \ {s}) \cup {"complete", "implementing", "remediating", "verifying"}
    [] s = "blocked" -> Core \cup {"failed", "cancelled"}
    [] s = "failed" -> {"discovered", "planned", "cancelled"}
    [] s = "cancelled" -> Core \cup {"failed"}
    [] s = "complete" -> {"discovered"}

Leave == /\ at' = "idle" /\ run' = Fresh

\* transition_to: an illegal one raises, and the run ends with the state it found.
Move(s, goes) == IF s \in Follow(state) THEN state' = s /\ goes ELSE UNCHANGED state /\ Leave
MoveUnless(s, goes) == IF state = s THEN UNCHANGED state /\ goes ELSE Move(s, goes)

\* CheckpointManager: the latest checkpoint is the one a reader sees.  A stage that is
\* completed or failed is named; a terminal name closes whatever is in progress.
StartStage(s) == chk' = [stage |-> s, status |-> "in_progress"]
Finalize(s, status) ==
  chk' = [stage |-> IF s \in {"failed", "cancelled"} THEN chk.stage ELSE s, status |-> status]

Writes(who) ==
  /\ edits < MaxEdits
  /\ edits' = edits + 1 /\ tree' = edits + 1
  /\ makers' = [makers EXCEPT ![edits + 1] = makers[tree] \cup {who}]
MayWrite(who) == Writes(who) \/ UNCHANGED <<edits, tree, makers>>

\* restore_repository_to_baseline, which refuses when it cannot tell whose a change is.
RestoreOr(failed) == \/ tree' = 0 /\ UNCHANGED unrestored
                     \/ failed /\ tree # 0 /\ UNCHANGED tree /\ unrestored' = TRUE

\* _persist_effective_route, by an attempt that may turn into a candidate or be accepted.
Persist(accepted, candidate, last) ==
  route' = [accepted |-> accepted, candidate |-> candidate, last |-> last]

\* _select_retained_salvage: the most recent eligible fallback.
Latest(kept) == {s \in kept: \A o \in kept: o.n <= s.n}
Promotable == Latest({s \in salvage: s.status = "retained"})

Retire(s, status) == (salvage \ {s}) \cup {[s EXCEPT !.status = status]}
Candidate(n, by) == {c \in candidates: c.n # n \/ c.by # by} \cup {[n |-> n, by |-> by, patch |-> tree]}

\* _recover_implementation_resource, whose last resort is a route made a moment ago.
Recovered == IF route.accepted # Nobody THEN route.accepted
             ELSE IF route.candidate # Nobody THEN route.candidate ELSE route.last

(***************************************************************************)
(* Planning, and taking up what an interrupted run left.                   *)
(***************************************************************************)
\* cmd_work without --execute: the task is planned and shown, and nothing is run.
Prepare ==
  /\ at = "idle" /\ state = "discovered" /\ state' = "planned"
  /\ verification' = Unverified
  /\ UNCHANGED <<implementer, route, salvage, candidates, reviews, decision, chk, tree, at, run, gated, ghosts>>

\* run, prepare_task_plan: the plan is made anew, its verification forgotten.
Begin(s) ==
  /\ at = "idle" /\ state \notin Ended \cup {"awaiting_human"} /\ runs < MaxRuns
  /\ runs' = runs + 1 /\ verification' = Unverified
  /\ state' = IF state = "discovered" THEN "planned" ELSE state
  /\ Finalize("planned", "completed")
  /\ at' = "planned" /\ run' = [Fresh EXCEPT !.selected = s]
  /\ UNCHANGED <<implementer, route, salvage, candidates, reviews, decision, tree, gated,
                 makers, attested, edits, struck, crashes, unrestored>>

ParkBefore ==
  /\ at = "planned" /\ gated
  /\ StartStage("awaiting_human") /\ Move("awaiting_human", Leave)
  /\ UNCHANGED <<record, tree, gated, ghosts>>

BlockUnrouted ==
  /\ at = "planned" /\ ~gated /\ run.selected = Nobody
  /\ Move("blocked", Leave)
  /\ UNCHANGED <<record, chk, tree, gated, ghosts>>

\* reconcile_interrupted_implementation: a delta to the baseline is the implementation.
Interrupted == tree # 0
\* _load_parked_candidate.
Parked == candidates # {}
\* _recover_promoted_salvage: the retained patch that is exactly the delta in the tree.
SameArtifact == {s \in Promotable: s.patch = tree}

TakeUp ==
  /\ at = "planned" /\ ~gated /\ run.selected # Nobody /\ Interrupted
  /\ \/ /\ Parked \/ SameArtifact = {}
        /\ run' = [run EXCEPT !.final = Recovered, !.fragment = Parked]
        /\ UNCHANGED <<salvage, candidates>>
     \/ \E s \in SameArtifact:
        /\ ~Parked
        /\ run' = [run EXCEPT !.final = s.by, !.fragment = TRUE, !.last = route.last]
        /\ salvage' = Retire(s, "promoted") /\ candidates' = Candidate(s.n, s.by)
  /\ state' = IF state = "planned" THEN "implementing" ELSE state
  /\ at' = "credit"
  /\ UNCHANGED <<implementer, route, reviews, verification, decision, chk, tree, gated, ghosts>>

StartImplementing ==
  /\ at = "planned" /\ ~gated /\ run.selected # Nobody /\ ~Interrupted
  /\ StartStage("implementing")
  /\ at' = "attempt" /\ run' = [run EXCEPT !.cur = run.selected, !.n = 1]
  /\ struck' = IF route # NoRoute THEN struck \cup {"implementing"} ELSE struck
  /\ UNCHANGED <<state, record, tree, gated, makers, attested, edits, crashes, runs, unrestored>>

(***************************************************************************)
(* The attempt loop.                                                       *)
(***************************************************************************)
\* A resource that was asked is spent for this task, whatever it came to.
Tried == run.tried \cup {run.cur}
\* _record_implementation_attempt: recording a slot again carries what it retained.
Carried == salvage

NotInstalled ==
  /\ at = "attempt" /\ at' = "judge"
  /\ run' = [run EXCEPT !.result = "eligible", !.tried = Tried]
  /\ UNCHANGED <<state, record, chk, tree, gated, ghosts>>

Launch ==
  /\ at = "attempt"
  /\ MoveUnless("implementing", at' = "working" /\ UNCHANGED run)
  /\ UNCHANGED <<record, chk, tree, gated, ghosts>>

Report(result) ==
  /\ at = "working" /\ MayWrite(run.cur)
  /\ attested' = IF result = "success" THEN attested \cup {tree'} ELSE attested
  /\ at' = "judge" /\ run' = [run EXCEPT !.result = result, !.tried = Tried]
  /\ salvage' = Carried
  /\ UNCHANGED <<state, implementer, route, candidates, reviews, verification, decision, chk, gated,
                 struck, crashes, runs, unrestored>>

\* A finished implementation; what was retained is superseded.
Succeed ==
  /\ at = "judge" /\ run.result = "success"
  /\ salvage' = {IF s.status = "retained" THEN [s EXCEPT !.status = "superseded"] ELSE s: s \in salvage}
  /\ Finalize("implementing", "completed")
  /\ at' = "credit" /\ run' = [run EXCEPT !.final = run.cur]
  /\ UNCHANGED <<state, implementer, route, candidates, reviews, verification, decision, tree, gated, ghosts>>

Salvageable == run.result = "budget" /\ tree # 0
FailoverEligible == run.result \in {"budget", "eligible"}
\* _retain_salvage_artifact: one fallback per evidence slot.
Retained == {s \in salvage: s.n # run.n \/ s.by # run.cur}
            \cup {[n |-> run.n, by |-> run.cur, patch |-> tree, status |-> "retained"]}

Exhausted == run.n >= MaxAttempts
\* The next resource; the fragment is retained before it is rolled back.
HandOver(p) ==
  /\ at = "judge" /\ FailoverEligible /\ ~Exhausted /\ p \notin run.tried
  /\ salvage' = IF Salvageable THEN Retained ELSE salvage
  /\ at' = "rollback" /\ run' = [run EXCEPT !.next = p]
  /\ UNCHANGED <<state, implementer, route, candidates, reviews, verification, decision, chk, tree, gated, ghosts>>

\* _confirm_salvage_replayable, against the restored baseline.
ConfirmReplayable ==
  \/ UNCHANGED salvage
  \/ \E s \in Promotable: s.n = run.n /\ s.by = run.cur /\ salvage' = Retire(s, "unusable")

Rollback ==
  /\ at = "rollback" /\ tree' = 0 /\ ConfirmReplayable
  /\ at' = "handoff"
  /\ UNCHANGED <<state, implementer, route, candidates, reviews, verification, decision, chk, run, gated, ghosts>>

HandOff ==
  /\ at = "handoff" /\ Persist(Nobody, Nobody, run.next)
  /\ at' = "attempt"
  /\ run' = [run EXCEPT !.cur = run.next, !.next = Nobody, !.n = @ + 1, !.result = "none"]
  /\ UNCHANGED <<state, implementer, salvage, candidates, reviews, verification, decision, chk, tree, gated, ghosts>>

\* govern_candidate: a fragment and nobody left to do better.
Govern ==
  /\ at = "judge" /\ Salvageable
  /\ candidates' = Candidate(run.n, run.cur)
  /\ Finalize("implementing", "completed")
  /\ at' = "credit" /\ run' = [run EXCEPT !.final = run.cur, !.fragment = TRUE]
  /\ UNCHANGED <<state, implementer, route, salvage, reviews, verification, decision, tree, gated, ghosts>>

\* promote_retained_fallback: the producer of the fallback is who implemented.
Salvaged(by) == [run EXCEPT !.final = by, !.fragment = TRUE]
\* _promote_retained_salvage up to the point where the patch lies in the tree.
Promote(s) ==
  /\ at = "judge" /\ run.result # "success" /\ ~Salvageable /\ s \in Promotable
  /\ tree' = s.patch
  /\ at' = "promoting" /\ run' = [run EXCEPT !.last = run.cur]
  /\ UNCHANGED <<state, record, chk, gated, ghosts>>

CapturePromoted(s) ==
  /\ at = "promoting" /\ s \in Promotable /\ s.patch = tree
  /\ salvage' = Retire(s, "promoted") /\ candidates' = Candidate(s.n, s.by)
  /\ Finalize("implementing", "completed")
  /\ at' = "credit" /\ run' = Salvaged(s.by)
  /\ UNCHANGED <<state, implementer, route, reviews, verification, decision, tree, gated, ghosts>>

\* Mutant of FailTask: evidence is written, nothing is put back.
FailInPlace(stage, restored) ==
  UNCHANGED <<tree, unrestored>> /\ Finalize(stage, "failed") /\ Move("failed", Leave)
\* fail_implementation: restore, close the checkpoint, fail.
FailTask(stage, restored) ==
  /\ IF restored THEN RestoreOr(TRUE) ELSE UNCHANGED <<tree, unrestored>>
  /\ Finalize(stage, "failed") /\ Move("failed", Leave)

RouteOfFailure == IF run.cur # run.selected THEN Persist(Nobody, Nobody, run.cur) ELSE UNCHANGED route

FailImplementation ==
  /\ at = "judge" /\ run.result # "success" /\ ~Salvageable /\ Promotable = {}
  /\ RouteOfFailure /\ FailTask("implementing", TRUE)
  /\ UNCHANGED <<implementer, salvage, candidates, reviews, verification, decision, gated,
                 makers, attested, edits, struck, crashes, runs>>

\* A fallback that cannot be put back is never tried again, and the run fails.
Abandon(s) ==
  /\ at = "judge" /\ run.result # "success" /\ ~Salvageable /\ s \in Promotable
  /\ salvage' = Retire(s, "unusable")
  /\ RouteOfFailure /\ FailTask("implementing", TRUE)
  /\ UNCHANGED <<implementer, candidates, reviews, verification, decision, gated,
                 makers, attested, edits, struck, crashes, runs>>

FailRollback ==
  /\ at = "rollback" /\ tree # 0 /\ unrestored' = TRUE
  /\ RouteOfFailure /\ Finalize("implementing", "failed") /\ Move("failed", Leave)
  /\ UNCHANGED <<implementer, salvage, candidates, reviews, verification, decision, tree, gated,
                 makers, attested, edits, struck, crashes, runs>>

(***************************************************************************)
(* Credit and review.                                                      *)
(***************************************************************************)
\* _set_effective_implementer: nobody is put on record when nobody is known.
SetImplementer(p) == implementer' = IF p # Nobody THEN p ELSE implementer

Credit ==
  /\ at = "credit" /\ SetImplementer(run.final)
  /\ IF run.final # Nobody /\ (run.final # run.selected \/ run.last # Nobody)
     THEN Persist(Nobody, run.final, IF run.last # Nobody THEN run.last ELSE run.final)
     ELSE UNCHANGED route
  /\ UNCHANGED <<salvage, candidates, reviews, verification, decision, tree, gated, ghosts>>

\* _park_awaiting_human: the tree stays as it is for the person to look at.
Park == Move("awaiting_human", Leave)

\* A fragment nobody independent can review is a person's to decide.
ParkFragment == Credit /\ run.fragment /\ Park /\ UNCHANGED chk

Reviewing(roles) ==
  /\ StartStage("reviewing") /\ at' = "review"
  /\ run' = [run EXCEPT !.asked = roles, !.todo = roles, !.round = Fresh.round]

OpenReviews ==
  /\ Credit
  /\ IF state = "reviewing" \/ "reviewing" \in Follow(state)
     THEN state' = "reviewing" /\ Reviewing(Roles)
     ELSE UNCHANGED <<state, chk>> /\ Leave

\* Where the cycle keeps its verdicts: reviews/, or the remediation's re_review.
OnFile == reviews[run.rem]

\* The round's verdict of a role that has been heard.
Heard(r, verdict) == [run EXCEPT !.todo = @ \ {r}, !.round = [@ EXCEPT ![r] = verdict]]

\* _reconstruct_cached_review: a verdict on disk is taken as it stands.
Reuse(r) ==
  /\ at = "review" /\ r \in run.todo /\ OnFile[r].status \in Usable
  /\ run' = Heard(r, OnFile[r])
  /\ UNCHANGED <<state, record, chk, tree, at, gated, ghosts>>

\* What a review comes to: parse_and_validate_findings.
Outcomes == Usable \cup {"failed"}
\* write_review_result.
File(r, verdict) == reviews' = [reviews EXCEPT ![run.rem][r] = verdict]
\* A verdict that cannot be filed is a review that failed.
Conclude(r, verdict) ==
  \/ File(r, verdict) /\ run' = Heard(r, verdict)
  \/ /\ verdict.status \in Usable /\ UNCHANGED reviews
     /\ run' = Heard(r, [verdict EXCEPT !.status = "failed"])

\* invoke_reviewer_with_failover: whoever serves it, the implementer only as a last resort.
Ask(r, by, status) ==
  /\ at = "review" /\ r \in run.todo /\ OnFile[r].status \notin Usable
  /\ Conclude(r, [status |-> status, of |-> tree, by |-> by])
  /\ UNCHANGED <<state, implementer, route, salvage, candidates, verification, decision, chk, tree, at, gated, ghosts>>

Got(status) == {r \in run.asked: run.round[r].status = status}
\* Mutant of NotIndependent: a review the implementer served counts like any other.
NeverNotIndependent == {}
\* independent_review_satisfied: asked of every run that knows who implemented.
NotIndependent == {r \in run.asked: run.final # Nobody /\ run.round[r].by = run.final}
\* ReviewReconciler.reconcile: the roles whose findings stand.
Unresolved == Got("findings")
\* A reviewer that failed asks for a remediation like one that found something.
RequiresRemediation == Got("failed") \cup Unresolved # {}
\* determine_re_review_roles.
CalledIn == IF Unresolved = {} THEN Roles ELSE Unresolved \cup {Correctness}
Closing == at = "review" /\ run.todo = {}
Independent == run.final = Nobody \/ (NotIndependent = {} /\ Got("failed") = {})

ParkUnindependent ==
  /\ Closing /\ ~Independent
  /\ Finalize("reviewing", "completed") /\ Park
  /\ UNCHANGED <<record, tree, gated, ghosts>>

AcceptReviews ==
  /\ Closing /\ Independent /\ ~RequiresRemediation
  /\ Finalize("reviewing", "completed") /\ at' = "verify"
  /\ UNCHANGED <<state, record, tree, run, gated, ghosts>>

MayRemediate == run.rem < MaxRemediations
\* Mutant of NextRound: the rounds are not counted.
SameRound == run.rem
NextRound == run.rem + 1

ParkAtLimit ==
  /\ Closing /\ Independent /\ RequiresRemediation /\ ~MayRemediate
  /\ Finalize("reviewing", "completed") /\ Park
  /\ UNCHANGED <<record, tree, gated, ghosts>>

StartRemediation ==
  /\ Closing /\ Independent /\ RequiresRemediation /\ MayRemediate
  /\ StartStage("remediating")
  /\ Move("remediating", at' = "remediate" /\ run' = [run EXCEPT !.rem = NextRound])
  /\ UNCHANGED <<record, tree, gated, ghosts>>

Fixer == IF run.final # Nobody THEN run.final ELSE run.selected

\* The fix, then the reviewers its findings call for.
Remediate ==
  /\ at = "remediate" /\ MayWrite(Fixer)
  /\ attested' = attested \cup {tree'}
  /\ Move("reviewing", Reviewing(CalledIn))
  /\ UNCHANGED <<record, gated, struck, crashes, runs, unrestored>>

FailRemediation ==
  /\ at = "remediate" /\ FailTask("remediating", TRUE)
  /\ UNCHANGED <<record, gated, makers, attested, edits, struck, crashes, runs>>

(***************************************************************************)
(* Verification and the gates.                                             *)
(***************************************************************************)
StartVerification ==
  /\ at = "verify" /\ StartStage("verifying")
  /\ MoveUnless("verifying", at' = "verifying" /\ UNCHANGED run)
  /\ UNCHANGED <<record, tree, gated, ghosts>>

\* build_verification_view: the baseline plus the task's delta, and nothing else.
View == tree
\* _execute_verification_plan.
Verified(status) == verification' = [status |-> status, of |-> View]

Pass ==
  /\ at = "verifying" /\ Verified("passed")
  /\ Finalize("verifying", "completed") /\ at' = "gate"
  /\ UNCHANGED <<state, implementer, route, salvage, candidates, reviews, decision, tree, run, gated, ghosts>>

\* A rejected fragment is rolled back, an attested implementation is left for a look.
FailVerification ==
  /\ at = "verifying" /\ Verified("failed")
  /\ IF run.approved
     THEN Finalize("verifying", "completed") /\ Move("failed", Leave) /\ UNCHANGED <<tree, unrestored>>
     ELSE FailTask("verifying", run.fragment)
  /\ UNCHANGED <<implementer, route, salvage, candidates, reviews, decision, gated,
                 makers, attested, edits, struck, crashes, runs>>

\* After an approval, a plan that did not come to an end blocks the task.
BlockUnverified ==
  /\ at = "verifying" /\ run.approved
  /\ Finalize("verifying", "completed") /\ Move("blocked", Leave)
  /\ UNCHANGED <<record, tree, gated, ghosts>>

\* HumanBoundaryGate.evaluate: the objective itself, or a risk the change turned out to carry.
RequiresApproval(risk) == gated \/ risk

ParkAtBoundary ==
  /\ at = "gate" /\ ~run.approved /\ \E risk \in BOOLEAN: RequiresApproval(risk)
  /\ StartStage("awaiting_human") /\ Move("awaiting_human", Leave)
  /\ UNCHANGED <<record, tree, gated, ghosts>>

\* evaluate_completion_gate: code changed, and no test impact assessment is recorded.
Unassessed == tree # 0

BlockCompletion ==
  /\ at = "gate" /\ Unassessed
  /\ IF run.approved THEN UNCHANGED chk ELSE Finalize("verifying", "failed")
  /\ Move("blocked", Leave)
  /\ UNCHANGED <<record, tree, gated, ghosts>>

Complete ==
  /\ at = "gate" /\ (run.approved \/ ~RequiresApproval(FALSE))
  /\ IF run.approved \/ run.final = Nobody THEN UNCHANGED route
     ELSE Persist(run.final, IF run.fragment THEN run.final ELSE Nobody,
                  IF run.last # Nobody THEN run.last ELSE run.final)
  /\ IF run.approved THEN UNCHANGED chk ELSE Finalize("complete", "completed")
  /\ Move("complete", at' = "idle" /\ UNCHANGED run)
  /\ UNCHANGED <<implementer, salvage, candidates, reviews, verification, decision, tree, gated, ghosts>>

(***************************************************************************)
(* People, and death.                                                      *)
(***************************************************************************)
Approve ==
  /\ at = "idle" /\ state = "awaiting_human" /\ decision' = tree
  /\ UNCHANGED <<state, implementer, route, salvage, candidates, reviews, verification, chk, tree, at, run, gated, ghosts>>

\* Mutant of StillApproved: an approval holds whatever the tree became.
OnceApproved == decision # NotApproved
\* check_repository_drift.
StillApproved == decision = tree

\* resume of an approved task: the plan is run unless it already came to an end.
ResumeApproved ==
  /\ at = "idle" /\ state = "awaiting_human" /\ StillApproved
  /\ at' = IF verification.status = "passed" THEN "gate" ELSE "verify"
  /\ run' = [Fresh EXCEPT !.approved = TRUE]
  /\ UNCHANGED <<state, record, chk, tree, gated, ghosts>>

Cancel ==
  /\ at = "idle" /\ state \notin {"complete", "cancelled"}
  /\ state' = "cancelled" /\ Finalize("cancelled", "failed") /\ run' = Fresh
  /\ UNCHANGED <<record, tree, at, gated, ghosts>>

\* A person works on in what a provider left in the tree.
Edit ==
  /\ at = "idle" /\ state \notin Ended /\ tree # 0
  /\ Writes(Person)
  /\ UNCHANGED <<state, record, chk, at, run, gated, attested, struck, crashes, runs, unrestored>>

StageOf == CASE at \in Implementing -> "implementing" [] at = "planned" -> "planned"
             [] at = "review" -> "reviewing" [] at = "remediate" -> "remediating"
             [] OTHER -> "verifying"
Crash ==
  /\ at # "idle" /\ crashes < MaxCrashes
  /\ crashes' = crashes + 1 /\ struck' = struck \cup {StageOf} /\ Leave
  /\ \/ at = "working" /\ Writes(run.cur)
     \/ at = "remediate" /\ Writes(Fixer)
     \/ UNCHANGED <<edits, tree, makers>>
  /\ UNCHANGED <<state, record, chk, gated, attested, runs, unrestored>>

Implementation ==
  \/ NotInstalled \/ Launch \/ Succeed \/ Rollback \/ HandOff \/ Govern
  \/ FailImplementation \/ FailRollback
  \/ \E result \in Results: Report(result)
  \/ \E p \in Providers: HandOver(p)
  \/ \E s \in salvage: Promote(s) \/ CapturePromoted(s) \/ Abandon(s)
Review ==
  \/ OpenReviews \/ ParkFragment \/ ParkUnindependent \/ AcceptReviews \/ ParkAtLimit
  \/ StartRemediation \/ Remediate \/ FailRemediation
  \/ \E r \in Roles: Reuse(r) \/ \E by \in Providers, s \in Outcomes: Ask(r, by, s)
Settle ==
  \/ StartVerification \/ Pass \/ FailVerification \/ BlockUnverified
  \/ ParkAtBoundary \/ BlockCompletion \/ Complete
Step == ParkBefore \/ BlockUnrouted \/ TakeUp \/ StartImplementing \/ Implementation \/ Review \/ Settle
Next ==
  \/ \E s \in Resources: Begin(s)
  \/ Prepare \/ Step \/ Approve \/ ResumeApproved \/ Cancel \/ Edit \/ Crash

Spec == Init /\ [][Next]_vars
\* The process keeps working: every wait in it has a deadline.
FairSpec == Spec /\ WF_vars(Step)

(***************************************************************************)
(* Properties.                                                             *)
(***************************************************************************)
\* What a task is completed with was verified as it stands, by the run that completed it
\* or by one before a person approved exactly that (run_deterministic_verification,
\* resume): no edit, retry or reuse of a plan slips in between.
VerifiedAsCompleted == state = "complete" =>
    verification.status = "passed" /\ (verification.of = tree \/ decision = tree)

\* A fragment that governance rejected does not stay in the repository
\* (_fail_task and the restores before it): what a failed task leaves behind was claimed
\* finished, or touched or approved by a person, or could not be restored.
RejectedFragmentIsUndone ==
  state = "failed" /\ tree # 0 /\ struck \cap {"implementing", "remediating"} = {}
    => tree \in attested \/ Person \in makers[tree] \/ decision = tree \/ unrestored

\* No verdict that carried the last round is the implementer's own
\* (build_reviewer_candidates, execute_review_cycle).
NoSelfReview ==
  state = "complete" /\ ~run.approved /\ implementer # Nobody
    => \A r \in run.asked: run.round[r].by # implementer
\* ... as long as the run that completes the task still knows who implemented it.
NoKnownSelfReview == run.final # Nobody => NoSelfReview

\* Attempts, rounds and gates are bounded: every run comes to an end.
RunEnds == (at # "idle") ~> (at = "idle")
=============================================================================
