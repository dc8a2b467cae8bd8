---------------------------- MODULE GitIntegration ----------------------------
(***************************************************************************)
(* One engineering task carried from a delegated grant to a merged pull     *)
(* request (synthesis/marathon.py, _execute_governed_engineering_improvement, *)
(* and git_integration.py): the provider failover loop, then branch, commit, *)
(* push, pull request, CI, merge, and the check that main contains it.      *)
(*                                                                          *)
(* The process can be lost between any two steps.  Outside it there are     *)
(* GitHub (which answers, refuses, or takes a command without doing it),    *)
(* CI, and people who edit the checkout, move the pull request's head or    *)
(* merge it themselves.  A file's content is a piece of work: who made it,  *)
(* for which task, in which life of the process.                            *)
(***************************************************************************)
EXTENDS Integers

CONSTANTS
  Tasks,         \* task ids, numbers
  Providers,     \* AI resources, numbers: the pool offers the smallest first
  Undelegated,   \* tasks whose text triggers a boundary the envelope does not cover
  MaxMerges,     \* envelope.max_merges
  MaxPolls,      \* observations before the CI deadline
  Answers,       \* what GitHub may answer when asked for its rulesets or branch protection
  MaxFaults      \* bound: what goes wrong in one behaviour, of any kind

ASSUME GitAssumption ==
  /\ Tasks \subseteq Nat \ {0} /\ Providers \subseteq Nat \ {0} /\ Undelegated \subseteq Tasks
  /\ MaxMerges \in Nat /\ MaxPolls \in Nat \ {0} /\ MaxFaults \in Nat
  /\ Answers \subseteq {"unreadable", "nothing", "checks"}

VARIABLES
  run,      \* the campaign process's memory
  saved,    \* campaign_state.json
  grant,    \* authority_envelope.json
  out,      \* the providers the pool holds exhausted or unavailable
  tree,     \* the target checkout: the branch it is on and its uncommitted pieces
  local,    \* the local task branches
  remote,   \* GitHub
  seen      \* ghosts

gitVars == <<run, saved, grant, out, tree, local, remote, seen>>

None == [task |-> 0, work |-> {}, moved |-> FALSE]       \* no commit
NoTask == 0
Person == 0                                              \* the author of a person's piece

\* A fault is anything the happy path does not have: a command that fails, lies or is
\* not seen to succeed, an outage, a person's or an expiry's interference, a crash.
Faulty == seen.faults < MaxFaults
Fault == seen' = [seen EXCEPT !.faults = @ + 1]
Struck(ghosts, outcome) == [ghosts EXCEPT !.faults = @ + (IF outcome = "done" THEN 0 ELSE 1)]
Strike(outcome) == seen' = Struck(seen, outcome)

Minimum(S) == CHOOSE x \in S : \A y \in S : x <= y

\* Everything a record claims starts as "not observed".
NewRecord == [branch |-> FALSE, commit |-> None, push |-> FALSE, pr |-> FALSE, green |-> FALSE,
              ciHead |-> None, curHead |-> None, merge |-> FALSE, sha |-> FALSE,
              contains |-> FALSE, synced |-> FALSE]

FullyIntegrated(rec) ==
  /\ rec.branch /\ rec.commit # None /\ rec.push /\ rec.pr /\ rec.green
  /\ rec.ciHead # None /\ rec.ciHead = rec.curHead
  /\ rec.merge /\ rec.contains

-----------------------------------------------------------------------------
(* The grant. *)

\* A stored envelope is used only if it verifies and has not expired.
Usable(g) == g = "live"

\* Bind: what authority a process starts with, and what it leaves on disk.  A
\* profile named by the operator renews an expired grant; nothing else does.
Bind(profile, env, disk) ==
  IF grant = "unreadable" THEN env = "none" /\ disk = grant
  ELSE IF Usable(grant) THEN env = "live" /\ disk = grant
  ELSE IF profile THEN env = "live" /\ disk = "live"
  ELSE env = "none" /\ disk = grant

\* The one decision on delegated authority: a bound envelope that is still valid, and
\* for a merge a budget that is not spent.
Covered(env, used, action) ==
  /\ env = "live"
  /\ action = "merge" => used < MaxMerges

\* Is this class of action delegated to this process now?
Delegated(action) == Covered(run.env, run.used, action)

\* A boundary the task's text or its files trigger parks the task, unless all of
\* what it triggers is delegated.  (Undelegated and "sensitive" are what no envelope of
\* the campaign covers; what only a live envelope covers is left out.)
MustPark(t, files) == t \in Undelegated \/ files = "sensitive"

-----------------------------------------------------------------------------
(* The failover loop. *)

Candidates == Providers \ out

Goto(pc) == run' = [run EXCEPT !.pc = pc]
Finish(result) == run' = [run EXCEPT !.pc = "record", !.result = result]
PersistRecord(rec) == saved' = [saved EXCEPT !.exists = TRUE, !.recs[run.task] = rec]
\* The task ends here, with the record as it stands.
Bail == Finish("failed") /\ PersistRecord(run.rec)

\* The task is admitted: a provider to ask, and no boundary that needs a person.  An
\* executor is built whether or not an envelope was bound, so a process without one
\* asks its provider too, and is denied the branch afterwards.
Admit ==
  /\ run.pc = "gate"
  /\ IF Candidates = {} THEN Finish("failed")
     ELSE IF MustPark(run.task, "plain") THEN Finish("parked")
     ELSE run' = [run EXCEPT !.pc = "attempt", !.provider = Minimum(Candidates),
                             !.tried = {Minimum(Candidates)}, !.base = tree.work,
                             !.rec = NewRecord]
  /\ UNCHANGED <<saved, grant, out, tree, local, remote, seen>>

Piece == [task |-> run.task, by |-> run.provider, life |-> run.life]

\* Whatever the orchestrator comes back with, the provider's piece may be left in
\* the checkout (left = {Piece}): a restore can fail, and some ends restore nothing.

\* Only the paths the attempt's own delta names are reverted.
Reconciled(work, base) == work \cap base

\* Mutant of Baseline: taken once for the task instead of once per attempt.
FirstBaseline(work) == run.base
\* What an attempt is held responsible for is what was not there when it began.
Baseline(work) == work

\* The next provider: never one already tried for this task.
Unasked(pool) == pool \ run.tried

HandOver(pool, work) ==
  /\ tree' = [tree EXCEPT !.work = work]
  /\ IF Unasked(pool) = {} THEN Bail
     ELSE LET next == Minimum(Unasked(pool)) IN
          /\ run' = [run EXCEPT !.provider = next, !.tried = @ \cup {next}, !.base = Baseline(work)]
          /\ UNCHANGED saved

\* The provider ran out or went away: its work is reverted and the next is asked,
\* whether or not the reverting worked.
Exhausted ==
  /\ run.pc = "attempt" /\ Faulty /\ Fault
  /\ out' = out \cup {run.provider}
  /\ \E left \in SUBSET {Piece} : \E reverted \in BOOLEAN :
       LET dirty == tree.work \cup left IN
       HandOver(Providers \ out', IF reverted THEN Reconciled(dirty, run.base) ELSE dirty)
  /\ UNCHANGED <<grant, local, remote>>

\* Nothing of the attempt is left, and nothing of what it found is missing.
BaselineRestored(work) == work = run.base

\* Our own deadline: handed over only if the checkout is really back at the baseline.
BudgetSpent ==
  /\ run.pc = "attempt" /\ Faulty /\ Fault
  /\ \E left \in SUBSET {Piece} :
       LET dirty == tree.work \cup left IN
       IF BaselineRestored(dirty) THEN HandOver(Candidates, dirty)
       ELSE Bail /\ tree' = [tree EXCEPT !.work = dirty]
  /\ UNCHANGED <<grant, out, local, remote>>

\* An engineering failure, an authority block or an exception ends the task: no failover.
AttemptFails ==
  /\ run.pc = "attempt" /\ Faulty /\ Fault
  /\ \E left \in SUBSET {Piece} : tree' = [tree EXCEPT !.work = @ \cup left]
  /\ Bail
  /\ UNCHANGED <<grant, out, local, remote>>

\* The attempt is complete: its delta is what is new since its baseline.  An empty
\* delta is a failure; a delta that touches what nobody delegated is parked.
AttemptCompletes ==
  /\ run.pc = "attempt"
  /\ \E left \in SUBSET {Piece} :
     \E files \in {"plain", "sensitive"} :
       LET delta == (tree.work \cup left) \ run.base IN
       /\ tree' = [tree EXCEPT !.work = @ \cup left]
       /\ IF delta = {} THEN Bail
          ELSE IF MustPark(run.task, files) THEN Finish("parked") /\ PersistRecord(run.rec)
          ELSE run' = [run EXCEPT !.pc = "branch", !.delta = delta] /\ UNCHANGED saved
  /\ UNCHANGED <<grant, out, local, remote, seen>>

-----------------------------------------------------------------------------
(* The git steps.  Each is decided by the envelope, executed, and its record *)
(* saved before the next begins.                                            *)

Fallible == IF Faulty THEN {"done", "failed"} ELSE {"done"}
Doubtful == Fallible \cup IF Faulty THEN {"claimed"} ELSE {}

\* A step that succeeded: the record says so, on disk, before the next step.
Proceed(pc, rec) == run' = [run EXCEPT !.pc = pc, !.rec = rec] /\ PersistRecord(rec)

\* The hook setup as it is when the branch has been cut is the one to compare with.
HookBaseline == "as when cut"
\* What changed since then was reviewed by nobody, and the commit would run it.
HooksTrusted == tree.hooks = HookBaseline

\* git switch -c refuses a branch that exists.
CreateBranch ==
  /\ run.pc = "branch"
  /\ \E outcome \in Fallible :
       /\ Strike(outcome)
       /\ IF Delegated("branch") /\ outcome = "done" /\ local[run.task] = None
          THEN /\ Proceed("commit", [run.rec EXCEPT !.branch = TRUE])
               /\ tree' = [tree EXCEPT !.branch = run.task, !.hooks = HookBaseline]
               /\ local' = [local EXCEPT ![run.task] = [None EXCEPT !.task = run.task]]
          ELSE Bail /\ UNCHANGED <<tree, local>>
  /\ UNCHANGED <<grant, out, remote>>

\* The delta's paths, and only they, are staged and committed, under trusted hooks.
Commit ==
  /\ run.pc = "commit"
  /\ \E outcome \in Fallible :
       LET commit == [task |-> run.task, work |-> run.delta, moved |-> FALSE] IN
       /\ Strike(outcome)
       /\ IF Delegated("commit") /\ HooksTrusted /\ outcome = "done"
          THEN /\ Proceed("push", [run.rec EXCEPT !.commit = commit])
               /\ tree' = [tree EXCEPT !.work = @ \ run.delta]
               /\ local' = [local EXCEPT ![run.task] = commit]
          ELSE Bail /\ UNCHANGED <<tree, local>>
  /\ UNCHANGED <<grant, out, remote>>

\* What the remote branch says of a push: done before, in someone's way, or to do.
PushStatus ==
  IF remote.branch[run.task] = None THEN "not_executed"
  ELSE IF remote.branch[run.task] = run.rec.commit THEN "already_executed"
  ELSE "reconciliation_conflict"

\* A command that exits 0 is believed only if the remote shows what it claims.
Confirmed(outcome) == outcome = "done"

\* A remote branch someone else holds is never overwritten: the task is parked.
Push ==
  /\ run.pc = "push"
  /\ LET pushed == [run.rec EXCEPT !.push = TRUE] IN
     CASE ~Delegated("push") -> Bail /\ UNCHANGED <<remote, seen>>
       [] Delegated("push") /\ PushStatus = "already_executed" ->
            Proceed("open", pushed) /\ UNCHANGED <<remote, seen>>
       [] Delegated("push") /\ PushStatus = "reconciliation_conflict" ->
            /\ Finish("parked") /\ PersistRecord(run.rec)
            /\ UNCHANGED <<remote, seen>>
       [] OTHER -> \E outcome \in Doubtful :
            /\ IF Confirmed(outcome) THEN Proceed("open", pushed) ELSE Bail
            /\ IF outcome = "done"
               THEN /\ remote' = [remote EXCEPT !.branch[run.task] = run.rec.commit,
                                                !.checks[run.task] = "pending"]
                    /\ seen' = [seen EXCEPT !.pushed = @ \cup {run.rec.commit}]
               ELSE UNCHANGED remote /\ Strike(outcome)
  /\ UNCHANGED <<grant, out, tree, local>>

\* What GitHub lists for the branch, and what it says of a pull request's merge.
RequestStatus == IF remote.pr[run.task] = "open" THEN "already_executed" ELSE "not_executed"
MergeStatus == IF remote.pr[run.task] = "merged" THEN "already_executed" ELSE "not_executed"

\* An open pull request for the branch is taken over; otherwise one is created and
\* must be found again.
OpenPullRequest ==
  /\ run.pc = "open"
  /\ LET opened == [run.rec EXCEPT !.pr = TRUE] IN
     CASE ~Delegated("open") -> Bail /\ UNCHANGED <<remote, seen>>
       [] Delegated("open") /\ RequestStatus = "already_executed" ->
            Proceed("ciBefore", opened) /\ UNCHANGED <<remote, seen>>
       [] OTHER -> \E outcome \in Doubtful :
            /\ IF Confirmed(outcome) THEN Proceed("ciBefore", opened) ELSE Bail
            /\ Strike(outcome)
            /\ remote' = IF outcome = "done" THEN [remote EXCEPT !.pr[run.task] = "open"]
                         ELSE remote
  /\ UNCHANGED <<grant, out, tree, local>>

-----------------------------------------------------------------------------
(* CI: one observation is three questions, and the head can move in between. *)

Head(t) == remote.branch[t]

ReadHead ==
  /\ run.pc = "ciBefore"
  /\ run' = [run EXCEPT !.pc = "ciChecks", !.head = Head(run.task)]
  /\ UNCHANGED <<saved, grant, out, tree, local, remote, seen>>

ReadChecks ==
  /\ run.pc = "ciChecks"
  /\ run' = [run EXCEPT !.pc = "ciAfter", !.checks = remote.checks[run.task]]
  /\ UNCHANGED <<saved, grant, out, tree, local, remote, seen>>

\* Mutant of StableHead: the checks are credited to the head read last.
LastHead(before, after) == after
\* Checks count for a head only if it was the head before and after they were read.
StableHead(before, after) == IF before # None /\ before = after THEN before ELSE None

\* The checks a branch requires: as its rulesets say, or, if those cannot be read, its
\* branch protection; a policy that cannot be read is not an empty one.
RequiredPolicy(rulesets, protection) ==
  LET contexts == IF rulesets # "unreadable" THEN rulesets ELSE protection IN
  CASE contexts = "unreadable" -> "unknown"
    [] contexts = "nothing" -> "none"
    [] contexts = "checks" -> "enforced"

\* Every required check was observed for one head, and is green.
AllGreen(policy, checks, head) == policy = "enforced" /\ checks = "green" /\ head # None

\* Live policy that enforces at least one check, all of them green, for one head.
AuthorizesMerge(policy, checks, head) == policy = "enforced" /\ AllGreen(policy, checks, head)

\* Mutant of PollingEnds: without the deadline.
UntilTerminal(policy, checks, stable, after) ==
  \/ policy # "enforced" \/ after = None
  \/ checks = "red"
  \/ checks = "green" /\ stable # None
\* Observed and terminal, or a definite failure, or nothing to wait for, or no time left.
PollingEnds(policy, checks, stable, after) ==
  \/ policy # "enforced" \/ after = None
  \/ checks = "red"
  \/ checks = "green" /\ stable # None
  \/ run.polls + 1 >= MaxPolls

Observe ==
  /\ run.pc = "ciAfter"
  /\ LET after == Head(run.task)
         stable == StableHead(run.head, after)
         rec == [run.rec EXCEPT !.green = AllGreen(remote.policy, run.checks, stable),
                                !.ciHead = stable, !.curHead = after] IN
     IF ~PollingEnds(remote.policy, run.checks, stable, after)
     THEN /\ run' = [run EXCEPT !.pc = "ciBefore", !.polls = IF @ < MaxPolls THEN @ + 1 ELSE @,
                                !.head = None, !.checks = "none"]
          /\ UNCHANGED saved
     ELSE /\ PersistRecord(rec)
          /\ IF AuthorizesMerge(remote.policy, run.checks, stable)
             THEN run' = [run EXCEPT !.pc = "merge", !.rec = rec, !.head = None, !.checks = "none"]
             ELSE run' = [run EXCEPT !.pc = "record", !.result = "failed", !.rec = rec,
                                     !.head = None, !.checks = "none"]
  /\ UNCHANGED <<grant, out, tree, local, remote, seen>>

-----------------------------------------------------------------------------
(* Merge, and what has to be true afterwards. *)

\* GitHub merges a pull request only when what it enforces is met.
Mergeable(t) == /\ remote.pr[t] = "open" /\ remote.branch[t] # None
                /\ remote.policy = "enforced" => remote.checks[t] = "green"

Landed(t) == [remote EXCEPT !.main = @ \cup {remote.branch[t]}, !.pr[t] = "merged",
                            !.branch[t] = None]

\* The merge command, and GitHub's own word for it.  It may land without being seen
\* to.  Someone who merged first makes the step "already executed" with no merge
\* commit to show.
Merge ==
  /\ run.pc = "merge"
  /\ CASE ~Delegated("merge") -> Bail /\ UNCHANGED <<remote, local, tree, seen>>
       [] Delegated("merge") /\ MergeStatus = "already_executed" ->
            /\ Proceed("count", [run.rec EXCEPT !.merge = TRUE])
            /\ UNCHANGED <<remote, local, tree, seen>>
       [] OTHER -> \E outcome \in Doubtful \cup (IF Faulty THEN {"unseen"} ELSE {}) :
            LET lands == outcome \in {"done", "unseen"} /\ Mergeable(run.task)
                told == IF outcome = "done" /\ ~lands THEN "failed" ELSE outcome IN
            /\ IF told # "unseen" /\ Confirmed(told)
               THEN /\ run' = [run EXCEPT !.pc = "count", !.used = @ + 1,
                                          !.rec.merge = TRUE, !.rec.sha = TRUE]
                    /\ PersistRecord([run.rec EXCEPT !.merge = TRUE, !.sha = TRUE])
               ELSE Bail
            /\ IF lands
               THEN /\ remote' = Landed(run.task)
                    /\ local' = [local EXCEPT ![run.task] = None]
                    /\ tree' = [tree EXCEPT !.branch = NoTask]
                    /\ seen' = [Struck(seen, outcome) EXCEPT !.merges = @ + 1,
                                  !.lost = @ + (IF outcome = "unseen" THEN 1 ELSE 0)]
               ELSE UNCHANGED <<remote, local, tree>> /\ Strike(outcome)
  /\ UNCHANGED <<grant, out>>

\* The durable count: on disk before anything else happens.
CountMerge ==
  /\ run.pc = "count"
  /\ saved' = [saved EXCEPT !.merges = @ + 1]
  /\ Goto("verify")
  /\ UNCHANGED <<grant, out, tree, local, remote, seen>>

\* Main must be seen to contain the merge.  With no merge commit to look for the
\* question itself raises, and nothing above catches it: the process ends.
VerifyMain ==
  /\ run.pc = "verify"
  /\ \E outcome \in Doubtful :
       /\ Strike(outcome)
       /\ IF ~run.rec.sha \/ outcome = "failed" THEN Goto("down") /\ UNCHANGED saved
          ELSE IF ~Confirmed(outcome) THEN Bail
          ELSE Proceed("sync", [run.rec EXCEPT !.contains = TRUE])
  /\ UNCHANGED <<grant, out, tree, local, remote>>

\* The local main follows; whether it could is recorded and changes nothing else.
SyncMain ==
  /\ run.pc = "sync"
  /\ \E outcome \in Fallible :
       LET synced == Delegated("sync") /\ outcome = "done"
           rec == [run.rec EXCEPT !.synced = synced] IN
       /\ Strike(outcome)
       /\ run' = [run EXCEPT !.pc = "record", !.rec = rec,
                             !.result = IF FullyIntegrated(rec) THEN "done" ELSE "failed"]
       /\ PersistRecord(rec)
       /\ tree' = IF synced THEN [tree EXCEPT !.branch = NoTask] ELSE tree
  /\ UNCHANGED <<grant, out, local, remote>>

TaskStep ==
  \/ Admit \/ Exhausted \/ BudgetSpent \/ AttemptFails \/ AttemptCompletes
  \/ CreateBranch \/ Commit \/ Push \/ OpenPullRequest
  \/ ReadHead \/ ReadChecks \/ Observe
  \/ Merge \/ CountMerge \/ VerifyMain \/ SyncMain

-----------------------------------------------------------------------------
(* The world.  What happens to a pull request nobody works on any more changes  *)
(* nothing the campaign does, and is left out.                               *)

\* CI reports on the head of an open pull request.
ChecksReport ==
  \E status \in {"green", "red"} :
    /\ run.task # NoTask /\ remote.pr[run.task] = "open" /\ remote.checks[run.task] = "pending"
    /\ remote' = [remote EXCEPT !.checks[run.task] = status]
    /\ seen' = IF status = "green"
               THEN [seen EXCEPT !.green = @ \cup {remote.branch[run.task]}] ELSE seen
    /\ UNCHANGED <<run, saved, grant, out, tree, local>>

\* Someone pushes to the task's branch: the checks start again for the new head.
HeadMoves ==
  /\ Faulty /\ Fault
  /\ run.task # NoTask /\ remote.pr[run.task] = "open" /\ ~remote.branch[run.task].moved
  /\ remote' = [remote EXCEPT !.branch[run.task].moved = TRUE, !.checks[run.task] = "pending"]
  /\ UNCHANGED <<run, saved, grant, out, tree, local>>

PersonMerges ==
  /\ Faulty /\ Fault
  /\ run.task # NoTask /\ Mergeable(run.task)
  /\ remote' = Landed(run.task)
  /\ UNCHANGED <<run, saved, grant, out, tree, local>>

PersonEdits ==
  /\ Faulty /\ Fault
  /\ tree' = [tree EXCEPT !.work = @ \cup {[task |-> NoTask, by |-> Person, life |-> 0]}]
  /\ UNCHANGED <<run, saved, grant, out, local, remote>>

\* Someone, or something an agent left running, changes the hook setup.  A change made
\* before the branch is cut is part of what the commit is compared with.
HooksChange ==
  /\ Faulty /\ Fault
  /\ run.pc = "commit" /\ HooksTrusted
  /\ tree' = [tree EXCEPT !.hooks = "changed"]
  /\ UNCHANGED <<run, saved, grant, out, local, remote>>

\* The grant expires, for the process that holds it and on disk, or its file is damaged.
EnvelopeAges ==
  /\ Faulty /\ Fault /\ grant = "live"
  /\ \/ grant' = "expired" /\ run' = [run EXCEPT !.env = IF @ = "live" THEN "expired" ELSE @]
     \/ grant' = "unreadable" /\ UNCHANGED run
  /\ UNCHANGED <<saved, out, tree, local, remote>>

\* A provider's cooldown ends.
Recovers ==
  \E p \in out : out' = out \ {p} /\ UNCHANGED <<run, saved, grant, tree, local, remote, seen>>

World ==
  \/ ChecksReport \/ HeadMoves \/ PersonMerges \/ PersonEdits \/ HooksChange \/ EnvelopeAges \/ Recovers
=============================================================================
