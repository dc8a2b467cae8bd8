------------------------------- MODULE Campaign -------------------------------
(***************************************************************************)
(* The backlog marathon (synthesis/marathon.py, run_backlog_marathon): one  *)
(* process works a bounded sequence of a repository's ranked backlog items, *)
(* each through GitIntegration, keeps campaign_state.json, and may be lost  *)
(* and resumed at any step.                                                 *)
(***************************************************************************)
EXTENDS GitIntegration

CONSTANTS
  Row,           \* the ranked tables: by task id, in rank order, the row's kind, status and score
  Floor,         \* the score below which nobody works a row unattended
  MaxTasks,      \* how many items one run may attempt
  Canary,        \* the acceptance canary's one task, which is in no backlog
  Profiles       \* whether the operator names an authority profile when starting

ASSUME CampaignAssumption ==
  /\ DOMAIN Row \subseteq Tasks /\ Canary \in Tasks \ DOMAIN Row
  /\ MaxTasks \in Nat /\ Floor \in Nat /\ Profiles \subseteq BOOLEAN

Down == [pc |-> "down", kind |-> "none", env |-> "none", used |-> 0, skip |-> {}, worked |-> 0,
         task |-> NoTask, provider |-> Person, tried |-> {}, base |-> {}, delta |-> {},
         rec |-> NewRecord, head |-> None, checks |-> "none", polls |-> 0, life |-> 0,
         result |-> "none"]

NewState == [exists |-> FALSE, completed |-> {}, failed |-> {}, parked |-> {}, merges |-> 0,
             recs |-> [t \in Tasks |-> NewRecord], stop |-> "none"]

NewSeen == [pushed |-> {}, green |-> {}, merges |-> 0, lost |-> 0, faults |-> 0, crashes |-> 0]

CampaignInit ==
  /\ run = Down /\ saved = NewState /\ grant = "none" /\ out = {} /\ seen = NewSeen
  /\ tree = [branch |-> NoTask, work |-> {}, hooks |-> HookBaseline]
  /\ local = [t \in Tasks |-> None]
  /\ \E rulesets, protection \in Answers :
       remote = [main |-> {}, branch |-> [t \in Tasks |-> None], pr |-> [t \in Tasks |-> "none"],
                 checks |-> [t \in Tasks |-> "none"], policy |-> RequiredPolicy(rulesets, protection)]

\* A new campaign refuses a checkout with someone's uncommitted work in it, before it
\* has written anything; a resumed one owns what it left there.
DirtyRefused == ~saved.exists /\ tree.work # {}

\* What no run of this campaign takes up again.
AlreadyAttempted == saved.completed \cup saved.failed \cup saved.parked

\* Mutant of MergesUsed: a restarted process begins with a fresh budget.
FreshBudget == 0
\* The merges the envelope's budget has already spent.
MergesUsed == saved.merges

\* The executor of a process: the envelope it bound and the merges already spent.
Executor(kind, env) == [Down EXCEPT !.kind = kind, !.env = env, !.used = MergesUsed,
                                    !.life = seen.crashes]

\* Between two processes.  Bound: a canary's campaign is not started again, as it need not be.
Ended == [Down EXCEPT !.kind = IF run.kind = "canary" THEN "canary" ELSE "none"]

\* Start: a new campaign, or the same one resumed, which sees the providers afresh.
Start ==
  /\ run.pc = "down" /\ run.kind # "canary"
  /\ ~DirtyRefused
  /\ \E profile \in Profiles : \E env \in {"none", "live"} :
       /\ Bind(profile, env, grant')
       /\ run' = [Executor("backlog", env) EXCEPT !.pc = "loop", !.skip = AlreadyAttempted]
  /\ out' = IF saved.exists THEN {} ELSE out
  /\ UNCHANGED <<saved, tree, local, remote, seen>>

\* The acceptance canary: a campaign of its own with one task, which takes the checkout
\* as it finds it.
StartCanary ==
  /\ run.pc = "down" /\ ~saved.exists
  /\ \E profile \in Profiles : \E env \in {"none", "live"} :
       /\ Bind(profile, env, grant')
       /\ run' = [Executor("canary", env) EXCEPT !.pc = "gate", !.task = Canary]
  /\ UNCHANGED <<saved, out, tree, local, remote, seen>>

\* The command's own verdict: merged, in main, and the local main with it.
FullyVerified(rec) == rec.merge /\ rec.contains /\ rec.synced

\* A canary that did not succeed leaves nothing but its stop reason.
RecordCanary ==
  /\ run.pc = "record" /\ run.kind = "canary"
  /\ saved' = [saved EXCEPT !.exists = TRUE,
       !.completed = IF run.result = "done" THEN @ \cup {run.task} ELSE @,
       !.stop = IF FullyVerified(run.rec) THEN "verified" ELSE "incomplete"]
  /\ run' = Ended
  /\ UNCHANGED <<grant, out, tree, local, remote, seen>>

\* The rows of each file's live table; the tables kept below it are history.
Backlog == DOMAIN Row

\* A row is worked only if it is plainly pending and its score is not below the floor.
Ineligible(item) == Row[item].status # "Pending" \/ Row[item].score < Floor
Eligible == {item \in Backlog : ~Ineligible(item)}

\* What nobody of this campaign has attempted, and the first of it: bugs, then
\* improvements, each in their committed order.
Left(skip) == Eligible \ skip
Bugs(items) == {item \in items : Row[item].kind = "bug"}
NextItem(skip) == Minimum(IF Bugs(Left(skip)) # {} THEN Bugs(Left(skip)) ELSE Left(skip))

\* The loop's ends, in the order they are asked.
Stop(reason) ==
  /\ saved' = [saved EXCEPT !.exists = TRUE, !.stop = reason]
  /\ run' = Down

Stops ==
  /\ run.pc = "loop" /\ run.kind = "backlog"
  /\ \/ run.worked >= MaxTasks /\ Stop("max_tasks_reached") /\ UNCHANGED seen
     \/ run.worked < MaxTasks /\ Faulty /\ Stop("max_runtime_reached") /\ Fault
     \/ run.worked < MaxTasks /\ Candidates = {} /\ Stop("resources_unavailable") /\ UNCHANGED seen
     \/ /\ run.worked < MaxTasks /\ Candidates # {}
        /\ Left(run.skip) = {} /\ Stop("backlog_exhausted") /\ UNCHANGED seen
  /\ UNCHANGED <<grant, out, tree, local, remote>>

\* An item is on the skip list before it is worked.
TakeItem ==
  /\ run.pc = "loop" /\ run.kind = "backlog" /\ run.worked < MaxTasks /\ Candidates # {}
  /\ Left(run.skip) # {}
  /\ LET item == NextItem(run.skip) IN
     run' = [run EXCEPT !.pc = "gate", !.task = item, !.skip = @ \cup {item}, !.rec = NewRecord,
                        !.delta = {}, !.polls = 0, !.checks = "none", !.head = None]
  /\ UNCHANGED <<saved, grant, out, tree, local, remote, seen>>

\* The item's end, durable before the next is taken.
RecordItem ==
  /\ run.pc = "record" /\ run.kind = "backlog"
  /\ saved' = [saved EXCEPT !.exists = TRUE,
       !.parked = IF run.result = "parked" THEN @ \cup {run.task} ELSE @,
       !.completed = IF run.result = "done" THEN @ \cup {run.task} ELSE @,
       !.failed = IF run.result = "failed" THEN @ \cup {run.task} ELSE @]
  /\ run' = [run EXCEPT !.pc = "loop", !.worked = @ + 1, !.result = "none", !.task = NoTask,
                        !.provider = Person, !.tried = {}, !.base = {}, !.delta = {},
                        !.rec = NewRecord, !.head = None, !.checks = "none", !.polls = 0]
  /\ UNCHANGED <<grant, out, tree, local, remote, seen>>

\* The process is lost: in an attempt the provider's piece may be in the checkout;
\* between a merge and its durable count, the merge is not counted.
Crash ==
  /\ run.pc # "down" /\ Faulty
  /\ \E left \in SUBSET (IF run.pc = "attempt" THEN {Piece} ELSE {}) :
       tree' = [tree EXCEPT !.work = @ \cup left]
  /\ seen' = [seen EXCEPT !.crashes = @ + 1, !.faults = @ + 1,
                          !.lost = @ + (IF run.pc = "count" THEN 1 ELSE 0)]
  /\ run' = Ended
  /\ UNCHANGED <<saved, grant, out, local, remote>>

CampaignStep == Stops \/ TakeItem \/ RecordItem \/ RecordCanary \/ TaskStep

Next == Start \/ StartCanary \/ CampaignStep \/ Crash \/ World

Spec == CampaignInit /\ [][Next]_gitVars

\* The process runs on; when and whether it is started, lost or disturbed is open.
FairSpec == Spec /\ WF_gitVars(CampaignStep)

-----------------------------------------------------------------------------
\* A record claims only what was so, whatever crashes, lying commands and moving heads make
\* the campaign believe: the push, the checks of the very head it names, the merge.
RecordHolds(rec, t) ==
    /\ rec.push => rec.commit \in seen.pushed
    /\ rec.green => rec.ciHead \in seen.green
    /\ rec.merge => \E c \in remote.main : c.task = t

\* A task on record as completed is in main, with its checks seen green, its record claims
\* only what was so, and a canary is verified only if its merge is there (marathon.py,
\* git_integration.py).
RecordIsTrue ==
  /\ \A t \in Tasks : RecordHolds(saved.recs[t], t)
  /\ \A t \in saved.completed : \E c \in remote.main : c.task = t /\ c \in seen.green
  /\ saved.stop = "verified" => \E c \in remote.main : c.task = Canary

\* The envelope's merge budget holds across restarts and renewals, up to the merges
\* that landed while the process could not see or count them.
BudgetHolds == seen.merges <= MaxMerges + seen.lost

\* No commit mixes the work of two attempts, whoever ran out in the middle and
\* whatever could not be reverted.
AttemptsDoNotMix ==
  \A t \in Tasks : \A p, q \in local[t].work \cup remote.branch[t].work :
    (p.by # Person /\ q.by # Person) => p = q

\* A campaign ends: the failover loop, the CI wait and the backlog are all finite.
CampaignEnds == (run.pc # "down") ~> (run.pc = "down")
=============================================================================
