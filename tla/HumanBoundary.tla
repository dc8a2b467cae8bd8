--------------------------- MODULE HumanBoundary ---------------------------
(***************************************************************************)
(* A governed task that stopped for its owner before anything was run: the *)
(* decision a person records (approve, reject), the consequential actions  *)
(* that `resume` then hands to the bounded executor, and the verification  *)
(* that decides how the task ends.                                         *)
(*                                                                         *)
(* The state is the task's run directory (.task_runs/<id>), the executor's *)
(* records beside it (.howlchangeops) and what each running command holds  *)
(* in memory.  resume and cancel hold the task's lock; approve and reject  *)
(* take no lock at all.  Every command can die at any step; a refusal that *)
(* only raises leaves the same state as such a death, so Abort is both.    *)
(***************************************************************************)
EXTENDS Integers, Sequences

CONSTANTS
    Owners,         \* processes that approve or reject, one command at a time
    Workers,        \* processes that resume or cancel, under the task's lock
    Ids,            \* decision ids the bounded executor can hand out
    Versions,       \* states of the repository: records [commit, diff]
    Plan,           \* the consequential actions the approval stands for
    Supported,      \* the actions some bounded executor supports
    None            \* no id, no lock holder, no receipt

Procs == Owners \cup Workers
Actions == {Plan[i] : i \in 1..Len(Plan)}
Commits == {v.commit : v \in Versions}
Receipts == [act : Actions, commit : Commits]

ASSUME Distinct ==
    /\ Owners \cap Workers = {}
    /\ None \notin Procs \cup Ids \cup Actions \cup Receipts
ASSUME PlanIsSequence == Plan \in Seq(Actions)

VARIABLES
    task,       \* task.yaml: current_state
    decision,   \* human_decision.json: the verdict, the repository state and
                \* the executor's decision id it is bound to
    packet,     \* decision_packet.md: the executor's decision id, or None
    plan,       \* verification_plan.json: overall_status
    receipt,    \* execution_receipt.json, or None
    ext,        \* per id, the executor's record: the action and how far it got
    signed,     \* ids the owner has approved in the executor
    repo,       \* the repository's commit and working-tree diff
    lock,       \* holder of the task's lock
    pc,         \* where each process is
    mem,        \* what its command has read
    ran         \* history: how often each id's action was started

store == <<task, decision, packet, plan, receipt>>
executor == <<ext, signed, ran>>
vars == <<store, executor, repo, lock, pc, mem>>

TaskStates == {"awaiting_human", "verifying", "blocked", "failed", "complete",
               "cancelled"}
Places == {"idle", "approve", "link", "reject", "fail",
           "check", "act", "query", "execute", "wait", "gates", "judge", "redo"}

Memory == [task : TaskStates \cup {None}, fp : Versions \cup {None},
           id : Ids \cup {None}, bound : Ids \cup {None},
           todo : 1..(Len(Plan) + 1)]
Records == [act : Actions \cup {None},
            st : {"none", "pending", "acting", "consumed", "pass", "fail"}]

Undecided == [kind |-> "none", fp |-> None, id |-> None]
Blank == [task |-> None, fp |-> None, id |-> None, bound |-> None, todo |-> 1]
Absent == [act |-> None, st |-> "none"]

Init ==
    /\ task = "awaiting_human" /\ decision = Undecided
    /\ plan = "unverified" /\ receipt = None
    /\ packet \in (IF Plan = <<>> THEN {} ELSE Ids) \cup {None}
    /\ ext = [d \in Ids |-> IF d = packet THEN [act |-> Plan[1], st |-> "pending"]
                                          ELSE Absent]
    /\ signed = {} /\ ran = [d \in Ids |-> 0]
    /\ repo \in Versions
    /\ lock = None
    /\ pc = [p \in Procs |-> "idle"] /\ mem = [p \in Procs |-> Blank]

Goto(p, place) == pc' = [pc EXCEPT ![p] = place]

(* The command of p ends; a lock it holds is released. *)
Leave(p) ==
    /\ Goto(p, "idle") /\ mem' = [mem EXCEPT ![p] = Blank]
    /\ lock' = IF lock = p THEN None ELSE lock

(***************************************************************************)
(* approve and reject: read, save the decision, then link or fail.         *)
(***************************************************************************)

(* A rejection on record contradicts the approval.  An approval on record  *)
(* is replaced if the new one gives another reason; otherwise it is        *)
(* returned as it is, stale or not, and nothing changes.                   *)
ApproveLoad(o) ==
    /\ pc[o] = "idle" /\ decision.kind # "rejected" /\ task = "awaiting_human"
    /\ mem' = [mem EXCEPT ![o] = [Blank EXCEPT !.fp = repo, !.id = packet]]
    /\ Goto(o, "approve")
    /\ UNCHANGED <<store, executor, repo, lock>>

Approve(o) ==
    /\ pc[o] = "approve" /\ Goto(o, "link")
    /\ decision' = [kind |-> "approved", fp |-> mem[o].fp, id |-> mem[o].id]
    /\ UNCHANGED <<task, packet, plan, receipt, executor, repo, lock, mem>>

(* The executor's decision is approved with it when a person is at the     *)
(* terminal and the executor accepts that; otherwise nothing changes.      *)
Link(o) ==
    /\ pc[o] = "link" /\ Leave(o)
    /\ signed' = signed \cup ({mem[o].id} \ {None})
    /\ UNCHANGED <<store, ext, ran, repo>>

(* A rejection is accepted in every state of the task. *)
RejectLoad(o) ==
    /\ pc[o] = "idle" /\ decision.kind # "approved" /\ Goto(o, "reject")
    /\ mem' = [mem EXCEPT ![o] = [Blank EXCEPT !.task = task, !.fp = repo, !.id = packet]]
    /\ UNCHANGED <<store, executor, repo, lock>>

Reject(o) ==
    /\ pc[o] = "reject" /\ Goto(o, "fail")
    /\ decision' = [kind |-> "rejected", fp |-> mem[o].fp, id |-> mem[o].id]
    /\ UNCHANGED <<task, packet, plan, receipt, executor, repo, lock, mem>>

(* The task fails from the state this command loaded, whatever it is now. *)
Fail(o) ==
    /\ pc[o] = "fail" /\ mem[o].task \notin {"failed", "complete"} /\ Leave(o)
    /\ task' = "failed"
    /\ UNCHANGED <<decision, packet, plan, receipt, executor, repo>>

(***************************************************************************)
(* resume, under the task's lock.                                          *)
(***************************************************************************)

(* Complete, failed and cancelled tasks are not resumed. *)
ResumeBegin(r) ==
    /\ pc[r] = "idle" /\ lock = None /\ lock' = r
    /\ \/ task = "awaiting_human" /\ Goto(r, "check")
       \/ task \in {"verifying", "blocked"} /\ Goto(r, "redo")
    /\ mem' = [mem EXCEPT ![r] = [Blank EXCEPT !.task = task]]
    /\ UNCHANGED <<store, executor, repo>>

(* The approval must be for the repository as it is now.  A receipt file   *)
(* from an earlier resume, good for this commit, stands for everything     *)
(* that was to be executed.                                                *)
Check(r) ==
    /\ pc[r] = "check" /\ decision.kind = "approved" /\ decision.fp = repo
    /\ LET done == Plan # <<>> /\ receipt # None
       IN  /\ done => receipt.commit = repo.commit
           /\ mem' = [mem EXCEPT ![r].fp = repo, ![r].bound = decision.id,
                                 ![r].todo = IF done THEN Len(Plan) + 1 ELSE 1]
    /\ Goto(r, "act")
    /\ UNCHANGED <<store, executor, repo, lock>>

(* The executor evaluates an action: a decision of its own, new or known. *)
Evaluated(d, act) ==
    /\ ext[d] = Absent \/ ext[d].act = act
    /\ ext' = IF ext[d] = Absent THEN [ext EXCEPT ![d] = [act |-> act, st |-> "pending"]]
                                 ELSE ext

(* The next action: an executor must support it (otherwise the command     *)
(* raises); its decision is the one the approval is bound to, or a new one. *)
Ask(r) ==
    /\ pc[r] = "act" /\ mem[r].todo <= Len(Plan)
    /\ Plan[mem[r].todo] \in Supported
    /\ \/ /\ mem[r].bound # None
          /\ mem' = [mem EXCEPT ![r].id = mem[r].bound] /\ UNCHANGED ext
       \/ /\ mem[r].bound = None
          /\ \E d \in Ids : /\ Evaluated(d, Plan[mem[r].todo])
                            /\ mem' = [mem EXCEPT ![r].id = d]
    /\ Goto(r, "query")
    /\ UNCHANGED <<store, signed, ran, repo, lock>>

(* A native PASS becomes the task's receipt, dated by the commit of now;   *)
(* the receipt is on disk before it is compared with the approved commit.  *)
TakeReceipt(r) ==
    /\ receipt' = [act |-> Plan[mem[r].todo], commit |-> repo.commit]
    /\ IF repo.commit = mem[r].fp.commit
       THEN /\ Goto(r, "act") /\ mem' = [mem EXCEPT ![r].todo = @ + 1]
            /\ UNCHANGED lock
       ELSE Leave(r)
    /\ UNCHANGED <<task, decision, packet, plan, executor, repo>>

(* Mutant of Query: a consumed decision without a receipt is run again. *)
QueryAgain(r) ==
    /\ pc[r] = "query"
    /\ \/ ext[mem[r].id].st = "pass" /\ TakeReceipt(r)
       \/ /\ ext[mem[r].id].st \in {"pending", "consumed"} /\ mem[r].id \in signed
          /\ Goto(r, "execute")
          /\ UNCHANGED <<store, executor, repo, lock, mem>>

(* Mutant of Query: the owner's approval in the executor is not looked for. *)
QueryUnsigned(r) ==
    /\ pc[r] = "query"
    /\ \/ ext[mem[r].id].st = "pass" /\ TakeReceipt(r)
       \/ /\ ext[mem[r].id].st = "pending"
          /\ Goto(r, "execute")
          /\ UNCHANGED <<store, executor, repo, lock, mem>>

(* Before executing, the executor's records are searched for an earlier    *)
(* execution.  One that passed is taken over; one that failed, or is       *)
(* consumed without a receipt, ends the command (Abort).                   *)
Query(r) ==
    /\ pc[r] = "query"
    /\ \/ ext[mem[r].id].st = "pass" /\ TakeReceipt(r)
       \/ /\ ext[mem[r].id].st = "pending" /\ mem[r].id \in signed
          /\ Goto(r, "execute")
          /\ UNCHANGED <<store, executor, repo, lock, mem>>

(* The executor marks the decision consumed and starts its action.  Its    *)
(* own refusal of a second execution is left out.                          *)
Execute(r) ==
    /\ pc[r] = "execute" /\ Goto(r, "wait")
    /\ ext' = [ext EXCEPT ![mem[r].id].st = "acting"]
    /\ ran' = [ran EXCEPT ![mem[r].id] = @ + 1]
    /\ UNCHANGED <<store, signed, repo, lock, mem>>

Recorded(r) ==
    /\ pc[r] = "wait" /\ ext[mem[r].id].st = "pass" /\ TakeReceipt(r)

(* After its time the executor is killed in the middle. *)
TimedOut(r) ==
    /\ pc[r] = "wait" /\ ext[mem[r].id].st = "acting" /\ Leave(r)
    /\ ext' = [ext EXCEPT ![mem[r].id].st = "consumed"]
    /\ UNCHANGED <<store, signed, ran, repo>>

(* Everything is executed: a plan with an outcome keeps it. *)
Verify(r) ==
    /\ pc[r] = "act" /\ mem[r].todo > Len(Plan)
    /\ IF plan = "unverified" THEN task' = "verifying" /\ Goto(r, "gates")
                              ELSE UNCHANGED task /\ Goto(r, "judge")
    /\ UNCHANGED <<decision, packet, plan, receipt, executor, repo, lock, mem>>

RunGates(r) ==
    /\ pc[r] = "gates" /\ Goto(r, "judge")
    /\ plan' \in {"passed", "failed", "partial"}
    /\ UNCHANGED <<task, decision, packet, receipt, executor, repo, lock, mem>>

(* Mutant of Outcomes: everything short of a failure counts as passed. *)
OutcomesApproved(status) ==
    IF status = "failed" THEN {"failed"} ELSE {"complete", "blocked"}

(* Passed gates complete the task unless the testing gate blocks it. *)
Outcomes(status) ==
    CASE status = "passed" -> {"complete", "blocked"}
      [] status = "failed" -> {"failed"}
      [] OTHER             -> {"blocked"}

Judge(r) ==
    /\ pc[r] = "judge" /\ Leave(r)
    /\ task' \in Outcomes(plan)
    /\ UNCHANGED <<decision, packet, plan, receipt, executor, repo>>

(* A task found in the middle starts over: a fresh plan and packet, and    *)
(* the boundary stops it again.  A blocked task may not go back to         *)
(* awaiting_human: that raises, after the plan and the packet are written. *)
Redo(r) ==
    /\ pc[r] = "redo" /\ Leave(r)
    /\ plan' = "unverified"
    /\ \/ packet' = None /\ UNCHANGED ext
       \/ \E d \in Ids : Plan # <<>> /\ Evaluated(d, Plan[1]) /\ packet' = d
    /\ task' = IF mem[r].task = "verifying" THEN "awaiting_human" ELSE mem[r].task
    /\ UNCHANGED <<decision, receipt, signed, ran, repo>>

Cancel(r) ==
    /\ pc[r] = "idle" /\ lock = None /\ task \notin {"complete", "cancelled"}
    /\ task' = "cancelled"
    /\ UNCHANGED <<decision, packet, plan, receipt, executor, repo, lock, pc, mem>>

(***************************************************************************)
(* Ends, the executor, the owner and the repository.                       *)
(***************************************************************************)

(* The command raises or dies; what it has written stays. *)
Abort(p) ==
    /\ pc[p] # "idle" /\ Leave(p)
    /\ UNCHANGED <<store, executor, repo>>

(* A started action ends by itself, also after the command has died. *)
Settle(d) ==
    /\ ext[d].st = "acting"
    /\ \E st \in {"pass", "fail", "consumed"} : ext' = [ext EXCEPT ![d].st = st]
    /\ UNCHANGED <<store, signed, ran, repo, lock, pc, mem>>

OwnerSigns(d) ==
    /\ ext[d] # Absent /\ d \notin signed
    /\ signed' = signed \cup {d}
    /\ UNCHANGED <<store, ext, ran, repo, lock, pc, mem>>

Edit ==
    /\ repo' \in Versions \ {repo}
    /\ UNCHANGED <<store, executor, lock, pc, mem>>

Decides(o) ==
    ApproveLoad(o) \/ Approve(o) \/ Link(o)
    \/ RejectLoad(o) \/ Reject(o) \/ Fail(o)

Works(r) ==
    ResumeBegin(r) \/ Check(r) \/ Ask(r) \/ Query(r) \/ Execute(r)
    \/ Recorded(r) \/ TimedOut(r) \/ Verify(r) \/ RunGates(r) \/ Judge(r)
    \/ Redo(r) \/ Cancel(r)

Next ==
    \/ \E o \in Owners : Decides(o)
    \/ \E r \in Workers : Works(r)
    \/ \E p \in Procs : Abort(p)
    \/ \E d \in Ids : Settle(d) \/ OwnerSigns(d)
    \/ Edit

Spec == Init /\ [][Next]_vars

(***************************************************************************)
(* Properties.                                                             *)
(***************************************************************************)

(* The documents, the executor's records and every command's memory hold   *)
(* values the code gives them.                                             *)
TypeOK ==
    /\ task \in TaskStates
    /\ decision \in [kind : {"none", "approved", "rejected"},
                     fp : Versions \cup {None}, id : Ids \cup {None}]
    /\ packet \in Ids \cup {None}
    /\ plan \in {"unverified", "passed", "failed", "partial"}
    /\ receipt \in Receipts \cup {None}
    /\ ext \in [Ids -> Records]
    /\ signed \subseteq Ids
    /\ repo \in Versions
    /\ lock \in Workers \cup {None}
    /\ pc \in [Procs -> Places]
    /\ mem \in [Procs -> Memory]
    /\ ran \in [Ids -> Nat]

(* An authorised decision is executed at most once, through crashes of     *)
(* resume between the execution and its receipt, killed executions and     *)
(* any number of later resumes.                                            *)
OncePerDecision == \A d \in Ids : ran[d] <= 1

(* A task that asked its owner is complete only if the owner's decision is *)
(* an approval, the verification plan passed, and the executor holds a     *)
(* passing record of every action the approval stands for.                 *)
CompletionEarned ==
    task = "complete" =>
        /\ decision.kind = "approved" /\ plan = "passed"
        /\ \A act \in Actions : \E d \in Ids : ext[d] = [act |-> act, st |-> "pass"]

(* Nothing consequential is started unless the recorded decision is an     *)
(* approval and its owner has approved that very decision in the executor, *)
(* whatever was decided, cancelled or restarted since resume looked.       *)
NoEffectUnapproved ==
    [][\A d \in Ids : ran'[d] # ran[d] =>
        decision.kind = "approved" /\ d \in signed]_vars

=============================================================================
