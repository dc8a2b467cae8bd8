------------------------------ MODULE Attempt ------------------------------
(***************************************************************************)
(* The implementation attempts of one task on a real checkout: the loop of *)
(* GovernedTaskOrchestrator.run (orchestrator.py) over calls of providers  *)
(* (module AgentExecution) and rollbacks of what they did (module          *)
(* WorkTree), the remediation after it, and the death of the harness.      *)
(*                                                                         *)
(* The checkout belongs to a person who left work in it, and to git.  A    *)
(* provider edits, deletes, stages and commits as it likes, and one the    *)
(* harness lost hold of goes on doing so.                                  *)
(***************************************************************************)
EXTENDS WorkTree, AgentExecution, FiniteSets

CONSTANTS Found,         \* [Paths -> the states the person may have left a file in]
          Tools,         \* what providers do to the checkout
          Allowed,       \* task_spec.allowed_paths; {} is no scope
          MaxAttempts,   \* config.max_provider_failover_attempts
          MaxFixes,      \* config.max_remediation_cycles
          MaxOps,        \* bound: what providers do to the checkout
          MaxSigns,      \* bound: what one provider prints
          MaxFaults,     \* bound: deaths of the harness and failures of its observer
          Nobody

ASSUME FoundAssumption == Found \in [Paths -> SUBSET File]
ASSUME AttemptBounds ==
  /\ Tools \subseteq {"edit", "delete", "add", "commit"}
  /\ {MaxAttempts, MaxFixes, MaxOps, MaxSigns, MaxFaults} \subseteq Nat /\ Nobody \notin Providers

VARIABLES tree,      \* the checkout
          base,      \* baseline.json
          at,        \* where the orchestrator is
          run,       \* its locals: provider, attempt number, who was tried, the result, the delta
          fallback,  \* the retained salvage: attempt number and patch
          astray,    \* a provider the harness no longer watches is alive
          start, ops, faults   \* ghost: the checkout as found; bounds

vars == <<tree, base, at, run, fallback, astray, start, ops, faults, calls>>

NoDelta == [added |-> {}, modified |-> {}, deleted |-> {}]
Fresh == [cur |-> Nobody, n |-> 1, tried |-> {}, result |-> Result, said |-> {}, delta |-> NoDelta, fixes |-> 0]
NoFallback == [n |-> 0, patch |-> {}]

Phases == {"attempt", "working", "inferring", "judge", "kept", "fixing", "failed", "unrestored", "dead"}

TypeOK ==
  /\ tree \in Trees /\ start \in Trees /\ at \in Phases /\ astray \in BOOLEAN
  /\ run.cur \in Providers \cup {Nobody} /\ run.n \in 1..MaxAttempts /\ run.tried \subseteq Providers
  /\ run.result \in Results /\ run.said \subseteq Signs /\ run.fixes \in 0..MaxFixes
  /\ fallback.n \in 0..MaxAttempts /\ ops \in 0..MaxOps /\ faults \in 0..MaxFaults
  /\ child.code \in {"none", "ok", "error"} /\ child.said \subseteq Signs
  /\ watch.elapsed \in 0..Deadline /\ watch.quiet \in 0..Deadline

Init ==
  /\ tree \in {t \in Trees: \A p \in Paths: t[p] \in Found[p]}
  /\ start = tree /\ base = Capture(tree)
  /\ at = "attempt" /\ run = Fresh /\ fallback = NoFallback /\ astray = FALSE
  /\ ops = 0 /\ faults = 0
  /\ child = NoChild /\ watch = Unwatched

Bounds == <<start, ops, faults>>
Checkout == <<tree, base, start, ops>>

(***************************************************************************)
(* What providers do to the checkout.                                      *)
(***************************************************************************)
Edit(p) == tree' = [tree EXCEPT ![p].work = "agent"]
Delete(p) == tree' = [tree EXCEPT ![p].work = Missing]
Add(p) == tree[p].work # Missing /\ tree' = [tree EXCEPT ![p].index = tree[p].work]
Commit == tree' = [p \in Paths |-> [tree[p] EXCEPT !.head = tree[p].index]]

Touch ==
  /\ ops < MaxOps /\ ops' = ops + 1
  /\ \/ "commit" \in Tools /\ Commit
     \/ \E p \in Paths: \/ "edit" \in Tools /\ Edit(p)
                        \/ "delete" \in Tools /\ Delete(p)
                        \/ "add" \in Tools /\ Add(p)
  /\ tree' # tree

Work ==
  /\ at \in {"working", "fixing"} /\ child.alive /\ Touch
  /\ UNCHANGED <<base, at, run, fallback, astray, start, faults, calls>>
Straggle ==
  /\ astray /\ Touch
  /\ UNCHANGED <<base, at, run, fallback, astray, start, faults, calls>>
Prints ==
  /\ at \in {"working", "fixing"} /\ Cardinality(child.said) < MaxSigns
  /\ \E sign \in Signs: Say(sign)
  /\ UNCHANGED <<Checkout, at, run, fallback, astray, faults>>
Ends ==
  /\ at \in {"working", "fixing"} /\ \E code \in {"ok", "error"}: Exit(code)
  /\ UNCHANGED <<Checkout, at, run, fallback, astray, faults>>

(***************************************************************************)
(* One attempt.                                                            *)
(***************************************************************************)
\* repository_fingerprint: the digest of the delta's text.
Fingerprint == DiffContent(tree, Delta(tree, base))

\* _enforce_task_path_scope: out of scope is checked out or, when added, unlinked.
OutOfScope(delta) == IF Allowed = {} THEN {} ELSE Changed(delta) \ Allowed
Undone(p, delta) == IF p \in delta.added THEN Missing
                    ELSE IF p \in Tracked(tree) THEN tree[p].index ELSE tree[p].work
Scoped(delta) ==
  {[p \in Paths |-> IF p \in out THEN [tree[p] EXCEPT !.work = Undone(p, delta)] ELSE tree[p]]:
     out \in {OutOfScope(delta)}}

\* _capture_scoped_delta and the attempt's record, which every attempt comes to.
ScopedTree == UNION {Scoped(delta): delta \in {Delta(tree, base)}}
Judge(p, result, said) ==
  /\ tree' \in ScopedTree /\ at' = "judge"
  /\ run' = [run EXCEPT !.cur = p, !.result = result, !.said = said,
                        !.delta = Delta(tree', base), !.tried = @ \cup {p}]

\* The resource of this attempt: the routed one first, then another one than those tried.
Choose(p) == at = "attempt" /\ p \in Providers \ run.tried

NotInstalled(p) ==
  /\ Choose(p) /\ Judge(p, NotLaunched, {})
  /\ UNCHANGED <<base, fallback, astray, Bounds, calls>>

Launch(p) ==
  /\ Choose(p) /\ Adapter[p] # "local" /\ Spawn(Fingerprint)
  /\ at' = "working" /\ run' = [run EXCEPT !.cur = p]
  /\ UNCHANGED <<tree, base, fallback, astray, Bounds>>

Poll == /\ at = "working" /\ PollOn(Fingerprint)
        /\ UNCHANGED <<Checkout, at, run, fallback, astray, faults>>

\* _launch ends: by itself, or by the watchdog, or at the deadline.
Return ==
  \/ /\ ~child.alive /\ Judge(run.cur, Account(run.cur, Finished(child.code, child.said), child.said), child.said)
     /\ UNCHANGED calls
  \/ /\ StopWatched(Fingerprint)
     /\ Judge(run.cur, Account(run.cur, Stopped(Verdict(child.said, Fingerprint)), child.said), child.said)
  \/ /\ StopAtDeadline(Fingerprint)
     /\ Judge(run.cur, Account(run.cur, OutOfTime, child.said), child.said)

AttemptReturns ==
  /\ at = "working" /\ Return
  /\ UNCHANGED <<base, fallback, astray, Bounds>>

\* An exception in the observer ends the call, not the process.
ObserverFails ==
  /\ at = "working" /\ child.alive /\ faults < MaxFaults /\ faults' = faults + 1
  /\ Judge(run.cur, Account(run.cur, Raised, {}), {}) /\ astray' = TRUE /\ child' = NoChild
  /\ UNCHANGED <<base, fallback, start, ops, watch>>

\* The local model: refused or busy at once, or one answer and no edit.
InferLocally(p) ==
  /\ Choose(p) /\ Adapter[p] = "local"
  /\ \/ at' = "inferring" /\ run' = [run EXCEPT !.cur = p] /\ UNCHANGED tree
     \/ Judge(p, LocalRefused, {})
  /\ UNCHANGED <<base, fallback, astray, Bounds, calls>>
LocalReturns ==
  /\ at = "inferring" /\ \E ok \in BOOLEAN: Judge(run.cur, LocalReply(ok), {})
  /\ UNCHANGED <<base, fallback, astray, Bounds, calls>>

(***************************************************************************)
(* After the attempt.                                                      *)
(***************************************************************************)
ClassOf == Class(run.result, run.said)
FailoverEligible == ClassOf \in {"budget", "eligible"}
Salvageable == ClassOf = "budget" /\ ~IsEmpty(run.delta)
MayFailOver == run.n < MaxAttempts /\ run.tried # Providers
Patch == DiffContent(tree, run.delta)

\* A finished implementation, or a fragment and nobody left whom the pool would name.
Accept ==
  /\ at = "judge" /\ (ClassOf = "none" \/ Salvageable)
  /\ at' = "kept" /\ fallback' = IF ClassOf = "none" THEN NoFallback ELSE fallback
  /\ UNCHANGED <<Checkout, run, astray, faults, calls>>

\* The most recent fragment is the fallback.
Retained == IF Salvageable /\ run.n >= fallback.n THEN [n |-> run.n, patch |-> Patch] ELSE fallback

\* Mutant of HandOver: the next provider inherits what the last one left.
HandOverAsIs ==
  /\ at = "judge" /\ FailoverEligible /\ MayFailOver
  /\ fallback' = Retained /\ at' = "attempt"
  /\ run' = [Fresh EXCEPT !.n = run.n + 1, !.tried = run.tried]
  /\ UNCHANGED <<Checkout, astray, faults, calls>>
\* The next provider: the fragment is retained, then the checkout put back.
HandOver ==
  /\ at = "judge" /\ FailoverEligible /\ MayFailOver
  /\ \E back \in Restore(tree, base, run.delta):
     /\ tree' = back.tree /\ fallback' = Retained
     /\ IF back.ok THEN at' = "attempt" /\ run' = [Fresh EXCEPT !.n = run.n + 1, !.tried = run.tried]
        ELSE at' = "unrestored" /\ run' = Fresh
  /\ UNCHANGED <<base, astray, Bounds, calls>>

\* No provider follows and nothing of this attempt is kept.
Terminal == at = "judge" /\ (ClassOf = "fatal" \/ (FailoverEligible /\ ~Salvageable))

\* _promote_retained_salvage: restored first, then the patch, checked before it is applied.
Applies(t, patch) == patch # {} /\ \A e \in patch: t[e[1]].work = base.head[e[1]]
Patched(t, patch) ==
  [p \in Paths |-> [t[p] EXCEPT !.work = IF \E e \in patch: e[1] = p THEN (CHOOSE e \in patch: e[1] = p)[2] ELSE @]]
Promotable(back) == /\ back.ok /\ Applies(back.tree, fallback.patch)
                    /\ ~IsEmpty(Delta(Patched(back.tree, fallback.patch), base))

Promote ==
  /\ Terminal
  /\ \E back \in Restore(tree, base, run.delta):
     Promotable(back) /\ tree' = Patched(back.tree, fallback.patch)
  /\ fallback' = NoFallback /\ at' = "kept"
  /\ UNCHANGED <<base, run, astray, Bounds, calls>>

\* fail_implementation.
Fail ==
  /\ Terminal
  /\ \E back \in Restore(tree, base, run.delta):
     /\ ~Promotable(back)
     /\ tree' = back.tree /\ at' = IF back.ok THEN "failed" ELSE "unrestored"
  /\ run' = Fresh /\ fallback' = NoFallback
  /\ UNCHANGED <<base, astray, Bounds, calls>>

(***************************************************************************)
(* Remediation: the same provider, without a watchdog.                     *)
(***************************************************************************)
Fix(p) ==
  /\ at = "kept" /\ run.cur \in {p, Nobody} /\ run.fixes < MaxFixes
  /\ Adapter[p] # "local" /\ Spawn({})
  /\ at' = "fixing" /\ run' = [run EXCEPT !.cur = p, !.fixes = @ + 1]
  /\ UNCHANGED <<tree, base, fallback, astray, Bounds>>

FixWaits == at = "fixing" /\ Wait /\ UNCHANGED <<Checkout, at, run, fallback, astray, faults>>

\* A remediation that fails takes the implementation it worked on with it.
FixEnds(result) ==
  \/ /\ result.ok /\ tree' \in ScopedTree /\ at' = "kept"
     /\ run' = [run EXCEPT !.result = result, !.delta = Delta(tree', base)]
  \/ /\ ~result.ok /\ run' = Fresh
     /\ \E scoped \in ScopedTree: \E back \in Restore(scoped, base, Delta(scoped, base)):
        tree' = back.tree /\ at' = IF back.ok THEN "failed" ELSE "unrestored"

FixReturns ==
  /\ at = "fixing"
  /\ \/ ~child.alive /\ FixEnds(Account(run.cur, Finished(child.code, child.said), child.said)) /\ UNCHANGED calls
     \/ StopWaiting /\ FixEnds(Account(run.cur, OutOfTime, child.said))
  /\ UNCHANGED <<base, fallback, astray, Bounds>>

(***************************************************************************)
(* The harness dies, and the task is resumed.                              *)
(***************************************************************************)
Running == at \in {"attempt", "working", "inferring", "judge", "kept", "fixing"}
\* Nothing stops a provider whose harness is gone, and nothing on record names it.
Die ==
  /\ Running /\ faults < MaxFaults /\ faults' = faults + 1
  /\ astray' = (astray \/ child.alive) /\ child' = NoChild /\ watch' = Unwatched
  /\ at' = "dead" /\ run' = Fresh
  /\ UNCHANGED <<Checkout, fallback>>

\* reconcile_interrupted_implementation: a delta to the baseline is the implementation.
Resume ==
  /\ at = "dead"
  /\ at' = IF IsEmpty(Delta(tree, base)) THEN "attempt" ELSE "kept"
  /\ UNCHANGED <<Checkout, run, fallback, astray, faults, calls>>
ProviderSteps == Work \/ Straggle \/ Prints \/ Ends
HarnessSteps ==
  \/ Resume \/ FixWaits \/ FixReturns \/ Accept \/ LocalReturns
  \/ AttemptReturns \/ Poll \/ HandOver \/ Promote \/ Fail
  \/ \E p \in Providers: NotInstalled(p) \/ Launch(p) \/ InferLocally(p)
Faults == ObserverFails \/ Die

Next == ProviderSteps \/ HarnessSteps \/ Faults \/ \E p \in Providers: Fix(p)

Spec == Init /\ [][Next]_vars
\* Only the harness is owed progress: a provider may print, edit or hang as it likes, and what
\* follows the implementation may come or not.
FairSpec == Spec /\ WF_vars(HarnessSteps)

(***************************************************************************)
(* Properties.                                                             *)
(***************************************************************************)
\* A person's file that git does not know is out of the rollback's hands once a provider staged it.
Staged(t, u) == {p \in Project: u[p].index = Missing /\ u[p].work # Missing /\ t[p].index # Missing}
Same(t, u) == \A p \in Project \ (Large \cup Staged(t, u)): t[p].work = u[p].work

\* No process of a call outlives the call: a finished, stopped or overdue provider is dead when
\* its attempt is judged, unless the harness itself failed (_launch).
NoneOutlivesItsCall == at \notin {"working", "fixing"} => ~child.alive

\* A rollback that reports success has put every file back to the bytes the task found, the
\* person's own unfinished work included, whatever providers did to worktree and index, but for
\* what they staged of files git did not know (restore_repository_to_baseline).
RollbackIsExact ==
  [][(at \in {"judge", "fixing"} /\ at' \in {"attempt", "failed"}) => Same(tree', start)]_vars

\* The loop is what the rest of the program takes it for (module AttemptLoop): no provider twice,
\* each on a clean checkout, failure undone or reported, as long as the harness itself is sound,
\* and an end to it in any case.
Loop == INSTANCE AttemptLoop WITH
  Resources <- Providers, Limit <- MaxAttempts, stage <- IF at = "inferring" THEN "working" ELSE at,
  tried <- run.tried, n <- run.n, clean <- Same(tree, start), lost <- faults > 0
ImplementsLoop == Loop!Spec
=============================================================================
