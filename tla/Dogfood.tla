-------------------------------- MODULE Dogfood --------------------------------
(***************************************************************************)
(* The dogfood marathon (synthesis/marathon.py, run_marathon): one process   *)
(* synthesises a campaign's benchmarks in turn.  A failure becomes a          *)
(* framework gap, and a governed task that changes the framework itself, only *)
(* on deterministic proof or when a second provider fails the same way.  Once *)
(* every cloud provider has run out, the local model works through the gaps   *)
(* that are left, within a budget that outlives the process.                  *)
(*                                                                          *)
(* The governed task is one step here, with the outcomes Campaign's has.      *)
(***************************************************************************)
EXTENDS Synthesis

CONSTANTS
  MaxIterations,   \* benchmarks one run may attempt
  UntilExhausted,  \* whether the operator asked to run until the providers are exhausted
  SafetyCeiling,   \* what MaxIterations is raised to if so (100)
  Confirmations,   \* framework_gap_confirmations_required
  LocalLimit,      \* local_only_iteration_limit
  Avoided          \* the provider the operator asked to avoid, or Nobody

ASSUME DogfoodAssumption ==
  /\ MaxIterations \in Nat /\ SafetyCeiling \in Nat /\ UntilExhausted \in BOOLEAN
  /\ Confirmations \in Nat /\ LocalLimit \in Nat
  /\ Avoided \in Clouds \cup {Nobody}

VARIABLES
  camp,    \* the process: its loop and the campaign state it holds in memory
  disk     \* campaign_state.json

dogVars == <<camp, disk, synVars>>

NewState == [exists |-> FALSE, scope |-> {}, ok |-> {}, bundle |-> [b \in Benchmarks |-> "none"],
             gaps |-> {}, resolved |-> {}, parked |-> {}, localUsed |-> 0, lowRam |-> FALSE]

Down == [pc |-> "down", mem |-> NewState, todo |-> {}, iter |-> 0, bench |-> 0,
         tried |-> {}, confirmed |-> 0, signature |-> <<"none", "none">>, failing |-> Nobody,
         success |-> FALSE, exhausted |-> FALSE, dir |-> "main", pending |-> {}]

DogfoodInit ==
  /\ camp = Down /\ disk = NewState /\ syn = Idle /\ out = {}
  /\ dirs = [d \in Benchmarks \X {"main", "falsify"} |-> Nothing]
  /\ seen = [faults |-> 0, proof |-> FALSE, failed |-> {}, ran |-> {}, local |-> 0, lost |-> 0]

Advance(pc) == camp' = [camp EXCEPT !.pc = pc]

-----------------------------------------------------------------------------
(* Start and resume. *)

\* Benchmarks that already succeeded are skipped; those that failed are retried.
Remaining(scope) == scope \ disk.ok

\* What the operator names now widens a campaign's scope and never narrows it.
Extended(scope, named) == scope \cup named

\* A new campaign takes what the operator names; a resumed one keeps its own scope and
\* adds to it only what the operator names now, and sees every provider afresh.
Start ==
  /\ camp.pc = "down"
  /\ \E named \in (SUBSET Benchmarks) :
       LET scope == Extended(disk.scope, named) IN
       /\ scope # {}
       /\ camp' = [Down EXCEPT !.pc = "loop", !.mem = [disk EXCEPT !.exists = TRUE, !.scope = scope],
                               !.todo = Remaining(scope)]
  /\ out' = IF disk.exists THEN {} ELSE out
  /\ UNCHANGED <<disk, syn, dirs, seen>>

-----------------------------------------------------------------------------
(* The benchmark loop. *)

\* The run is finite whatever the operator asks for.
Ceiling == IF UntilExhausted /\ MaxIterations < SafetyCeiling THEN SafetyCeiling ELSE MaxIterations

NextBenchmark ==
  /\ camp.pc = "loop" /\ camp.iter < Ceiling /\ camp.todo # {}
  /\ LET b == Minimum(camp.todo) IN
     /\ camp' = [camp EXCEPT !.pc = IF AllExhausted THEN "drain" ELSE "first",
                             !.todo = @ \ {b}, !.iter = @ + 1, !.bench = b, !.dir = "main",
                             !.tried = {}, !.confirmed = 0, !.success = FALSE,
                             !.exhausted = FALSE]
     /\ syn' = IF AllExhausted THEN syn ELSE Request(b, "main", Nobody, Avoided)
  /\ disk' = camp.mem
  /\ seen' = [seen EXCEPT !.proof = FALSE, !.failed = {}, !.ran = {}]
  /\ UNCHANGED <<dirs, out>>

\* The scope is worked off, or the ceiling is reached.
LoopEnds ==
  /\ camp.pc = "loop" /\ (camp.todo = {} \/ camp.iter >= Ceiling)
  /\ Advance("finish")
  /\ UNCHANGED <<disk, synVars>>

\* Ghost: who was asked, who answered in the end, and how the answer failed.
Failure(asked) == [asked |-> asked, by |-> syn.maker, as |-> Signature(syn)]

\* The first result: done, proven to be the framework's, or to be falsified.
FirstResult ==
  /\ camp.pc = "first" /\ syn.pc = "done"
  /\ camp' = [camp EXCEPT
       !.pc = IF Success(syn) THEN "result" ELSE IF Proof(syn) THEN "gap" ELSE "falsify",
       !.success = Success(syn), !.exhausted = syn.status = "PROVIDER_POOL_EXHAUSTED",
       !.failing = syn.maker, !.tried = {syn.maker} \ {Nobody}, !.signature = Signature(syn)]
  /\ seen' = [seen EXCEPT
       !.proof = @ \/ (~Success(syn) /\ Proof(syn)),
       !.failed = IF Success(syn) THEN @ ELSE {Failure(syn.maker)}]
  /\ syn' = Idle
  /\ UNCHANGED <<disk, dirs, out>>

\* Who may confirm: nobody asked for this benchmark before.
Independent == Candidates \ camp.tried

\* The failure is confirmed often enough, or another provider is asked, or there is none.
Falsify ==
  /\ camp.pc = "falsify"
  /\ IF camp.confirmed >= Confirmations THEN Advance("gap") /\ UNCHANGED syn
     ELSE IF Independent = {} THEN Advance("unproven") /\ UNCHANGED syn
     ELSE LET provider == Ranked(Independent, Nobody, Nobody) IN
          /\ camp' = [camp EXCEPT !.pc = "confirm", !.tried = @ \cup {provider}]
          /\ syn' = Request(camp.bench, "falsify", provider, camp.failing)
  /\ UNCHANGED <<disk, dirs, out, seen>>

\* Mutant of SameSymptom: any second failure will do.
AnyFailure(signature) == TRUE
\* The second failure confirms the first only if it is the same.
SameSymptom(signature) == signature = camp.signature

\* Mutant of BundleDir: a rescued benchmark still points at its own directory.
MainDir == "main"
\* A product is where it was built.
BundleDir == syn.dir

Confirm ==
  /\ camp.pc = "confirm" /\ syn.pc = "done"
  /\ camp' = CASE Success(syn) ->
                    [camp EXCEPT !.pc = "result", !.success = TRUE, !.exhausted = FALSE,
                                 !.dir = BundleDir]
               [] ~Success(syn) /\ Proof(syn) -> [camp EXCEPT !.pc = "gap"]
               [] ~Success(syn) /\ ~Proof(syn) /\ SameSymptom(Signature(syn)) ->
                    [camp EXCEPT !.pc = "falsify", !.confirmed = @ + 1]
               [] OTHER -> [camp EXCEPT !.pc = "unproven"]
  /\ seen' = [seen EXCEPT
       !.proof = @ \/ (~Success(syn) /\ Proof(syn)),
       !.failed = IF Success(syn) THEN @ ELSE @ \cup {Failure(syn.prefer)}]
  /\ syn' = Idle
  /\ UNCHANGED <<disk, dirs, out>>

\* Not enough to modify the framework: the failure is put down to the provider.
RecordUnproven ==
  /\ camp.pc = "unproven"
  /\ disk' = camp.mem /\ Advance("result")
  /\ UNCHANGED synVars

Task(b, iter) == <<b, iter>>

\* The gap goes on record, and a governed task against it is begun unless one of the
\* same name is parked: the benchmark is then left without a result.
RecordGap ==
  /\ camp.pc = "gap"
  /\ LET mem == [camp.mem EXCEPT !.gaps = @ \cup {camp.bench}] IN
     IF Task(camp.bench, camp.iter) \in mem.parked
     THEN disk' = mem /\ camp' = [camp EXCEPT !.pc = "loop", !.mem = mem]
     ELSE camp' = [camp EXCEPT !.pc = "engineer", !.mem = mem] /\ UNCHANGED disk
  /\ UNCHANGED synVars

\* A park stops the run only if nothing else is left: no other gap, no other benchmark.
BlocksOtherWork(mem) ==
  /\ mem.gaps \ mem.resolved \subseteq {camp.bench}
  /\ mem.scope \subseteq mem.ok

\* The governed task ends.  Its attempts are saved as they are made; a merged change
\* lets the benchmark be tried once more.
Engineer ==
  /\ camp.pc = "engineer"
  /\ \/ /\ disk' = camp.mem /\ Advance("retry")
        /\ syn' = Request(camp.bench, "main", Nobody, Avoided)
     \/ /\ LET mem == [camp.mem EXCEPT !.parked = @ \cup {Task(camp.bench, camp.iter)}] IN
           /\ disk' = mem
           /\ camp' = [camp EXCEPT !.pc = IF BlocksOtherWork(mem) THEN "finish" ELSE "result",
                                   !.mem = mem]
        /\ UNCHANGED syn
     \/ disk' = camp.mem /\ Advance("result") /\ UNCHANGED syn
  /\ UNCHANGED <<dirs, out, seen>>

RetryResult ==
  /\ camp.pc = "retry" /\ syn.pc = "done"
  /\ camp' = [camp EXCEPT !.pc = "result", !.success = Success(syn),
                          !.exhausted = @ /\ ~Success(syn), !.dir = "main"]
  /\ syn' = Idle
  /\ UNCHANGED <<disk, dirs, out, seen>>

\* The benchmark's result is saved before the next is taken; a pool that ran out ends
\* the loop.
RecordResult ==
  /\ camp.pc = "result"
  /\ LET mem == [camp.mem EXCEPT !.ok = IF camp.success THEN @ \cup {camp.bench} ELSE @,
                   !.bundle[camp.bench] = IF camp.success THEN camp.dir ELSE @] IN
     /\ disk' = mem
     /\ camp' = [Down EXCEPT !.pc = IF camp.exhausted THEN "drain" ELSE "loop", !.mem = mem,
                             !.todo = camp.todo, !.iter = camp.iter]
  /\ UNCHANGED synVars

-----------------------------------------------------------------------------
(* The local model's share. *)

\* Gaps with no resolution on record, taken once before the first is worked.
PendingGaps == camp.mem.gaps \ camp.mem.resolved

Drain ==
  /\ camp.pc = "drain"
  /\ \/ camp' = [camp EXCEPT !.pc = "local", !.pending = PendingGaps]
     \/ Advance("finish")
  /\ UNCHANGED <<disk, synVars>>

\* Mutant of LocalBudgetReached: each run begins a budget of its own.
OwnBudget == camp.mem.localUsed - disk.localUsed >= LocalLimit
LocalBudgetReached == camp.mem.localUsed >= LocalLimit

\* No gap, no budget or no memory left.
LocalEnds ==
  /\ camp.pc = "local"
  /\ camp.pending = {} \/ LocalBudgetReached \/ camp.mem.lowRam
  /\ Advance("finish")
  /\ disk' = camp.mem
  /\ UNCHANGED synVars

\* One gap: the attempt is counted before it is made.
LocalBegin ==
  /\ camp.pc = "local" /\ camp.pending # {} /\ ~LocalBudgetReached /\ ~camp.mem.lowRam
  /\ LET gap == Minimum(camp.pending) IN
     IF Task(gap, 0) \in camp.mem.parked
     THEN camp' = [camp EXCEPT !.pending = @ \ {gap}] /\ UNCHANGED seen
     ELSE /\ camp' = [camp EXCEPT !.pc = "localWork", !.bench = gap, !.pending = @ \ {gap},
                                  !.mem.localUsed = @ + 1]
          /\ seen' = [seen EXCEPT !.local = @ + 1]
  /\ UNCHANGED <<disk, syn, dirs, out>>

Saved(mem) == disk' = mem /\ camp' = [camp EXCEPT !.pc = "local", !.mem = mem, !.bench = 0]

\* Resolved by the local model, or by a cloud provider that came back (the count then
\* starts again, and the gap is not marked resolved), parked, or failed.
LocalResult ==
  /\ camp.pc = "localWork"
  /\ \E lowRam \in {camp.mem.lowRam, TRUE} :
       LET mem == [camp.mem EXCEPT !.lowRam = lowRam] IN
       \/ /\ Saved([mem EXCEPT !.resolved = @ \cup {camp.bench}]) /\ UNCHANGED seen
       \/ /\ Candidates # {} /\ ~lowRam
          /\ Saved([mem EXCEPT !.localUsed = 0]) /\ seen' = [seen EXCEPT !.local = 0, !.lost = 0]
       \/ /\ ~lowRam /\ Saved([mem EXCEPT !.parked = @ \cup {Task(camp.bench, 0)}]) /\ UNCHANGED seen
       \/ /\ Saved(mem) /\ UNCHANGED seen
  /\ UNCHANGED <<syn, dirs, out>>

Finish ==
  /\ camp.pc = "finish"
  /\ disk' = camp.mem /\ camp' = Down
  /\ UNCHANGED synVars

\* The process is lost with what it had not saved.
Crash ==
  /\ camp.pc # "down" /\ Faulty
  /\ seen' = [seen EXCEPT !.faults = @ + 1,
                          !.lost = @ + (IF camp.pc = "localWork" THEN 1 ELSE 0)]
  /\ camp' = Down /\ syn' = Idle
  /\ UNCHANGED <<disk, dirs, out>>

\* A provider's cooldown ends.
Recovers ==
  \E p \in out : out' = out \ {p} /\ UNCHANGED <<camp, disk, syn, dirs, seen>>

CampaignStep ==
  \/ NextBenchmark \/ LoopEnds \/ FirstResult \/ Falsify \/ Confirm \/ RecordUnproven
  \/ RecordGap \/ Engineer
  \/ RetryResult \/ RecordResult \/ Drain \/ LocalEnds \/ LocalBegin \/ LocalResult \/ Finish

Step == CampaignStep \/ (SynthesisStep /\ UNCHANGED <<camp, disk>>)

DogfoodNext == Start \/ Step \/ Crash \/ Recovers

DogfoodSpec == DogfoodInit /\ [][DogfoodNext]_dogVars

-----------------------------------------------------------------------------
\* A benchmark on record as succeeded has, where its record says, a product that passed
\* every check: also when another provider's attempt rescued it, after restarts, and
\* whatever was attempted since.
BundleIsAccepted ==
  \A b \in disk.ok : disk.bundle[b] # "none" /\ AllPassed(dirs[<<b, disk.bundle[b]>>])

\* Different providers gave one and the same failure, as many as have to confirm it
\* and one more: their own, not what another answered in their place.
Reproduced ==
  \E sign \in {f.as : f \in seen.failed} :
    Cardinality({f.by : f \in {g \in seen.failed : g.as = sign}} \ {Nobody}) > Confirmations

\* Nobody was left to answer, or the provider asked ran out before it did.
CutShort(f) == f.by = Nobody \/ (f.by # f.asked /\ f.asked \in seen.ran)

\* marathon.py:517-521, 1249-1250: a task against the framework begins only on deterministic
\* proof or on one failure that different providers reproduced for this benchmark, except
\* that a provider which runs out while asked lets the code count whatever comes instead.
SelfModificationEarned ==
  camp.pc = "engineer" =>
    seen.proof \/ Reproduced \/ \E f \in seen.failed : CutShort(f)

\* The local model's consecutive attempts stay within the budget across restarts, up
\* to the attempts a crash made the record forget.
LocalBudgetHolds == seen.local <= LocalLimit + seen.lost

=============================================================================
