--------------------------- MODULE CampaignProofs ---------------------------
(***************************************************************************)
(* For any number of tasks, providers, polls and faults: the envelope's     *)
(* merge budget holds across crashes, restarts and renewed grants, the      *)
(* records claim only what was so, and no commit mixes two attempts.        *)
(*                                                                          *)
(* The process counts in memory what it has spent and on disk what it will  *)
(* remember.  The two are apart between a merge and CountMerge, and only    *)
(* there, which is where a crash loses one.                                 *)
(***************************************************************************)
EXTENDS Campaign, WellFoundedInduction, TLAPS

RunFields == {"pc", "kind", "env", "used", "skip", "worked", "task", "provider", "tried", "base",
              "delta", "rec", "head", "checks", "polls", "life", "result"}
SavedFields == {"exists", "completed", "failed", "parked", "merges", "recs", "stop"}
SeenFields == {"pushed", "green", "merges", "lost", "faults", "crashes"}

RunShape == run = [f \in RunFields |-> run[f]] /\ run.used \in Nat
SavedShape == saved = [f \in SavedFields |-> saved[f]] /\ saved.merges \in Nat
SeenShape == seen = [f \in SeenFields |-> seen[f]] /\ seen.merges \in Nat /\ seen.lost \in Nat

Shape == RunShape /\ SavedShape /\ SeenShape

Uncounted == IF run.pc = "count" THEN 1 ELSE 0

(* What has landed is within the budget, remembered on disk but for the one *)
(* that is about to be, and known to the running process.                   *)
CountInv ==
  /\ BudgetHolds
  /\ seen.merges <= saved.merges + seen.lost + Uncounted
  /\ run.pc # "down" => seen.merges <= run.used + seen.lost

BudgetInv == Shape /\ CountInv

-----------------------------------------------------------------------------
(* The pieces the actions are made of, by what they leave of the counts.    *)

SeenKept == SeenShape' /\ seen'.merges = seen.merges /\ seen'.lost = seen.lost
SavedKept == SavedShape' /\ saved'.merges = saved.merges
RunKept == RunShape' /\ run'.used = run.used

LEMMA FinishKeeps ==
  ASSUME RunShape, NEW result, Finish(result)
  PROVE  RunKept /\ run'.pc = "record"
BY DEF RunShape, RunKept, RunFields, Finish

LEMMA GotoKeeps ==
  ASSUME RunShape, NEW pc, Goto(pc)
  PROVE  RunKept /\ run'.pc = pc
BY DEF RunShape, RunKept, RunFields, Goto

LEMMA PersistKeeps ==
  ASSUME SavedShape, NEW rec, PersistRecord(rec)
  PROVE  SavedKept
BY DEF SavedShape, SavedKept, SavedFields, PersistRecord

LEMMA BailKeeps ==
  ASSUME RunShape, SavedShape, Bail
  PROVE  RunKept /\ SavedKept /\ run'.pc = "record"
BY FinishKeeps, PersistKeeps DEF Bail

LEMMA ProceedKeeps ==
  ASSUME RunShape, SavedShape, NEW pc, NEW rec, Proceed(pc, rec)
  PROVE  RunKept /\ SavedKept /\ run'.pc = pc
<1>1. RunKept /\ run'.pc = pc
  BY DEF RunShape, RunKept, RunFields, Proceed
<1>2. QED
  BY <1>1, PersistKeeps DEF Proceed

LEMMA StruckKeeps ==
  ASSUME SeenShape, NEW outcome
  PROVE  LET s == Struck(seen, outcome) IN
         /\ s = [f \in SeenFields |-> s[f]]
         /\ s.merges = seen.merges /\ s.lost = seen.lost
BY DEF SeenShape, SeenFields, Struck

LEMMA StrikeKeeps ==
  ASSUME SeenShape, NEW outcome, Strike(outcome)
  PROVE  SeenKept
BY StruckKeeps DEF SeenShape, SeenKept, Strike

LEMMA FaultKeeps ==
  ASSUME SeenShape, Fault
  PROVE  SeenKept
BY DEF SeenShape, SeenKept, SeenFields, Fault

LEMMA SameSeen == ASSUME SeenShape, UNCHANGED seen PROVE SeenKept
BY DEF SeenShape, SeenKept

LEMMA SameSaved == ASSUME SavedShape, UNCHANGED saved PROVE SavedKept
BY DEF SavedShape, SavedKept

-----------------------------------------------------------------------------
(* Steps that leave the counts alone and are not taken between a merge and  *)
(* its count.                                                               *)

Framed ==
  /\ RunKept /\ SavedKept /\ SeenKept
  /\ run.pc \notin {"down", "count"} /\ run'.pc # "count"

LEMMA FramedInv == BudgetInv /\ Framed => BudgetInv'
BY DEF BudgetInv, Framed, CountInv, Shape, Uncounted, BudgetHolds, RunKept, SavedKept, SeenKept

LEMMA AdmitFramed == Shape /\ Admit => Framed
<1> SUFFICES ASSUME Shape, Admit PROVE Framed
  OBVIOUS
<1>1. SavedKept /\ SeenKept
  BY SameSaved, SameSeen DEF Shape, Admit
<1>2. RunKept /\ run'.pc \in {"record", "attempt"}
  <2>1. CASE Finish("failed") \/ Finish("parked")
    BY <2>1, FinishKeeps DEF Shape
  <2>2. CASE run' = [run EXCEPT !.pc = "attempt", !.provider = Minimum(Candidates),
                                !.tried = {Minimum(Candidates)}, !.base = tree.work,
                                !.rec = NewRecord]
    BY <2>2 DEF Shape, RunShape, RunKept, RunFields
  <2>3. QED
    BY <2>1, <2>2 DEF Admit
<1>3. QED
  BY <1>1, <1>2 DEF Framed, Admit

LEMMA HandOverKeeps ==
  ASSUME Shape, NEW pool, NEW work, HandOver(pool, work)
  PROVE  RunKept /\ SavedKept /\ run'.pc \in {"record", run.pc}
<1>1. CASE Unasked(pool) = {}
  BY <1>1, BailKeeps DEF Shape, HandOver
<1>2. CASE Unasked(pool) # {}
  BY <1>2, SameSaved DEF HandOver, Shape, RunShape, RunKept, RunFields
<1>3. QED
  BY <1>1, <1>2

LEMMA AttemptFramed ==
  Shape /\ (Exhausted \/ BudgetSpent \/ AttemptFails \/ AttemptCompletes) => Framed
<1> SUFFICES ASSUME Shape, Exhausted \/ BudgetSpent \/ AttemptFails \/ AttemptCompletes
             PROVE  Framed
  OBVIOUS
<1> USE DEF Shape
<1>1. CASE Exhausted
  <2>1. PICK pool, work : HandOver(pool, work)
    BY <1>1 DEF Exhausted
  <2>2. QED
    BY <1>1, <2>1, HandOverKeeps, FaultKeeps DEF Exhausted, Framed
<1>2. CASE BudgetSpent
  <2>1. (\E pool, work : HandOver(pool, work)) \/ Bail
    BY <1>2 DEF BudgetSpent
  <2>2. RunKept /\ SavedKept /\ run'.pc \in {"record", run.pc}
    BY <2>1, HandOverKeeps, BailKeeps
  <2>3. QED
    BY <1>2, <2>2, FaultKeeps DEF BudgetSpent, Framed
<1>3. CASE AttemptFails
  BY <1>3, BailKeeps, FaultKeeps DEF AttemptFails, Framed
<1>4. CASE AttemptCompletes
  <2>1. \/ Bail
        \/ Finish("parked") /\ PersistRecord(run.rec)
        \/ \E delta : run' = [run EXCEPT !.pc = "branch", !.delta = delta] /\ UNCHANGED saved
    BY <1>4 DEF AttemptCompletes
  <2>2. RunKept /\ SavedKept /\ run'.pc \in {"record", "branch"}
    <3>1. CASE Bail
      BY <3>1, BailKeeps
    <3>2. CASE Finish("parked") /\ PersistRecord(run.rec)
      BY <3>2, FinishKeeps, PersistKeeps
    <3>3. CASE \E delta : run' = [run EXCEPT !.pc = "branch", !.delta = delta] /\ UNCHANGED saved
      BY <3>3, SameSaved DEF RunShape, RunKept, RunFields
    <3>4. QED
      BY <2>1, <3>1, <3>2, <3>3
  <2>3. QED
    BY <1>4, <2>2, SameSeen DEF AttemptCompletes, Framed
<1>5. QED
  BY <1>1, <1>2, <1>3, <1>4

(* The ghosts of a push keep the counts too.                                *)
LEMMA PushedKeeps ==
  ASSUME SeenShape, NEW pushed, seen' = [seen EXCEPT !.pushed = pushed]
  PROVE  SeenKept
BY DEF SeenShape, SeenKept, SeenFields

LEMMA BranchFramed ==
  Shape /\ (CreateBranch \/ Commit \/ Push \/ OpenPullRequest) => Framed
<1> SUFFICES ASSUME Shape, CreateBranch \/ Commit \/ Push \/ OpenPullRequest
             PROVE  Framed
  OBVIOUS
<1> USE DEF Shape
<1>1. CASE CreateBranch
  <2>1. Bail \/ \E rec : Proceed("commit", rec)
    BY <1>1 DEF CreateBranch
  <2>2. SeenKept
    BY <1>1, StrikeKeeps DEF CreateBranch
  <2>3. QED
    BY <1>1, <2>1, <2>2, BailKeeps, ProceedKeeps DEF CreateBranch, Framed
<1>2. CASE Commit
  <2>1. Bail \/ \E rec : Proceed("push", rec)
    BY <1>2 DEF Commit
  <2>2. SeenKept
    BY <1>2, StrikeKeeps DEF Commit
  <2>3. QED
    BY <1>2, <2>1, <2>2, BailKeeps, ProceedKeeps DEF Commit, Framed
<1>3. CASE Push
  <2>1. \/ Bail \/ \E rec : Proceed("open", rec)
        \/ Finish("parked") /\ PersistRecord(run.rec)
    BY <1>3 DEF Push
  <2>2. RunKept /\ SavedKept /\ run'.pc \in {"record", "open"}
    BY <2>1, BailKeeps, ProceedKeeps, FinishKeeps, PersistKeeps
  <2>3. \/ UNCHANGED seen
        \/ \E outcome : Strike(outcome)
        \/ \E pushed : seen' = [seen EXCEPT !.pushed = pushed]
    BY <1>3 DEF Push
  <2>4. SeenKept
    BY <2>3, SameSeen, StrikeKeeps, PushedKeeps
  <2>5. QED
    BY <1>3, <2>2, <2>4 DEF Push, Framed
<1>4. CASE OpenPullRequest
  <2>1. Bail \/ \E rec : Proceed("ciBefore", rec)
    BY <1>4 DEF OpenPullRequest
  <2>2. UNCHANGED seen \/ \E outcome : Strike(outcome)
    BY <1>4 DEF OpenPullRequest
  <2>3. SeenKept
    BY <2>2, SameSeen, StrikeKeeps
  <2>4. QED
    BY <1>4, <2>1, <2>3, BailKeeps, ProceedKeeps DEF OpenPullRequest, Framed
<1>5. QED
  BY <1>1, <1>2, <1>3, <1>4

LEMMA ObserveFramed ==
  Shape /\ (ReadHead \/ ReadChecks \/ Observe) => Framed
<1> SUFFICES ASSUME Shape, ReadHead \/ ReadChecks \/ Observe
             PROVE  Framed
  OBVIOUS
<1> USE DEF Shape
<1>1. CASE ReadHead
  BY <1>1, SameSaved, SameSeen DEF ReadHead, Framed, RunShape, RunKept, RunFields
<1>2. CASE ReadChecks
  BY <1>2, SameSaved, SameSeen DEF ReadChecks, Framed, RunShape, RunKept, RunFields
<1>3. CASE Observe
  <2>1. SavedKept
    <3>1. UNCHANGED saved \/ \E rec : PersistRecord(rec)
      BY <1>3 DEF Observe
    <3>2. QED
      BY <3>1, SameSaved, PersistKeeps
  <2>2. \/ \E polls : run' = [run EXCEPT !.pc = "ciBefore", !.polls = polls,
                                         !.head = None, !.checks = "none"]
        \/ \E rec : run' = [run EXCEPT !.pc = "merge", !.rec = rec, !.head = None, !.checks = "none"]
        \/ \E rec : run' = [run EXCEPT !.pc = "record", !.result = "failed", !.rec = rec,
                                       !.head = None, !.checks = "none"]
    BY <1>3 DEF Observe
  <2>3. RunKept /\ run'.pc \in {"ciBefore", "merge", "record"}
    BY <2>2 DEF RunShape, RunKept, RunFields
  <2>4. QED
    BY <1>3, <2>1, <2>3, SameSeen DEF Observe, Framed
<1>4. QED
  BY <1>1, <1>2, <1>3

(* After the count: the merge is verified, or the process ends.             *)
LEMMA VerifyFramed ==
  Shape /\ (VerifyMain \/ SyncMain) => Framed
<1> SUFFICES ASSUME Shape, VerifyMain \/ SyncMain PROVE Framed
  OBVIOUS
<1> USE DEF Shape
<1>1. CASE VerifyMain
  <2>1. SeenKept
    BY <1>1, StrikeKeeps DEF VerifyMain
  <2>2. (Goto("down") /\ UNCHANGED saved) \/ Bail \/ \E rec : Proceed("sync", rec)
    BY <1>1 DEF VerifyMain
  <2>3. RunKept /\ SavedKept /\ run'.pc \in {"down", "record", "sync"}
    BY <2>2, GotoKeeps, SameSaved, BailKeeps, ProceedKeeps
  <2>4. QED
    BY <1>1, <2>1, <2>3 DEF VerifyMain, Framed
<1>2. CASE SyncMain
  <2>1. SeenKept
    BY <1>2, StrikeKeeps DEF SyncMain
  <2>2. PICK rec, result : /\ run' = [run EXCEPT !.pc = "record", !.rec = rec, !.result = result]
                           /\ PersistRecord(rec)
    BY <1>2 DEF SyncMain
  <2>3. RunKept /\ run'.pc = "record"
    BY <2>2 DEF RunShape, RunKept, RunFields
  <2>4. QED
    BY <1>2, <2>1, <2>2, <2>3, PersistKeeps DEF SyncMain, Framed
<1>3. QED
  BY <1>1, <1>2

-----------------------------------------------------------------------------
(* The steps that count.                                                    *)

LEMMA MergedCounts ==
  ASSUME RunShape,
         run' = [run EXCEPT !.pc = "count", !.used = @ + 1, !.rec.merge = TRUE, !.rec.sha = TRUE]
  PROVE  RunShape' /\ run'.pc = "count" /\ run'.used = run.used + 1
<1>1. run' = [f \in RunFields |-> run'[f]]
  BY DEF RunShape, RunFields
<1>2. run'.pc = "count" /\ run'.used = run.used + 1
  BY DEF RunShape, RunFields
<1>3. QED
  BY <1>1, <1>2 DEF RunShape, RunFields

LEMMA LandedCounts ==
  ASSUME SeenShape, NEW outcome, NEW lost \in Nat,
         seen' = [Struck(seen, outcome) EXCEPT !.merges = @ + 1, !.lost = @ + lost]
  PROVE  SeenShape' /\ seen'.merges = seen.merges + 1 /\ seen'.lost = seen.lost + lost
<1>1. PICK s : /\ s = [f \in SeenFields |-> s[f]]
               /\ s.merges = seen.merges /\ s.lost = seen.lost
               /\ seen' = [s EXCEPT !.merges = @ + 1, !.lost = @ + lost]
  BY StruckKeeps
<1>2. seen' = [f \in SeenFields |-> seen'[f]]
  BY <1>1 DEF SeenFields
<1>3. seen'.merges = seen.merges + 1 /\ seen'.lost = seen.lost + lost
  BY <1>1 DEF SeenFields
<1>4. QED
  BY <1>2, <1>3 DEF SeenShape, SeenFields

(* A merge that lands is within the budget, because the process knew of     *)
(* every merge that was not lost; one that is not seen is lost.             *)
LEMMA MergeInv == BudgetInv /\ Merge => BudgetInv'
<1> SUFFICES ASSUME BudgetInv, Merge PROVE BudgetInv'
  OBVIOUS
<1> USE DEF Shape
<1>0. Shape /\ CountInv /\ run.pc = "merge"
  BY DEF BudgetInv, Merge
<1>1. CASE Bail /\ UNCHANGED seen
  <2>1. Framed
    BY <1>0, <1>1, BailKeeps, SameSeen DEF Framed
  <2>2. QED
    BY <2>1, FramedInv
<1>2. CASE \E rec : Proceed("count", rec) /\ UNCHANGED seen
  <2>1. RunKept /\ SavedKept /\ SeenKept /\ run'.pc = "count"
    BY <1>0, <1>2, ProceedKeeps, SameSeen
  <2>2. QED
    BY <1>0, <2>1 DEF BudgetInv, CountInv, Uncounted, BudgetHolds, RunKept, SavedKept, SeenKept,
                      RunShape, SavedShape, SeenShape
<1>3. ASSUME Delegated("merge"), NEW outcome, NEW lands \in BOOLEAN,
             lands => outcome \in {"done", "unseen"},
             LET told == IF outcome = "done" /\ ~lands THEN "failed" ELSE outcome IN
             /\ IF told # "unseen" /\ Confirmed(told)
                THEN /\ run' = [run EXCEPT !.pc = "count", !.used = @ + 1,
                                           !.rec.merge = TRUE, !.rec.sha = TRUE]
                     /\ PersistRecord([run.rec EXCEPT !.merge = TRUE, !.sha = TRUE])
                ELSE Bail
             /\ IF lands
                THEN seen' = [Struck(seen, outcome) EXCEPT !.merges = @ + 1,
                                !.lost = @ + (IF outcome = "unseen" THEN 1 ELSE 0)]
                ELSE Strike(outcome)
      PROVE  BudgetInv'
  <2>0. run.used < MaxMerges
    BY <1>3 DEF Delegated, Covered
  <2>1. CASE ~lands
    <3>1. Bail
      BY <1>3, <2>1 DEF Confirmed
    <3>2. Framed
      BY <1>0, <1>3, <2>1, <3>1, BailKeeps, StrikeKeeps DEF Framed
    <3>3. QED
      BY <3>2, FramedInv
  <2>2. CASE lands /\ outcome = "done"
    <3>1. RunShape' /\ run'.pc = "count" /\ run'.used = run.used + 1
      BY <1>0, <1>3, <2>2, MergedCounts DEF Confirmed
    <3>2. SavedKept
      BY <1>0, <1>3, <2>2, PersistKeeps DEF Confirmed
    <3>3. SeenShape' /\ seen'.merges = seen.merges + 1 /\ seen'.lost = seen.lost + 0
      BY <1>0, <1>3, <2>2, LandedCounts
    <3>4. QED
      BY <1>0, <2>0, <3>1, <3>2, <3>3, GitAssumption
      DEF BudgetInv, CountInv, Uncounted, BudgetHolds, SavedKept, RunShape, SavedShape, SeenShape
  <2>3. CASE lands /\ outcome = "unseen"
    <3>1. RunKept /\ SavedKept /\ run'.pc = "record"
      BY <1>0, <1>3, <2>3, BailKeeps
    <3>2. SeenShape' /\ seen'.merges = seen.merges + 1 /\ seen'.lost = seen.lost + 1
      BY <1>0, <1>3, <2>3, LandedCounts
    <3>3. QED
      BY <1>0, <3>1, <3>2, GitAssumption
      DEF BudgetInv, CountInv, Uncounted, BudgetHolds, RunKept, SavedKept,
          RunShape, SavedShape, SeenShape
  <2>4. QED
    BY <1>3, <2>1, <2>2, <2>3
<1>4. QED
  <2>1. CASE ~Delegated("merge")
    BY <1>1, <2>1 DEF Merge
  <2>2. CASE Delegated("merge") /\ MergeStatus = "already_executed"
    BY <1>2, <2>2 DEF Merge
  <2>3. CASE Delegated("merge") /\ MergeStatus # "already_executed"
    <3>1. PICK outcome \in Doubtful \cup (IF Faulty THEN {"unseen"} ELSE {}) :
            LET lands == outcome \in {"done", "unseen"} /\ Mergeable(run.task)
                told == IF outcome = "done" /\ ~lands THEN "failed" ELSE outcome IN
            /\ IF told # "unseen" /\ Confirmed(told)
               THEN /\ run' = [run EXCEPT !.pc = "count", !.used = @ + 1,
                                          !.rec.merge = TRUE, !.rec.sha = TRUE]
                    /\ PersistRecord([run.rec EXCEPT !.merge = TRUE, !.sha = TRUE])
               ELSE Bail
            /\ IF lands
               THEN seen' = [Struck(seen, outcome) EXCEPT !.merges = @ + 1,
                               !.lost = @ + (IF outcome = "unseen" THEN 1 ELSE 0)]
               ELSE Strike(outcome)
      BY <2>3 DEF Merge
    <3>2. CASE Mergeable(run.task) /\ outcome \in {"done", "unseen"}
      BY <1>3, <2>3, <3>1, <3>2
    <3>3. CASE ~(Mergeable(run.task) /\ outcome \in {"done", "unseen"})
      BY <1>3, <2>3, <3>1, <3>3
    <3>4. QED
      BY <3>2, <3>3
  <2>4. QED
    BY <2>1, <2>2, <2>3

LEMMA CountMergeInv == BudgetInv /\ CountMerge => BudgetInv'
<1> SUFFICES ASSUME BudgetInv, CountMerge PROVE BudgetInv'
  OBVIOUS
<1>1. RunKept /\ run'.pc = "verify"
  BY GotoKeeps DEF BudgetInv, Shape, CountMerge
<1>2. SavedShape' /\ saved'.merges = saved.merges + 1
  BY DEF BudgetInv, Shape, CountMerge, SavedShape, SavedFields
<1>3. SeenKept
  BY SameSeen DEF BudgetInv, Shape, CountMerge
<1>4. QED
  BY <1>1, <1>2, <1>3
  DEF BudgetInv, Shape, CountMerge, CountInv, Uncounted, BudgetHolds, RunKept, SeenKept,
      SavedShape, SeenShape

-----------------------------------------------------------------------------
(* The world: it touches neither the process's count nor the durable one.   *)

Beside == RunKept /\ run'.pc = run.pc /\ SavedKept /\ SeenKept

LEMMA BesideInv == BudgetInv /\ Beside => BudgetInv'
BY DEF BudgetInv, Beside, CountInv, Shape, Uncounted, BudgetHolds, RunKept, SavedKept, SeenKept

LEMMA SameRun == ASSUME RunShape, UNCHANGED run PROVE RunKept /\ run'.pc = run.pc
BY DEF RunShape, RunKept

LEMMA WorldBeside == Shape /\ World => Beside
<1> SUFFICES ASSUME Shape, World PROVE Beside
  OBVIOUS
<1> USE DEF Shape
<1>1. SavedKept
  BY SameSaved DEF World, ChecksReport, HeadMoves, PersonMerges, PersonEdits, HooksChange,
                   EnvelopeAges, Recovers
<1>2. RunKept /\ run'.pc = run.pc
  <2>1. \/ UNCHANGED run
        \/ run' = [run EXCEPT !.env = IF @ = "live" THEN "expired" ELSE @]
    BY DEF World, ChecksReport, HeadMoves, PersonMerges, PersonEdits, HooksChange,
           EnvelopeAges, Recovers
  <2>2. CASE run' = [run EXCEPT !.env = IF @ = "live" THEN "expired" ELSE @]
    BY <2>2 DEF RunShape, RunKept, RunFields
  <2>3. QED
    BY <2>1, <2>2, SameRun
<1>3. SeenKept
  <2>1. CASE ChecksReport
    <3>1. UNCHANGED seen \/ \E green : seen' = [seen EXCEPT !.green = green]
      BY <2>1 DEF ChecksReport
    <3>2. CASE \E green : seen' = [seen EXCEPT !.green = green]
      BY <3>2 DEF SeenShape, SeenKept, SeenFields
    <3>3. QED
      BY <3>1, <3>2, SameSeen
  <2>2. CASE HeadMoves \/ PersonMerges \/ PersonEdits \/ HooksChange \/ EnvelopeAges
    BY <2>2, FaultKeeps DEF HeadMoves, PersonMerges, PersonEdits, HooksChange, EnvelopeAges
  <2>3. CASE Recovers
    BY <2>3, SameSeen DEF Recovers
  <2>4. QED
    BY <2>1, <2>2, <2>3 DEF World
<1>4. QED
  BY <1>1, <1>2, <1>3 DEF Beside

-----------------------------------------------------------------------------
(* The campaign: processes begin with what the disk remembers, and end.     *)

LEMMA DownShape ==
  /\ Down = [f \in RunFields |-> Down[f]]
  /\ Down.pc = "down" /\ Down.used = 0
BY DEF Down, RunFields

LEMMA EndedEnds ==
  ASSUME run' = Down \/ run' = Ended
  PROVE  RunShape' /\ run'.pc = "down"
<1>1. PICK kind : run' = [Down EXCEPT !.kind = kind] \/ run' = Down
  BY DEF Ended
<1>2. QED
  BY <1>1, DownShape DEF RunShape, RunFields

LEMMA BeginKeeps ==
  ASSUME SavedShape, NEW kind, NEW env, NEW pc, NEW skip, NEW task,
         \/ run' = [Executor(kind, env) EXCEPT !.pc = pc, !.skip = skip]
         \/ run' = [Executor(kind, env) EXCEPT !.pc = pc, !.task = task]
  PROVE  RunShape' /\ run'.pc = pc /\ run'.used = saved.merges
BY DownShape DEF SavedShape, RunShape, RunFields, Executor, MergesUsed

LEMMA StartInv == BudgetInv /\ (Start \/ StartCanary) => BudgetInv'
<1> SUFFICES ASSUME BudgetInv, Start \/ StartCanary PROVE BudgetInv'
  OBVIOUS
<1>1. SavedKept /\ SeenKept /\ run.pc = "down"
  BY SameSaved, SameSeen DEF BudgetInv, Shape, Start, StartCanary
<1>2. RunShape' /\ run'.pc \in {"loop", "gate"} /\ run'.used = saved.merges
  <2>1. CASE Start
    <3>1. PICK env : run' = [Executor("backlog", env) EXCEPT !.pc = "loop", !.skip = AlreadyAttempted]
      BY <2>1 DEF Start
    <3>2. QED
      BY <3>1, BeginKeeps DEF BudgetInv, Shape
  <2>2. CASE StartCanary
    <3>1. PICK env : run' = [Executor("canary", env) EXCEPT !.pc = "gate", !.task = Canary]
      BY <2>2 DEF StartCanary
    <3>2. QED
      BY <3>1, BeginKeeps DEF BudgetInv, Shape
  <2>3. QED
    BY <2>1, <2>2
<1>3. QED
  BY <1>1, <1>2
  DEF BudgetInv, Shape, CountInv, Uncounted, BudgetHolds, SavedKept, SeenKept, SavedShape, SeenShape

(* A process that ends or is lost: what it had merged and not yet counted   *)
(* is lost with it.                                                         *)
LEMMA EndInv ==
  ASSUME BudgetInv, RunShape', run'.pc = "down", SavedKept, SeenShape',
         seen'.merges = seen.merges, seen'.lost = seen.lost + Uncounted
  PROVE  BudgetInv'
<1>1. Uncounted \in Nat /\ Uncounted' = 0
  BY DEF Uncounted
<1>2. CountInv'
  BY <1>1, GitAssumption
  DEF BudgetInv, Shape, CountInv, BudgetHolds, SavedKept, SavedShape, SeenShape
<1>3. QED
  BY <1>2 DEF BudgetInv, Shape, SavedKept

LEMMA CampaignInv ==
  BudgetInv /\ (Stops \/ TakeItem \/ RecordItem \/ RecordCanary \/ Crash) => BudgetInv'
<1> SUFFICES ASSUME BudgetInv, Stops \/ TakeItem \/ RecordItem \/ RecordCanary \/ Crash
             PROVE  BudgetInv'
  OBVIOUS
<1>0. Shape
  BY DEF BudgetInv
<1>1. CASE Stops
  <2>1. PICK reason : Stop(reason)
    BY <1>1 DEF Stops
  <2>2. RunShape' /\ run'.pc = "down"
    BY <2>1, EndedEnds DEF Stop
  <2>3. SavedKept
    BY <1>0, <2>1 DEF Stop, Shape, SavedShape, SavedKept, SavedFields
  <2>4. SeenKept
    BY <1>0, <1>1, FaultKeeps, SameSeen DEF Shape, Stops
  <2>5. Uncounted = 0
    BY <1>1 DEF Stops, Uncounted
  <2>6. QED
    BY <1>0, <2>2, <2>3, <2>4, <2>5, EndInv DEF SeenKept, Shape, SeenShape
<1>2. CASE TakeItem
  <2>1. RunKept /\ run'.pc = "gate"
    BY <1>0, <1>2 DEF TakeItem, Shape, RunShape, RunKept, RunFields
  <2>2. Framed
    BY <1>0, <1>2, <2>1, SameSaved, SameSeen DEF TakeItem, Shape, Framed
  <2>3. QED
    BY <2>2, FramedInv
<1>3. CASE RecordItem
  <2>1. RunKept /\ run'.pc = "loop"
    BY <1>0, <1>3 DEF RecordItem, Shape, RunShape, RunKept, RunFields
  <2>2. SavedKept
    BY <1>0, <1>3 DEF RecordItem, Shape, SavedShape, SavedKept, SavedFields
  <2>3. Framed
    BY <1>0, <1>3, <2>1, <2>2, SameSeen DEF RecordItem, Shape, Framed
  <2>4. QED
    BY <2>3, FramedInv
<1>4. CASE RecordCanary
  <2>1. RunShape' /\ run'.pc = "down"
    BY <1>4, EndedEnds DEF RecordCanary
  <2>2. SavedKept
    BY <1>0, <1>4 DEF RecordCanary, Shape, SavedShape, SavedKept, SavedFields
  <2>3. SeenKept /\ Uncounted = 0
    BY <1>0, <1>4, SameSeen DEF RecordCanary, Shape, Uncounted
  <2>4. QED
    BY <1>0, <2>1, <2>2, <2>3, EndInv DEF SeenKept, Shape, SeenShape
<1>5. CASE Crash
  <2>1. RunShape' /\ run'.pc = "down"
    BY <1>5, EndedEnds DEF Crash
  <2>2. SavedKept
    BY <1>0, <1>5, SameSaved DEF Crash, Shape
  <2>3. SeenShape' /\ seen'.merges = seen.merges /\ seen'.lost = seen.lost + Uncounted
    <3>1. seen' = [seen EXCEPT !.crashes = @ + 1, !.faults = @ + 1, !.lost = @ + Uncounted]
      BY <1>5 DEF Crash, Uncounted
    <3>2. Uncounted \in Nat
      BY DEF Uncounted
    <3>3. seen' = [f \in SeenFields |-> seen'[f]]
      BY <1>0, <3>1 DEF Shape, SeenShape, SeenFields
    <3>4. seen'.merges = seen.merges /\ seen'.lost = seen.lost + Uncounted
      BY <1>0, <3>1 DEF Shape, SeenShape, SeenFields
    <3>5. QED
      BY <1>0, <3>2, <3>3, <3>4 DEF Shape, SeenShape, SeenFields
  <2>4. QED
    BY <2>1, <2>2, <2>3, EndInv
<1>6. QED
  BY <1>1, <1>2, <1>3, <1>4, <1>5

LEMMA InitBudget == CampaignInit => BudgetInv
<1> SUFFICES ASSUME CampaignInit PROVE BudgetInv
  OBVIOUS
<1>1. RunShape /\ run.pc = "down"
  BY DownShape DEF CampaignInit, RunShape
<1>2. SavedShape /\ saved.merges = 0
  BY DEF CampaignInit, NewState, SavedShape, SavedFields
<1>3. SeenShape /\ seen.merges = 0 /\ seen.lost = 0
  BY DEF CampaignInit, NewSeen, SeenShape, SeenFields
<1>4. QED
  BY <1>1, <1>2, <1>3, GitAssumption DEF BudgetInv, Shape, CountInv, Uncounted, BudgetHolds

LEMMA StepBudget == BudgetInv /\ [Next]_gitVars => BudgetInv'
<1> SUFFICES ASSUME BudgetInv, [Next]_gitVars PROVE BudgetInv'
  OBVIOUS
<1>1. CASE Start \/ StartCanary
  BY <1>1, StartInv
<1>2. CASE Stops \/ TakeItem \/ RecordItem \/ RecordCanary \/ Crash
  BY <1>2, CampaignInv
<1>3. CASE TaskStep
  <2>1. CASE Merge
    BY <2>1, MergeInv
  <2>2. CASE CountMerge
    BY <2>2, CountMergeInv
  <2>3. CASE ~Merge /\ ~CountMerge
    BY <1>3, <2>3, AdmitFramed, AttemptFramed, BranchFramed, ObserveFramed, VerifyFramed, FramedInv
    DEF BudgetInv, TaskStep
  <2>4. QED
    BY <2>1, <2>2, <2>3
<1>4. CASE World
  BY <1>4, WorldBeside, BesideInv DEF BudgetInv
<1>5. CASE UNCHANGED gitVars
  <2>1. Beside
    BY <1>5, SameRun, SameSaved, SameSeen DEF gitVars, BudgetInv, Shape, Beside
  <2>2. QED
    BY <2>1, BesideInv
<1>6. QED
  BY <1>1, <1>2, <1>3, <1>4, <1>5 DEF Next, CampaignStep

(* The envelope's merge budget holds: however often the process is lost,    *)
(* restarted or given a renewed grant, no more pull requests are merged     *)
(* than the owner granted, up to those it could not see or count            *)
(* (git_integration.py, GitIntegrationExecutor.evaluate; marathon.py,       *)
(* merges_used).                                                            *)
THEOREM MergeBudgetCorrect == Spec => []BudgetHolds
<1>1. BudgetInv => BudgetHolds
  BY DEF BudgetInv, CountInv
<1>2. QED
  BY <1>1, InitBudget, StepBudget, PTL DEF Spec

-----------------------------------------------------------------------------
(* What the records claim.  A record is about commits, and a commit's way   *)
(* is branch, checks, main: the invariant follows it, per task and per step. *)

CommitFields == {"task", "work", "moved"}
RecFields == {"branch", "commit", "push", "pr", "green", "ciHead", "curHead", "merge", "sha",
              "contains", "synced"}
RemoteFields == {"main", "branch", "pr", "checks", "policy"}
TreeFields == {"branch", "work", "hooks"}

IsCommit(c) == c = [f \in CommitFields |-> c[f]] /\ c.moved \in BOOLEAN

Form ==
  /\ tree = [f \in TreeFields |-> tree[f]]
  /\ remote = [f \in RemoteFields |-> remote[f]]
  /\ remote.branch = [t \in Tasks |-> remote.branch[t]]
  /\ remote.pr = [t \in Tasks |-> remote.pr[t]]
  /\ remote.checks = [t \in Tasks |-> remote.checks[t]]
  /\ local = [t \in Tasks |-> local[t]]
  /\ saved.recs = [t \in Tasks |-> saved.recs[t]]
  /\ run.rec = [f \in RecFields |-> run.rec[f]]

(* What a record claims of its task, given what was pushed, what was seen   *)
(* green and what is in main.                                               *)
Holds(rec, t, pushed, green, main) ==
  /\ rec.push => rec.commit \in pushed
  /\ rec.green => rec.ciHead \in green
  /\ rec.merge => \E c \in main : c.task = t

InMain(t, green, main) == \E c \in main : c.task = t /\ c \in green

Pure(work) == \A p, q \in work : (p.by # Person /\ q.by # Person) => p = q

(* A task's remote branch is its local one, pushed; green checks are its    *)
(* head's; its pull request is open only while it is there; and what is     *)
(* merged is in main, checked where the policy says so.                     *)
BranchOf(t) ==
  /\ IsCommit(local[t]) /\ IsCommit(remote.branch[t])
  /\ local[t] # None => local[t].task = t
  /\ Pure(local[t].work)
  /\ remote.branch[t] # None =>
       /\ local[t] # None
       /\ remote.branch[t].task = t /\ remote.branch[t].work = local[t].work
       /\ remote.checks[t] = "green" => remote.branch[t] \in seen.green
  /\ remote.pr[t] = "open" => remote.branch[t] # None
  /\ remote.pr[t] = "merged" =>
       \E c \in remote.main : c.task = t /\ (remote.policy = "enforced" => c \in seen.green)

BranchInv == \A t \in Tasks : BranchOf(t)

TaskInv ==
  /\ run.task \in Tasks \cup {NoTask}
  /\ run.pc \notin {"down", "loop"} => run.task \in Tasks
  /\ run.pc # "down" /\ run.kind = "canary" => run.task = Canary

(* A head that was read is never the branch's again once the branch has     *)
(* moved on from it.                                                        *)
Gone(head, branch) == branch = None \/ (branch.moved /\ ~head.moved)

(* What the process relies on, step by step.                                *)
StepInv ==
  /\ Holds(run.rec, run.task, seen.pushed, seen.green, remote.main)
  /\ run.pc \in {"attempt", "branch", "commit", "push"} => ~run.rec.push
  /\ run.pc = "attempt" => \A p \in tree.work \ run.base : p.by = Person
  /\ run.pc \in {"branch", "commit"} => Pure(run.delta)
  /\ run.pc = "commit" => remote.branch[run.task] = None
  /\ run.pc = "push" =>
       remote.branch[run.task] = None /\ local[run.task] # None /\ run.rec.commit = local[run.task]
  /\ run.pc = "open" => remote.branch[run.task] # None /\ remote.pr[run.task] # "open"
  /\ run.pc \in {"ciChecks", "ciAfter"} => IsCommit(run.head)
  /\ run.pc = "ciChecks" =>
       run.head = None \/ run.head = remote.branch[run.task] \/ Gone(run.head, remote.branch[run.task])
  /\ run.pc = "ciAfter" /\ run.checks = "green" =>
       run.head = None \/ run.head \in seen.green \/ Gone(run.head, remote.branch[run.task])
  /\ run.pc = "merge" => remote.policy = "enforced"
  /\ run.pc \in {"count", "verify", "sync"} \/ (run.pc = "record" /\ run.result = "done") =>
       InMain(run.task, seen.green, remote.main)

RecordInv ==
  /\ \A t \in Tasks : Holds(saved.recs[t], t, seen.pushed, seen.green, remote.main)
  /\ \A t \in saved.completed : InMain(t, seen.green, remote.main)
  /\ saved.stop = "verified" => \E c \in remote.main : c.task = Canary

Known == Form /\ BranchInv /\ TaskInv /\ StepInv /\ RecordInv

-----------------------------------------------------------------------------
(* What was pushed, seen green or merged stays so, and the claims with it.  *)

Grows ==
  /\ seen.pushed \subseteq seen'.pushed /\ seen.green \subseteq seen'.green
  /\ remote.main \subseteq remote'.main /\ remote'.policy = remote.policy

LEMMA HoldsGrows ==
  ASSUME NEW rec, NEW t, NEW p, NEW g, NEW m, NEW p2, NEW g2, NEW m2,
         p \subseteq p2, g \subseteq g2, m \subseteq m2, Holds(rec, t, p, g, m)
  PROVE  Holds(rec, t, p2, g2, m2)
BY DEF Holds

LEMMA InMainGrows ==
  ASSUME NEW t, NEW g, NEW m, NEW g2, NEW m2, g \subseteq g2, m \subseteq m2, InMain(t, g, m)
  PROVE  InMain(t, g2, m2)
BY DEF InMain

(* The state file: unchanged, or with one record more that holds.           *)
LEMMA SavedStays ==
  ASSUME Form, RecordInv, Grows, UNCHANGED saved
  PROVE  RecordInv' /\ saved'.recs = [t \in Tasks |-> saved'.recs[t]]
BY HoldsGrows, InMainGrows DEF Form, RecordInv, Grows

LEMMA RecordKept ==
  ASSUME Shape, Form, RecordInv, Grows, NEW rec, PersistRecord(rec), run.task \in Tasks,
         Holds(rec, run.task, seen'.pushed, seen'.green, remote'.main)
  PROVE  RecordInv' /\ saved'.recs = [t \in Tasks |-> saved'.recs[t]]
<1>1. /\ saved'.recs = [saved.recs EXCEPT ![run.task] = rec]
      /\ saved'.completed = saved.completed /\ saved'.stop = saved.stop
  BY DEF Shape, SavedShape, SavedFields, PersistRecord
<1>2. \A t \in Tasks : saved'.recs[t] = IF t = run.task THEN rec ELSE saved.recs[t]
  BY <1>1 DEF Form
<1>3. saved'.recs = [t \in Tasks |-> saved'.recs[t]]
  BY <1>1 DEF Form
<1>4. RecordInv'
  BY <1>1, <1>2, HoldsGrows, InMainGrows DEF RecordInv, Grows
<1>5. QED
  BY <1>3, <1>4

(* Steps that leave GitHub and the branches alone.                          *)
Quiet ==
  /\ UNCHANGED <<local, remote>>
  /\ seen'.pushed = seen.pushed /\ seen'.green = seen.green

LEMMA QuietGrows == Quiet => Grows
BY DEF Quiet, Grows

LEMMA QuietBranch == BranchInv /\ Quiet => BranchInv'
<1> SUFFICES ASSUME BranchInv, Quiet, NEW t \in Tasks PROVE BranchOf(t)'
  BY DEF BranchInv
<1>1. BranchOf(t)
  BY DEF BranchInv
<1>2. QED
  BY <1>1 DEF BranchOf, Quiet

LEMMA SeenQuiet ==
  ASSUME SeenShape, UNCHANGED seen \/ Fault \/ \E outcome : Strike(outcome)
  PROVE  seen'.pushed = seen.pushed /\ seen'.green = seen.green
BY DEF SeenShape, SeenFields, Fault, Strike, Struck

(* A task that ends without success claims what it claimed.                 *)
LEMMA EndsFailed ==
  ASSUME Known, Grows, run'.pc = "record", run'.result \in {"failed", "parked"},
         run'.rec = run.rec, run'.task = run.task, run'.kind = run.kind, run.task \in Tasks,
         run.pc # "down"
  PROVE  TaskInv' /\ StepInv'
<1>1. Holds(run'.rec, run'.task, seen'.pushed, seen'.green, remote'.main)
  BY HoldsGrows DEF Known, StepInv, Grows
<1>2. StepInv'
  BY <1>1 DEF StepInv
<1>3. TaskInv'
  BY DEF Known, TaskInv
<1>4. QED
  BY <1>2, <1>3

LEMMA FinishDoes ==
  ASSUME Shape, NEW result, Finish(result)
  PROVE  /\ run'.pc = "record" /\ run'.result = result
         /\ run'.rec = run.rec /\ run'.task = run.task /\ run'.kind = run.kind
BY DEF Shape, RunShape, RunFields, Finish

(* Whatever a task had done, bailing out claims no more.                    *)
LEMMA BailsKnown ==
  ASSUME Shape, Known, Grows, run.pc \notin {"down", "loop"},
         Bail \/ (Finish("parked") /\ PersistRecord(run.rec))
  PROVE  TaskInv' /\ StepInv' /\ RecordInv' /\ run'.rec = run.rec
         /\ saved'.recs = [t \in Tasks |-> saved'.recs[t]]
<1>0. run.task \in Tasks
  BY DEF Known, TaskInv
<1>1. PICK result \in {"failed", "parked"} : Finish(result) /\ PersistRecord(run.rec)
  BY DEF Bail
<1>2. /\ run'.pc = "record" /\ run'.result = result
      /\ run'.rec = run.rec /\ run'.task = run.task /\ run'.kind = run.kind
  BY <1>1, FinishDoes
<1>3. TaskInv' /\ StepInv'
  BY <1>0, <1>2, EndsFailed
<1>4. Holds(run.rec, run.task, seen'.pushed, seen'.green, remote'.main)
  BY HoldsGrows DEF Known, StepInv, Grows
<1>5. QED
  BY <1>0, <1>1, <1>2, <1>3, <1>4, RecordKept DEF Known

-----------------------------------------------------------------------------
(* Admission and attempts: nothing of GitHub or the branches.               *)

LEMMA NewRecordForm ==
  /\ NewRecord = [f \in RecFields |-> NewRecord[f]]
  /\ ~NewRecord.push /\ ~NewRecord.green /\ ~NewRecord.merge
BY DEF NewRecord, RecFields

LEMMA AdmitKnown == ASSUME Shape, Known, Admit PROVE Known'
<1>1. Quiet /\ Grows
  BY QuietGrows DEF Admit, Quiet
<1>2. BranchInv' /\ RecordInv' /\ saved'.recs = [t \in Tasks |-> saved'.recs[t]]
  BY <1>1, QuietBranch, SavedStays DEF Admit, Known
<1>3. run.task \in Tasks /\ run.pc = "gate"
  BY DEF Known, TaskInv, Admit
<1>4. CASE Finish("failed") \/ Finish("parked")
  <2>1. PICK result \in {"failed", "parked"} : Finish(result)
    BY <1>4
  <2>2. /\ run'.pc = "record" /\ run'.result = result
        /\ run'.rec = run.rec /\ run'.task = run.task /\ run'.kind = run.kind
    BY <2>1, FinishDoes
  <2>3. TaskInv' /\ StepInv'
    BY <1>1, <1>3, <2>2, EndsFailed
  <2>4. Form'
    BY <1>2, <2>2 DEF Admit, Known, Form
  <2>5. QED
    BY <1>2, <2>3, <2>4 DEF Known
<1>5. CASE run' = [run EXCEPT !.pc = "attempt", !.provider = Minimum(Candidates),
                              !.tried = {Minimum(Candidates)}, !.base = tree.work,
                              !.rec = NewRecord]
  <2>1. /\ run'.pc = "attempt" /\ run'.rec = NewRecord /\ run'.base = tree.work
        /\ run'.task = run.task /\ run'.kind = run.kind
    BY <1>5 DEF Shape, RunShape, RunFields
  <2>2. Form'
    BY <1>2, <2>1, NewRecordForm DEF Admit, Known, Form
  <2>3. TaskInv' /\ StepInv'
    BY <1>3, <2>1, NewRecordForm DEF Admit, Known, TaskInv, StepInv, Holds
  <2>4. QED
    BY <1>2, <2>2, <2>3 DEF Known
<1>6. QED
  BY <1>4, <1>5 DEF Admit

(* A hand-over begins the next attempt with what is in the checkout.        *)
LEMMA HandOverKnown ==
  ASSUME Shape, Known, Quiet, run.pc = "attempt", NEW pool, NEW work, HandOver(pool, work)
  PROVE  Known'
<1>1. Grows /\ BranchInv'
  BY QuietGrows, QuietBranch DEF Known
<1>2. tree' = [f \in TreeFields |-> tree'[f]] /\ tree'.work = work
  BY DEF HandOver, Known, Form, TreeFields
<1>3. CASE Unasked(pool) = {}
  <2>1. Bail
    BY <1>3 DEF HandOver
  <2>2. TaskInv' /\ StepInv' /\ RecordInv' /\ run'.rec = run.rec
        /\ saved'.recs = [t \in Tasks |-> saved'.recs[t]]
    BY <1>1, <2>1, BailsKnown
  <2>3. QED
    BY <1>1, <1>2, <2>2 DEF Known, Form, Quiet
<1>4. CASE Unasked(pool) # {}
  <2>1. /\ run'.pc = "attempt" /\ run'.base = work /\ run'.rec = run.rec
        /\ run'.task = run.task /\ run'.kind = run.kind
    BY <1>4 DEF HandOver, Baseline, Shape, RunShape, RunFields
  <2>2. RecordInv' /\ saved'.recs = [t \in Tasks |-> saved'.recs[t]]
    BY <1>1, <1>4, SavedStays DEF HandOver, Known
  <2>3. TaskInv' /\ StepInv'
    BY <1>1, <1>2, <2>1, HoldsGrows DEF Known, TaskInv, StepInv, Grows
  <2>4. QED
    BY <1>1, <1>2, <2>1, <2>2, <2>3 DEF Known, Form, Quiet
<1>5. QED
  BY <1>3, <1>4

(* One attempt is one piece: with a person's edits it is all that is new.   *)
LEMMA DeltaPure ==
  ASSUME NEW work, NEW base, NEW piece, NEW left \in SUBSET {piece},
         \A p \in work \ base : p.by = Person
  PROVE  Pure((work \cup left) \ base)
BY DEF Pure

LEMMA AttemptKnown ==
  ASSUME Shape, Known, Exhausted \/ BudgetSpent \/ AttemptFails \/ AttemptCompletes
  PROVE  Known'
<1>0. Quiet /\ run.pc = "attempt"
  BY SeenQuiet DEF Exhausted, BudgetSpent, AttemptFails, AttemptCompletes, Quiet, Shape
<1>1. Grows /\ BranchInv'
  BY <1>0, QuietGrows, QuietBranch DEF Known
<1>2. CASE \E pool, work : HandOver(pool, work)
  BY <1>0, <1>2, HandOverKnown
<1>3. CASE /\ Bail \/ (Finish("parked") /\ PersistRecord(run.rec))
           /\ \E work : tree' = [tree EXCEPT !.work = work]
  <2>1. TaskInv' /\ StepInv' /\ RecordInv' /\ run'.rec = run.rec
        /\ saved'.recs = [t \in Tasks |-> saved'.recs[t]]
    BY <1>0, <1>1, <1>3, BailsKnown
  <2>2. tree' = [f \in TreeFields |-> tree'[f]]
    BY <1>3 DEF Known, Form, TreeFields
  <2>3. QED
    BY <1>0, <1>1, <2>1, <2>2 DEF Known, Form, Quiet
<1>4. CASE \E left \in SUBSET {Piece} :
             LET delta == (tree.work \cup left) \ run.base IN
             /\ tree' = [tree EXCEPT !.work = @ \cup left]
             /\ run' = [run EXCEPT !.pc = "branch", !.delta = delta] /\ UNCHANGED saved
  <2>1. PICK left \in SUBSET {Piece} :
             /\ tree' = [tree EXCEPT !.work = @ \cup left]
             /\ run' = [run EXCEPT !.pc = "branch", !.delta = (tree.work \cup left) \ run.base]
             /\ UNCHANGED saved
    BY <1>4
  <2>2. /\ run'.pc = "branch" /\ run'.delta = (tree.work \cup left) \ run.base
        /\ run'.rec = run.rec /\ run'.task = run.task /\ run'.kind = run.kind
    BY <2>1 DEF Shape, RunShape, RunFields
  <2>3. RecordInv' /\ saved'.recs = [t \in Tasks |-> saved'.recs[t]]
    BY <1>1, <2>1, SavedStays DEF Known
  <2>4. Pure(run'.delta)
    <3>1. \A p \in tree.work \ run.base : p.by = Person
      BY <1>0 DEF Known, StepInv
    <3>2. Pure((tree.work \cup left) \ run.base)
      BY <3>1, DeltaPure
    <3>3. QED
      BY <2>2, <3>2
  <2>5. TaskInv' /\ StepInv'
    BY <1>0, <1>1, <2>2, <2>4, HoldsGrows DEF Known, TaskInv, StepInv, Grows
  <2>6. tree' = [f \in TreeFields |-> tree'[f]]
    BY <2>1 DEF Known, Form, TreeFields
  <2>7. QED
    BY <1>0, <1>1, <2>2, <2>3, <2>5, <2>6 DEF Known, Form, Quiet
<1>5. CASE Exhausted
  BY <1>2, <1>5 DEF Exhausted
<1>6. CASE BudgetSpent
  BY <1>2, <1>3, <1>6 DEF BudgetSpent
<1>7. CASE AttemptFails
  BY <1>3, <1>7 DEF AttemptFails
<1>8. CASE AttemptCompletes
  <2>1. PICK left \in SUBSET {Piece}, files \in {"plain", "sensitive"} :
       LET delta == (tree.work \cup left) \ run.base IN
       /\ tree' = [tree EXCEPT !.work = @ \cup left]
       /\ IF delta = {} THEN Bail
          ELSE IF MustPark(run.task, files) THEN Finish("parked") /\ PersistRecord(run.rec)
          ELSE run' = [run EXCEPT !.pc = "branch", !.delta = delta] /\ UNCHANGED saved
    BY <1>8 DEF AttemptCompletes
  <2>2. QED
    BY <1>3, <1>4, <2>1
<1>9. QED
  BY <1>5, <1>6, <1>7, <1>8

-----------------------------------------------------------------------------
(* The git steps.                                                           *)

LEMMA ProceedDoes ==
  ASSUME Shape, NEW pc, NEW rec, Proceed(pc, rec)
  PROVE  /\ run'.pc = pc /\ run'.rec = rec /\ run'.task = run.task /\ run'.kind = run.kind
         /\ run'.delta = run.delta /\ run'.head = run.head /\ run'.checks = run.checks
         /\ PersistRecord(rec)
BY DEF Shape, RunShape, RunFields, Proceed

(* A step that fails or finds itself in the way leaves all as it was.       *)
LEMMA BailKnown ==
  ASSUME Shape, Known, run.pc \notin {"down", "loop"}, Quiet,
         Bail \/ (Finish("parked") /\ PersistRecord(run.rec)),
         tree' = [f \in TreeFields |-> tree'[f]]
  PROVE  Known'
<1>1. Grows /\ BranchInv'
  BY QuietGrows, QuietBranch DEF Known
<1>2. TaskInv' /\ StepInv' /\ RecordInv' /\ run'.rec = run.rec
      /\ saved'.recs = [t \in Tasks |-> saved'.recs[t]]
  BY <1>1, BailsKnown
<1>3. QED
  BY <1>1, <1>2 DEF Known, Form, Quiet

(* A commit is no commit only of a task that is none.                       *)
LEMMA TaskIsNotNone == \A t \in Tasks : t # NoTask
BY GitAssumption DEF NoTask

LEMMA NoneIs == IsCommit(None) /\ None.task = NoTask /\ None.work = {} /\ ~None.moved
BY DEF None, IsCommit, CommitFields, NoTask

LEMMA CreateBranchKnown == ASSUME Shape, Known, CreateBranch PROVE Known'
<1>0. /\ run.task \in Tasks /\ run.pc = "branch" /\ UNCHANGED remote
      /\ seen'.pushed = seen.pushed /\ seen'.green = seen.green
  BY SeenQuiet DEF Known, TaskInv, CreateBranch, Shape
<1>1. Grows
  BY <1>0 DEF Grows
<1>2. CASE Bail /\ UNCHANGED <<tree, local>>
  BY <1>0, <1>2, BailKnown DEF Quiet, Known, Form
<1>3. CASE /\ local[run.task] = None
           /\ Proceed("commit", [run.rec EXCEPT !.branch = TRUE])
           /\ tree' = [tree EXCEPT !.branch = run.task, !.hooks = HookBaseline]
           /\ local' = [local EXCEPT ![run.task] = [None EXCEPT !.task = run.task]]
  <2> DEFINE rec == [run.rec EXCEPT !.branch = TRUE]
             cut == [None EXCEPT !.task = run.task]
  <2>1. /\ rec = [f \in RecFields |-> rec[f]]
        /\ rec.push = run.rec.push /\ rec.commit = run.rec.commit
        /\ rec.green = run.rec.green /\ rec.ciHead = run.rec.ciHead /\ rec.merge = run.rec.merge
    BY DEF Known, Form, RecFields
  <2>2. Holds(rec, run.task, seen'.pushed, seen'.green, remote'.main) /\ ~rec.push
    BY <1>0, <2>1 DEF Known, StepInv, Holds
  <2>3. IsCommit(cut) /\ cut.task = run.task /\ cut.work = {}
    BY DEF None, IsCommit, CommitFields
  <2> HIDE DEF rec, cut
  <2>4. /\ run'.pc = "commit" /\ run'.rec = rec /\ run'.task = run.task /\ run'.kind = run.kind
        /\ run'.delta = run.delta /\ PersistRecord(rec)
    BY <1>3, ProceedDoes DEF rec
  <2>5. RecordInv' /\ saved'.recs = [t \in Tasks |-> saved'.recs[t]]
    BY <1>0, <1>1, <2>2, <2>4, RecordKept DEF Known
  <2>6. local' = [local EXCEPT ![run.task] = cut]
    BY <1>3 DEF cut
  <2>7. tree' = [f \in TreeFields |-> tree'[f]]
    BY <1>3 DEF Known, Form, TreeFields
  <2>8. remote.branch[run.task] = None
    BY <1>0, <1>3 DEF Known, BranchInv, BranchOf
  <2>9. BranchInv'
    <3> SUFFICES ASSUME NEW t \in Tasks PROVE BranchOf(t)'
      BY DEF BranchInv
    <3>1. BranchOf(t)
      BY DEF Known, BranchInv
    <3>2. CASE t # run.task
      <4>1. local'[t] = local[t]
        BY <2>6, <3>2 DEF Known, Form
      <4>2. QED
        BY <1>0, <3>1, <4>1 DEF BranchOf
    <3>3. CASE t = run.task
      <4>1. local'[t] = cut
        BY <1>0, <2>6, <3>3 DEF Known, Form
      <4>2. QED
        BY <1>0, <2>3, <2>8, <3>1, <3>3, <4>1 DEF BranchOf, Pure
    <3>4. QED
      BY <3>2, <3>3
  <2>10. TaskInv' /\ StepInv'
    BY <1>0, <2>2, <2>4, <2>8 DEF Known, TaskInv, StepInv
  <2>11. Form'
    BY <1>0, <2>1, <2>4, <2>5, <2>6, <2>7 DEF Known, Form
  <2>12. QED
    BY <2>5, <2>9, <2>10, <2>11 DEF Known
<1>4. QED
  BY <1>2, <1>3 DEF CreateBranch

LEMMA CommitKnown == ASSUME Shape, Known, Commit PROVE Known'
<1>0. /\ run.task \in Tasks /\ run.pc = "commit" /\ UNCHANGED remote
      /\ seen'.pushed = seen.pushed /\ seen'.green = seen.green
  BY SeenQuiet DEF Known, TaskInv, Commit, Shape
<1>1. Grows
  BY <1>0 DEF Grows
<1>2. CASE Bail /\ UNCHANGED <<tree, local>>
  BY <1>0, <1>2, BailKnown DEF Quiet, Known, Form
<1> DEFINE commit == [task |-> run.task, work |-> run.delta, moved |-> FALSE]
<1>3. CASE /\ Proceed("push", [run.rec EXCEPT !.commit = commit])
           /\ tree' = [tree EXCEPT !.work = @ \ run.delta]
           /\ local' = [local EXCEPT ![run.task] = commit]
  <2> DEFINE rec == [run.rec EXCEPT !.commit = commit]
  <2>1. IsCommit(commit) /\ commit.task = run.task /\ commit.work = run.delta /\ commit # None
    BY <1>0, TaskIsNotNone, NoneIs DEF IsCommit, CommitFields
  <2> HIDE DEF commit
  <2>2. /\ rec = [f \in RecFields |-> rec[f]]
        /\ rec.push = run.rec.push /\ rec.commit = commit
        /\ rec.green = run.rec.green /\ rec.ciHead = run.rec.ciHead /\ rec.merge = run.rec.merge
    BY DEF Known, Form, RecFields
  <2>3. Holds(rec, run.task, seen'.pushed, seen'.green, remote'.main) /\ ~rec.push
    BY <1>0, <2>2 DEF Known, StepInv, Holds
  <2> HIDE DEF rec
  <2>4. /\ run'.pc = "push" /\ run'.rec = rec /\ run'.task = run.task /\ run'.kind = run.kind
        /\ PersistRecord(rec)
    BY <1>3, ProceedDoes DEF rec
  <2>5. RecordInv' /\ saved'.recs = [t \in Tasks |-> saved'.recs[t]]
    BY <1>0, <1>1, <2>3, <2>4, RecordKept DEF Known
  <2>6. tree' = [f \in TreeFields |-> tree'[f]]
    BY <1>3 DEF Known, Form, TreeFields
  <2>7. remote.branch[run.task] = None /\ Pure(run.delta)
    BY <1>0 DEF Known, StepInv
  <2>8. local'[run.task] = commit /\ \A t \in Tasks : t # run.task => local'[t] = local[t]
    BY <1>0, <1>3 DEF Known, Form
  <2>9. BranchInv'
    <3> SUFFICES ASSUME NEW t \in Tasks PROVE BranchOf(t)'
      BY DEF BranchInv
    <3>1. BranchOf(t)
      BY DEF Known, BranchInv
    <3>2. CASE t # run.task
      BY <1>0, <2>8, <3>1, <3>2 DEF BranchOf
    <3>3. CASE t = run.task
      BY <1>0, <2>1, <2>7, <2>8, <3>1, <3>3 DEF BranchOf
    <3>4. QED
      BY <3>2, <3>3
  <2>10. TaskInv' /\ StepInv'
    BY <1>0, <2>1, <2>2, <2>3, <2>4, <2>7, <2>8 DEF Known, TaskInv, StepInv
  <2>11. Form'
    BY <1>0, <1>3, <2>2, <2>4, <2>5, <2>6 DEF Known, Form
  <2>12. QED
    BY <2>5, <2>9, <2>10, <2>11 DEF Known
<1>4. QED
  BY <1>2, <1>3 DEF Commit

LEMMA TreeForm == Known => tree = [f \in TreeFields |-> tree[f]]
BY DEF Known, Form

(* What is pushed is the local branch, where there was none.                *)
LEMMA PushKnown == ASSUME Shape, Known, Push PROVE Known'
<1>0. /\ run.task \in Tasks /\ run.pc = "push" /\ UNCHANGED <<tree, local>>
      /\ remote.branch[run.task] = None /\ local[run.task] # None
      /\ run.rec.commit = local[run.task] /\ ~run.rec.push
  BY DEF Known, TaskInv, StepInv, Push
<1>00. tree' = [f \in TreeFields |-> tree'[f]]
  BY <1>0, TreeForm
<1> DEFINE commit == run.rec.commit
           rec == [run.rec EXCEPT !.push = TRUE]
<1>1. \/ (Bail /\ UNCHANGED remote /\ (UNCHANGED seen \/ \E outcome : Strike(outcome)))
      \/ /\ Proceed("open", rec)
         /\ remote' = [remote EXCEPT !.branch[run.task] = commit, !.checks[run.task] = "pending"]
         /\ seen' = [seen EXCEPT !.pushed = @ \cup {commit}]
  <2>1. CASE ~Delegated("push")
    BY <2>1 DEF Push
  <2>2. CASE Delegated("push")
    <3>1. PushStatus = "not_executed"
      BY <1>0 DEF PushStatus
    <3>2. PICK outcome \in Doubtful :
            /\ IF Confirmed(outcome) THEN Proceed("open", rec) ELSE Bail
            /\ IF outcome = "done"
               THEN /\ remote' = [remote EXCEPT !.branch[run.task] = run.rec.commit,
                                                !.checks[run.task] = "pending"]
                    /\ seen' = [seen EXCEPT !.pushed = @ \cup {run.rec.commit}]
               ELSE UNCHANGED remote /\ Strike(outcome)
      BY <2>2, <3>1 DEF Push
    <3>3. QED
      BY <3>2 DEF Confirmed
  <2>3. QED
    BY <2>1, <2>2
<1>2. CASE Bail /\ UNCHANGED remote /\ (UNCHANGED seen \/ \E outcome : Strike(outcome))
  <2>1. Quiet
    BY <1>0, <1>2, SeenQuiet DEF Quiet, Shape
  <2>2. QED
    BY <1>0, <1>00, <1>2, <2>1, BailKnown
<1>3. CASE /\ Proceed("open", rec)
           /\ remote' = [remote EXCEPT !.branch[run.task] = commit, !.checks[run.task] = "pending"]
           /\ seen' = [seen EXCEPT !.pushed = @ \cup {commit}]
  <2>1. /\ rec = [f \in RecFields |-> rec[f]]
        /\ rec.push /\ rec.commit = commit
        /\ rec.green = run.rec.green /\ rec.ciHead = run.rec.ciHead /\ rec.merge = run.rec.merge
    BY DEF Known, Form, RecFields
  <2>2. seen'.pushed = seen.pushed \cup {commit} /\ seen'.green = seen.green
    BY <1>3 DEF Shape, SeenShape, SeenFields
  <2> HIDE DEF rec, commit
  <2>3. /\ remote'.main = remote.main /\ remote'.pr = remote.pr /\ remote'.policy = remote.policy
        /\ remote'.branch = [remote.branch EXCEPT ![run.task] = commit]
        /\ remote'.checks = [remote.checks EXCEPT ![run.task] = "pending"]
        /\ remote' = [f \in RemoteFields |-> remote'[f]]
    <3>1. remote' = [remote EXCEPT !.branch = [remote.branch EXCEPT ![run.task] = commit],
                                   !.checks = [remote.checks EXCEPT ![run.task] = "pending"]]
      BY <1>3
    <3>2. QED
      BY <3>1 DEF Known, Form, RemoteFields
  <2>4. Grows
    BY <2>2, <2>3 DEF Grows
  <2>5. Holds(rec, run.task, seen'.pushed, seen'.green, remote'.main)
    BY <2>1, <2>2, <2>3 DEF Known, StepInv, Holds
  <2>6. /\ run'.pc = "open" /\ run'.rec = rec /\ run'.task = run.task /\ run'.kind = run.kind
        /\ PersistRecord(rec)
    BY <1>3, ProceedDoes
  <2>7. RecordInv' /\ saved'.recs = [t \in Tasks |-> saved'.recs[t]]
    BY <1>0, <2>4, <2>5, <2>6, RecordKept DEF Known
  <2>8. /\ remote'.branch[run.task] = commit /\ remote'.checks[run.task] = "pending"
        /\ \A t \in Tasks : t # run.task =>
             remote'.branch[t] = remote.branch[t] /\ remote'.checks[t] = remote.checks[t]
    BY <1>0, <2>3 DEF Known, Form
  <2>9. /\ remote'.branch = [t \in Tasks |-> remote'.branch[t]]
        /\ remote'.checks = [t \in Tasks |-> remote'.checks[t]]
    BY <2>3 DEF Known, Form
  <2>10. commit = local[run.task] /\ BranchOf(run.task)
    BY <1>0 DEF Known, BranchInv, commit
  <2>11. BranchInv'
    <3> SUFFICES ASSUME NEW t \in Tasks PROVE BranchOf(t)'
      BY DEF BranchInv
    <3>1. BranchOf(t)
      BY DEF Known, BranchInv
    <3>2. CASE t # run.task
      BY <1>0, <2>2, <2>3, <2>8, <3>1, <3>2 DEF BranchOf
    <3>3. CASE t = run.task
      BY <1>0, <2>2, <2>3, <2>8, <2>10, <3>1, <3>3 DEF BranchOf
    <3>4. QED
      BY <3>2, <3>3
  <2>12. remote'.branch[run.task] # None /\ remote'.pr[run.task] # "open"
    BY <1>0, <2>3, <2>8, <2>10 DEF BranchOf
  <2>13. TaskInv' /\ StepInv'
    BY <1>0, <2>5, <2>6, <2>12 DEF Known, TaskInv, StepInv
  <2>14. Form'
    BY <1>0, <2>1, <2>3, <2>6, <2>7, <2>9 DEF Known, Form
  <2>15. QED
    BY <2>7, <2>11, <2>13, <2>14 DEF Known
<1>4. QED
  BY <1>1, <1>2, <1>3

(* A pull request is opened for the branch that was pushed.                 *)
LEMMA OpenKnown == ASSUME Shape, Known, OpenPullRequest PROVE Known'
<1>0. /\ run.task \in Tasks /\ run.pc = "open" /\ UNCHANGED <<tree, local>>
      /\ remote.branch[run.task] # None /\ remote.pr[run.task] # "open"
  BY DEF Known, TaskInv, StepInv, OpenPullRequest
<1>00. tree' = [f \in TreeFields |-> tree'[f]]
  BY <1>0, TreeForm
<1> DEFINE rec == [run.rec EXCEPT !.pr = TRUE]
<1>1. /\ Bail \/ Proceed("ciBefore", rec)
      /\ UNCHANGED remote \/ remote' = [remote EXCEPT !.pr[run.task] = "open"]
      /\ (Bail /\ UNCHANGED remote) \/ Proceed("ciBefore", rec)
      /\ UNCHANGED seen \/ \E outcome : Strike(outcome)
  <2>1. CASE ~Delegated("open")
    BY <2>1 DEF OpenPullRequest
  <2>2. CASE Delegated("open")
    <3>1. RequestStatus # "already_executed"
      BY <1>0 DEF RequestStatus
    <3>2. PICK outcome \in Doubtful :
            /\ IF Confirmed(outcome) THEN Proceed("ciBefore", rec) ELSE Bail
            /\ Strike(outcome)
            /\ remote' = IF outcome = "done" THEN [remote EXCEPT !.pr[run.task] = "open"]
                         ELSE remote
      BY <2>2, <3>1 DEF OpenPullRequest
    <3>3. QED
      BY <3>2 DEF Confirmed
  <2>3. QED
    BY <2>1, <2>2
<1>2. seen'.pushed = seen.pushed /\ seen'.green = seen.green
  BY <1>1, SeenQuiet DEF Shape
<1>3. CASE Bail /\ UNCHANGED remote
  BY <1>0, <1>00, <1>2, <1>3, BailKnown DEF Quiet
<1>4. CASE Proceed("ciBefore", rec)
  <2>1. /\ rec = [f \in RecFields |-> rec[f]]
        /\ rec.push = run.rec.push /\ rec.commit = run.rec.commit
        /\ rec.green = run.rec.green /\ rec.ciHead = run.rec.ciHead /\ rec.merge = run.rec.merge
    BY DEF Known, Form, RecFields
  <2> HIDE DEF rec
  <2>2. /\ remote'.main = remote.main /\ remote'.branch = remote.branch
        /\ remote'.checks = remote.checks /\ remote'.policy = remote.policy
        /\ remote' = [f \in RemoteFields |-> remote'[f]]
        /\ remote'.pr = [t \in Tasks |-> remote'.pr[t]]
        /\ \A t \in Tasks : remote'.pr[t] = remote.pr[t] \/ (remote'.pr[t] = "open" /\ t = run.task)
    <3>1. CASE UNCHANGED remote
      BY <3>1 DEF Known, Form
    <3>2. CASE remote' = [remote EXCEPT !.pr[run.task] = "open"]
      <4>1. remote' = [remote EXCEPT !.pr = [remote.pr EXCEPT ![run.task] = "open"]]
        BY <3>2
      <4>2. /\ remote'.main = remote.main /\ remote'.branch = remote.branch
            /\ remote'.checks = remote.checks /\ remote'.policy = remote.policy
            /\ remote' = [f \in RemoteFields |-> remote'[f]]
            /\ remote'.pr = [remote.pr EXCEPT ![run.task] = "open"]
        BY <4>1 DEF Known, Form, RemoteFields
      <4>3. QED
        BY <1>0, <4>2 DEF Known, Form
    <3>3. QED
      BY <1>1, <3>1, <3>2
  <2>3. Grows
    BY <1>2, <2>2 DEF Grows
  <2>4. Holds(rec, run.task, seen'.pushed, seen'.green, remote'.main)
    BY <1>2, <2>1, <2>2 DEF Known, StepInv, Holds
  <2>5. /\ run'.pc = "ciBefore" /\ run'.rec = rec /\ run'.task = run.task /\ run'.kind = run.kind
        /\ PersistRecord(rec)
    BY <1>4, ProceedDoes DEF rec
  <2>6. RecordInv' /\ saved'.recs = [t \in Tasks |-> saved'.recs[t]]
    BY <1>0, <2>3, <2>4, <2>5, RecordKept DEF Known
  <2>7. BranchInv'
    <3> SUFFICES ASSUME NEW t \in Tasks PROVE BranchOf(t)'
      BY DEF BranchInv
    <3>1. BranchOf(t)
      BY DEF Known, BranchInv
    <3>2. QED
      BY <1>0, <1>2, <2>2, <3>1 DEF BranchOf
  <2>8. TaskInv' /\ StepInv'
    BY <1>0, <2>4, <2>5 DEF Known, TaskInv, StepInv
  <2>9. Form'
    BY <1>0, <2>1, <2>2, <2>5, <2>6 DEF Known, Form
  <2>10. QED
    BY <2>6, <2>7, <2>8, <2>9 DEF Known
<1>5. QED
  BY <1>1, <1>3, <1>4

-----------------------------------------------------------------------------
(* CI.                                                                      *)

LEMMA ReadHeadKnown == ASSUME Shape, Known, ReadHead PROVE Known'
<1>1. /\ run'.pc = "ciChecks" /\ run'.head = remote.branch[run.task]
      /\ run'.rec = run.rec /\ run'.task = run.task /\ run'.kind = run.kind
  BY DEF Shape, RunShape, RunFields, ReadHead, Head
<1>2. run.task \in Tasks /\ run.pc = "ciBefore"
  BY DEF Known, TaskInv, ReadHead
<1>3. Quiet /\ Grows /\ BranchInv'
  BY QuietGrows, QuietBranch DEF Known, ReadHead, Quiet
<1>4. RecordInv' /\ saved'.recs = [t \in Tasks |-> saved'.recs[t]]
  BY <1>3, SavedStays DEF Known, ReadHead
<1>5. IsCommit(remote.branch[run.task])
  BY <1>2 DEF Known, BranchInv, BranchOf
<1>6. TaskInv' /\ StepInv'
  BY <1>1, <1>2, <1>3, <1>5 DEF Known, TaskInv, StepInv, Quiet
<1>7. Form'
  BY <1>1, <1>3, <1>4 DEF ReadHead, Known, Form, Quiet
<1>8. QED
  BY <1>3, <1>4, <1>6, <1>7 DEF Known

(* The checks read are those of the head read before, unless that head is   *)
(* gone for good.                                                           *)
LEMMA ReadChecksKnown == ASSUME Shape, Known, ReadChecks PROVE Known'
<1>1. /\ run'.pc = "ciAfter" /\ run'.head = run.head /\ run'.checks = remote.checks[run.task]
      /\ run'.rec = run.rec /\ run'.task = run.task /\ run'.kind = run.kind
  BY DEF Shape, RunShape, RunFields, ReadChecks
<1>2. run.task \in Tasks /\ run.pc = "ciChecks"
  BY DEF Known, TaskInv, ReadChecks
<1>3. Quiet /\ Grows /\ BranchInv'
  BY QuietGrows, QuietBranch DEF Known, ReadChecks, Quiet
<1>4. RecordInv' /\ saved'.recs = [t \in Tasks |-> saved'.recs[t]]
  BY <1>3, SavedStays DEF Known, ReadChecks
<1>5. BranchOf(run.task) /\ IsCommit(run.head)
  BY <1>2 DEF Known, BranchInv, StepInv
<1>6. run'.checks = "green" =>
        \/ run.head = None \/ run.head \in seen.green
        \/ Gone(run.head, remote.branch[run.task])
  BY <1>1, <1>2, <1>5 DEF Known, StepInv, BranchOf
<1>7. TaskInv' /\ StepInv'
  BY <1>1, <1>2, <1>3, <1>5, <1>6 DEF Known, TaskInv, StepInv, Quiet
<1>8. Form'
  BY <1>1, <1>3, <1>4 DEF ReadChecks, Known, Form, Quiet
<1>9. QED
  BY <1>3, <1>4, <1>7, <1>8 DEF Known

(* A head that did not move while its checks were read is one that was seen *)
(* green.                                                                   *)
LEMMA StableIsGreen ==
  ASSUME Known, run.pc = "ciAfter",
         AllGreen(remote.policy, run.checks, StableHead(run.head, Head(run.task)))
  PROVE  StableHead(run.head, Head(run.task)) \in seen.green
<1>1. run.checks = "green" /\ run.head = remote.branch[run.task] /\ run.head # None
      /\ StableHead(run.head, Head(run.task)) = run.head
  BY DEF AllGreen, StableHead, Head
<1>2. IsCommit(run.head)
  BY DEF Known, StepInv
<1>3. ~Gone(run.head, remote.branch[run.task])
  BY <1>1 DEF Gone
<1>4. QED
  BY <1>1, <1>3 DEF Known, StepInv

LEMMA ObserveKnown == ASSUME Shape, Known, Observe PROVE Known'
<1>0. run.task \in Tasks /\ run.pc = "ciAfter"
  BY DEF Known, TaskInv, Observe
<1>1. Quiet /\ Grows /\ BranchInv'
  BY QuietGrows, QuietBranch DEF Known, Observe, Quiet
<1> DEFINE after == Head(run.task)
           stable == StableHead(run.head, after)
           rec == [run.rec EXCEPT !.green = AllGreen(remote.policy, run.checks, stable),
                                  !.ciHead = stable, !.curHead = after]
<1>2. CASE \E polls : /\ run' = [run EXCEPT !.pc = "ciBefore", !.polls = polls,
                                           !.head = None, !.checks = "none"]
                      /\ UNCHANGED saved
  <2>1. /\ run'.pc = "ciBefore"
        /\ run'.rec = run.rec /\ run'.task = run.task /\ run'.kind = run.kind
    BY <1>2 DEF Shape, RunShape, RunFields
  <2>2. RecordInv' /\ saved'.recs = [t \in Tasks |-> saved'.recs[t]]
    BY <1>1, <1>2, SavedStays DEF Known
  <2>3. TaskInv' /\ StepInv'
    BY <1>0, <1>1, <2>1 DEF Known, TaskInv, StepInv, Quiet
  <2>4. Form'
    BY <1>1, <2>1, <2>2 DEF Observe, Known, Form, Quiet
  <2>5. QED
    BY <1>1, <2>2, <2>3, <2>4 DEF Known
<1>3. CASE /\ PersistRecord(rec)
           /\ IF AuthorizesMerge(remote.policy, run.checks, stable)
              THEN run' = [run EXCEPT !.pc = "merge", !.rec = rec, !.head = None, !.checks = "none"]
              ELSE run' = [run EXCEPT !.pc = "record", !.result = "failed", !.rec = rec,
                                      !.head = None, !.checks = "none"]
  <2>1. /\ rec = [f \in RecFields |-> rec[f]]
        /\ rec.push = run.rec.push /\ rec.commit = run.rec.commit /\ rec.merge = run.rec.merge
        /\ rec.green = AllGreen(remote.policy, run.checks, stable) /\ rec.ciHead = stable
    BY DEF Known, Form, RecFields
  <2>2. rec.green => rec.ciHead \in seen.green
    BY <1>0, <2>1, StableIsGreen
  <2> HIDE DEF rec, after, stable
  <2>3. Holds(rec, run.task, seen'.pushed, seen'.green, remote'.main)
    BY <1>1, <2>1, <2>2 DEF Known, StepInv, Holds, Quiet
  <2>4. RecordInv' /\ saved'.recs = [t \in Tasks |-> saved'.recs[t]]
    BY <1>0, <1>1, <1>3, <2>3, RecordKept DEF Known
  <2>5. /\ run'.rec = rec /\ run'.task = run.task /\ run'.kind = run.kind
        /\ \/ run'.pc = "merge" /\ remote.policy = "enforced"
           \/ run'.pc = "record" /\ run'.result = "failed"
    <3>1. CASE AuthorizesMerge(remote.policy, run.checks, stable)
      BY <1>3, <3>1 DEF Shape, RunShape, RunFields, AuthorizesMerge
    <3>2. CASE ~AuthorizesMerge(remote.policy, run.checks, stable)
      BY <1>3, <3>2 DEF Shape, RunShape, RunFields
    <3>3. QED
      BY <3>1, <3>2
  <2>6. TaskInv' /\ StepInv'
    BY <1>0, <1>1, <2>3, <2>5 DEF Known, TaskInv, StepInv, Quiet
  <2>7. Form'
    BY <1>1, <2>1, <2>4, <2>5 DEF Observe, Known, Form, Quiet
  <2>8. QED
    BY <1>1, <2>4, <2>6, <2>7 DEF Known
<1>4. QED
  BY <1>2, <1>3 DEF Observe

-----------------------------------------------------------------------------
(* The merge.                                                               *)

RemoteForm ==
  /\ remote = [f \in RemoteFields |-> remote[f]]
  /\ remote.branch = [t \in Tasks |-> remote.branch[t]]
  /\ remote.pr = [t \in Tasks |-> remote.pr[t]]
  /\ remote.checks = [t \in Tasks |-> remote.checks[t]]

(* Whoever merges a pull request: the branch is in main and is gone, and    *)
(* where the policy asks for checks, GitHub had seen them green.            *)
LEMMA LandedKnown ==
  ASSUME Known, NEW u \in Tasks, Mergeable(u), remote' = Landed(u),
         UNCHANGED local \/ local' = [local EXCEPT ![u] = None],
         seen'.pushed = seen.pushed, seen'.green = seen.green
  PROVE  /\ Grows /\ BranchInv' /\ RemoteForm' /\ local' = [t \in Tasks |-> local'[t]]
         /\ remote'.branch[u] = None
         /\ \A t \in Tasks : t # u => remote'.branch[t] = remote.branch[t]
         /\ \E c \in remote'.main : c.task = u
         /\ remote.policy = "enforced" => InMain(u, seen'.green, remote'.main)
<1>1. BranchOf(u) /\ remote.branch[u] # None
  BY DEF Known, BranchInv, Mergeable
<1>2. /\ remote'.main = remote.main \cup {remote.branch[u]}
      /\ remote'.pr = [remote.pr EXCEPT ![u] = "merged"]
      /\ remote'.branch = [remote.branch EXCEPT ![u] = None]
      /\ remote'.checks = remote.checks /\ remote'.policy = remote.policy
      /\ remote' = [f \in RemoteFields |-> remote'[f]]
  <2>1. remote' = [remote EXCEPT !.main = @ \cup {remote.branch[u]},
                                 !.pr = [remote.pr EXCEPT ![u] = "merged"],
                                 !.branch = [remote.branch EXCEPT ![u] = None]]
    BY DEF Landed
  <2>2. QED
    BY <2>1 DEF Known, Form, RemoteFields
<1>3. RemoteForm'
  BY <1>2 DEF RemoteForm, Known, Form
<1>4. /\ remote'.branch[u] = None /\ remote'.pr[u] = "merged"
      /\ \A t \in Tasks : t # u => remote'.branch[t] = remote.branch[t] /\ remote'.pr[t] = remote.pr[t]
  BY <1>2 DEF Known, Form
<1>5. /\ local' = [t \in Tasks |-> local'[t]]
      /\ local'[u] \in {local[u], None}
      /\ \A t \in Tasks : t # u => local'[t] = local[t]
  BY DEF Known, Form
<1>6. Grows
  BY <1>2 DEF Grows
<1>7. /\ remote.branch[u] \in remote'.main /\ remote.branch[u].task = u
      /\ remote.policy = "enforced" => remote.branch[u] \in seen'.green
  BY <1>1, <1>2 DEF BranchOf, Mergeable
<1>8. BranchInv'
  <2> SUFFICES ASSUME NEW t \in Tasks PROVE BranchOf(t)'
    BY DEF BranchInv
  <2>1. BranchOf(t)
    BY DEF Known, BranchInv
  <2>2. CASE t # u
    BY <1>2, <1>4, <1>5, <2>1, <2>2 DEF BranchOf
  <2>3. CASE t = u
    BY <1>2, <1>4, <1>5, <1>7, <2>1, <2>3, NoneIs DEF BranchOf, Pure
  <2>4. QED
    BY <2>2, <2>3
<1>9. QED
  BY <1>3, <1>4, <1>5, <1>6, <1>7, <1>8 DEF InMain

LEMMA MergeKnown == ASSUME Shape, Known, Merge PROVE Known'
<1>0. /\ run.task \in Tasks /\ run.pc = "merge" /\ remote.policy = "enforced"
  BY DEF Known, TaskInv, StepInv, Merge
<1>1. CASE Bail /\ Quiet /\ UNCHANGED tree
  BY <1>0, <1>1, BailKnown, TreeForm
<1>2. ASSUME Delegated("merge"), MergeStatus = "already_executed"
      PROVE  Known'
  <2> DEFINE rec == [run.rec EXCEPT !.merge = TRUE]
  <2>1. Proceed("count", rec) /\ UNCHANGED <<remote, local, tree, seen>>
    BY <1>2 DEF Merge
  <2>2. Quiet /\ Grows /\ BranchInv'
    BY <2>1, QuietGrows, QuietBranch DEF Known, Quiet
  <2>3. /\ rec = [f \in RecFields |-> rec[f]]
        /\ rec.push = run.rec.push /\ rec.commit = run.rec.commit
        /\ rec.green = run.rec.green /\ rec.ciHead = run.rec.ciHead
    BY DEF Known, Form, RecFields
  <2> HIDE DEF rec
  <2>4. \E c \in remote.main : c.task = run.task /\ c \in seen.green
    BY <1>0, <1>2 DEF MergeStatus, Known, BranchInv, BranchOf
  <2>5. Holds(rec, run.task, seen'.pushed, seen'.green, remote'.main)
    BY <2>1, <2>3, <2>4 DEF Known, StepInv, Holds
  <2>6. /\ run'.pc = "count" /\ run'.rec = rec /\ run'.task = run.task /\ run'.kind = run.kind
        /\ PersistRecord(rec)
    BY <2>1, ProceedDoes DEF rec
  <2>7. RecordInv' /\ saved'.recs = [t \in Tasks |-> saved'.recs[t]]
    BY <1>0, <2>2, <2>5, <2>6, RecordKept DEF Known
  <2>8. TaskInv' /\ StepInv'
    BY <1>0, <2>1, <2>4, <2>5, <2>6 DEF Known, TaskInv, StepInv, InMain
  <2>9. Form'
    BY <2>1, <2>3, <2>6, <2>7 DEF Known, Form
  <2>10. QED
    BY <2>2, <2>7, <2>8, <2>9 DEF Known
<1>3. ASSUME Delegated("merge"), MergeStatus # "already_executed"
      PROVE  Known'
  <2>1. PICK outcome \in Doubtful \cup (IF Faulty THEN {"unseen"} ELSE {}) :
            LET lands == outcome \in {"done", "unseen"} /\ Mergeable(run.task)
                told == IF outcome = "done" /\ ~lands THEN "failed" ELSE outcome IN
            /\ IF told # "unseen" /\ Confirmed(told)
               THEN /\ run' = [run EXCEPT !.pc = "count", !.used = @ + 1,
                                          !.rec.merge = TRUE, !.rec.sha = TRUE]
                    /\ PersistRecord([run.rec EXCEPT !.merge = TRUE, !.sha = TRUE])
               ELSE Bail
            /\ IF lands
               THEN /\ remote' = Landed(run.task)
                    /\ local' = [local EXCEPT ![run.task] = None]
                    /\ tree' = [tree EXCEPT !.branch = NoTask]
                    /\ seen' = [Struck(seen, outcome) EXCEPT !.merges = @ + 1,
                                  !.lost = @ + (IF outcome = "unseen" THEN 1 ELSE 0)]
               ELSE UNCHANGED <<remote, local, tree>> /\ Strike(outcome)
    BY <1>3 DEF Merge
  <2>2. seen'.pushed = seen.pushed /\ seen'.green = seen.green
    BY <2>1, SeenQuiet DEF Shape, SeenShape, SeenFields, Struck
  <2>3. CASE ~(Mergeable(run.task) /\ outcome \in {"done", "unseen"})
    BY <1>1, <2>1, <2>2, <2>3 DEF Quiet, Confirmed
  <2>4. CASE Mergeable(run.task) /\ outcome \in {"done", "unseen"}
    <3>1. /\ remote' = Landed(run.task) /\ local' = [local EXCEPT ![run.task] = None]
          /\ tree' = [tree EXCEPT !.branch = NoTask]
      BY <2>1, <2>4
    <3>2. /\ Grows /\ BranchInv' /\ RemoteForm' /\ local' = [t \in Tasks |-> local'[t]]
          /\ \E c \in remote'.main : c.task = run.task
          /\ InMain(run.task, seen'.green, remote'.main)
      BY <1>0, <2>2, <2>4, <3>1, LandedKnown
    <3>3. tree' = [f \in TreeFields |-> tree'[f]]
      BY <3>1 DEF Known, Form, TreeFields
    <3>4. CASE Bail
      <4>1. TaskInv' /\ StepInv' /\ RecordInv' /\ run'.rec = run.rec
            /\ saved'.recs = [t \in Tasks |-> saved'.recs[t]]
        BY <1>0, <3>2, <3>4, BailsKnown
      <4>2. QED
        BY <3>2, <3>3, <4>1 DEF Known, Form, RemoteForm
    <3>5. CASE /\ run' = [run EXCEPT !.pc = "count", !.used = @ + 1,
                                     !.rec.merge = TRUE, !.rec.sha = TRUE]
               /\ PersistRecord([run.rec EXCEPT !.merge = TRUE, !.sha = TRUE])
      <4> DEFINE rec == [run.rec EXCEPT !.merge = TRUE, !.sha = TRUE]
      <4>1. /\ rec = [f \in RecFields |-> rec[f]]
            /\ rec.push = run.rec.push /\ rec.commit = run.rec.commit
            /\ rec.green = run.rec.green /\ rec.ciHead = run.rec.ciHead
        BY DEF Known, Form, RecFields
      <4>2. run' = [run EXCEPT !.pc = "count", !.used = run.used + 1, !.rec = rec]
        BY <3>5 DEF Shape, RunShape, RunFields
      <4> HIDE DEF rec
      <4>3. /\ run'.pc = "count" /\ run'.rec = rec /\ run'.task = run.task /\ run'.kind = run.kind
        BY <4>2 DEF Shape, RunShape, RunFields
      <4>4. Holds(rec, run.task, seen'.pushed, seen'.green, remote'.main)
        BY <2>2, <3>2, <4>1 DEF Known, StepInv, Holds, Grows
      <4>5. RecordInv' /\ saved'.recs = [t \in Tasks |-> saved'.recs[t]]
        BY <1>0, <3>2, <3>5, <4>4, RecordKept DEF Known, rec
      <4>6. TaskInv' /\ StepInv'
        BY <1>0, <3>2, <4>3, <4>4 DEF Known, TaskInv, StepInv
      <4>7. Form'
        BY <3>2, <3>3, <4>1, <4>3, <4>5 DEF Form, RemoteForm
      <4>8. QED
        BY <3>2, <4>5, <4>6, <4>7 DEF Known
    <3>6. QED
      BY <2>1, <2>4, <3>4, <3>5
  <2>5. QED
    BY <2>3, <2>4
<1>4. QED
  <2>1. CASE ~Delegated("merge")
    BY <1>1, <2>1 DEF Merge, Quiet
  <2>2. CASE Delegated("merge")
    BY <1>2, <1>3, <2>2
  <2>3. QED
    BY <2>1, <2>2

LEMMA GotoDoes ==
  ASSUME Shape, NEW pc, Goto(pc)
  PROVE  run'.pc = pc /\ run'.rec = run.rec /\ run'.task = run.task /\ run'.kind = run.kind
BY DEF Shape, RunShape, RunFields, Goto

LEMMA CountMergeKnown == ASSUME Shape, Known, CountMerge PROVE Known'
<1>1. run'.pc = "verify" /\ run'.rec = run.rec /\ run'.task = run.task /\ run'.kind = run.kind
  BY GotoDoes DEF CountMerge
<1>2. Quiet /\ Grows /\ BranchInv'
  BY QuietGrows, QuietBranch DEF Known, CountMerge, Quiet
<1>3. /\ saved'.recs = saved.recs /\ saved'.completed = saved.completed
      /\ saved'.stop = saved.stop
  BY DEF CountMerge, Shape, SavedShape, SavedFields
<1>4. RecordInv'
  BY <1>2, <1>3 DEF Known, RecordInv, Quiet
<1>5. TaskInv' /\ StepInv'
  BY <1>1, <1>2 DEF CountMerge, Known, TaskInv, StepInv, Quiet
<1>6. Form'
  BY <1>1, <1>3 DEF CountMerge, Known, Form
<1>7. QED
  BY <1>2, <1>4, <1>5, <1>6 DEF Known

LEMMA VerifyKnown == ASSUME Shape, Known, VerifyMain PROVE Known'
<1>0. run.task \in Tasks /\ run.pc = "verify"
  BY DEF Known, TaskInv, VerifyMain
<1>1. Quiet /\ Grows /\ BranchInv'
  BY SeenQuiet, QuietGrows, QuietBranch DEF Known, VerifyMain, Quiet, Shape
<1> DEFINE rec == [run.rec EXCEPT !.contains = TRUE]
<1>2. CASE Bail
  BY <1>0, <1>1, <1>2, BailKnown, TreeForm DEF VerifyMain
<1>3. CASE Goto("down") /\ UNCHANGED saved
  <2>1. run'.pc = "down" /\ run'.rec = run.rec /\ run'.task = run.task /\ run'.kind = run.kind
    BY <1>3, GotoDoes
  <2>2. RecordInv' /\ saved'.recs = [t \in Tasks |-> saved'.recs[t]]
    BY <1>1, <1>3, SavedStays DEF Known
  <2>3. TaskInv' /\ StepInv'
    BY <1>0, <1>1, <2>1 DEF Known, TaskInv, StepInv, Quiet
  <2>4. Form'
    BY <1>1, <2>1, <2>2 DEF VerifyMain, Known, Form, Quiet
  <2>5. QED
    BY <1>1, <2>2, <2>3, <2>4 DEF Known
<1>4. CASE Proceed("sync", rec)
  <2>1. /\ rec = [f \in RecFields |-> rec[f]]
        /\ rec.push = run.rec.push /\ rec.commit = run.rec.commit /\ rec.merge = run.rec.merge
        /\ rec.green = run.rec.green /\ rec.ciHead = run.rec.ciHead
    BY DEF Known, Form, RecFields
  <2> HIDE DEF rec
  <2>2. Holds(rec, run.task, seen'.pushed, seen'.green, remote'.main)
    BY <1>1, <2>1 DEF Known, StepInv, Holds, Quiet
  <2>3. /\ run'.pc = "sync" /\ run'.rec = rec /\ run'.task = run.task /\ run'.kind = run.kind
        /\ PersistRecord(rec)
    BY <1>4, ProceedDoes DEF rec
  <2>4. RecordInv' /\ saved'.recs = [t \in Tasks |-> saved'.recs[t]]
    BY <1>0, <1>1, <2>2, <2>3, RecordKept DEF Known
  <2>5. TaskInv' /\ StepInv'
    BY <1>0, <1>1, <2>2, <2>3 DEF Known, TaskInv, StepInv, Quiet
  <2>6. Form'
    BY <1>1, <2>1, <2>3, <2>4 DEF VerifyMain, Known, Form, Quiet
  <2>7. QED
    BY <1>1, <2>4, <2>5, <2>6 DEF Known
<1>5. QED
  BY <1>2, <1>3, <1>4 DEF VerifyMain

(* The campaign calls a task done only after its merge was seen in main.    *)
LEMMA SyncKnown == ASSUME Shape, Known, SyncMain PROVE Known'
<1>0. run.task \in Tasks /\ run.pc = "sync"
  BY DEF Known, TaskInv, SyncMain
<1>1. Quiet /\ Grows /\ BranchInv'
  BY SeenQuiet, QuietGrows, QuietBranch DEF Known, SyncMain, Quiet, Shape
<1>2. PICK synced, result :
        /\ run' = [run EXCEPT !.pc = "record", !.rec = [run.rec EXCEPT !.synced = synced],
                              !.result = result]
        /\ PersistRecord([run.rec EXCEPT !.synced = synced])
        /\ tree' = IF synced THEN [tree EXCEPT !.branch = NoTask] ELSE tree
  BY DEF SyncMain
<1> DEFINE rec == [run.rec EXCEPT !.synced = synced]
<1>3. /\ rec = [f \in RecFields |-> rec[f]]
      /\ rec.push = run.rec.push /\ rec.commit = run.rec.commit /\ rec.merge = run.rec.merge
      /\ rec.green = run.rec.green /\ rec.ciHead = run.rec.ciHead
  BY DEF Known, Form, RecFields
<1>4. run' = [run EXCEPT !.pc = "record", !.rec = rec, !.result = result] /\ PersistRecord(rec)
  BY <1>2
<1> HIDE DEF rec
<1>5. Holds(rec, run.task, seen'.pushed, seen'.green, remote'.main)
  BY <1>1, <1>3 DEF Known, StepInv, Holds, Quiet
<1>6. run'.pc = "record" /\ run'.rec = rec /\ run'.task = run.task /\ run'.kind = run.kind
  BY <1>4 DEF Shape, RunShape, RunFields
<1>7. RecordInv' /\ saved'.recs = [t \in Tasks |-> saved'.recs[t]]
  BY <1>0, <1>1, <1>4, <1>5, RecordKept DEF Known
<1>8. TaskInv' /\ StepInv'
  BY <1>0, <1>1, <1>5, <1>6 DEF Known, TaskInv, StepInv, Quiet
<1>9. tree' = [f \in TreeFields |-> tree'[f]]
  BY <1>2 DEF Known, Form, TreeFields
<1>10. Form'
  BY <1>1, <1>3, <1>6, <1>7, <1>9 DEF Known, Form, Quiet
<1>11. QED
  BY <1>1, <1>7, <1>8, <1>10 DEF Known

-----------------------------------------------------------------------------
(* The campaign's own steps.                                                *)


(* A process that is not running claims nothing.                            *)
LEMMA RestsKnown ==
  ASSUME run' = Down \/ run' = Ended
  PROVE  /\ TaskInv' /\ StepInv' /\ run'.rec = NewRecord
<1>1. run'.pc = "down" /\ run'.task = NoTask /\ run'.rec = NewRecord
  BY DEF Down, Ended
<1>2. QED
  BY <1>1, NewRecordForm DEF TaskInv, StepInv, Holds

LEMMA StartKnown == ASSUME Shape, Known, Start \/ StartCanary PROVE Known'
<1>1. Quiet /\ Grows /\ BranchInv' /\ UNCHANGED <<tree, saved>>
  BY QuietGrows, QuietBranch DEF Known, Start, StartCanary, Quiet
<1>2. RecordInv' /\ saved'.recs = [t \in Tasks |-> saved'.recs[t]]
  BY <1>1, SavedStays DEF Known
<1>3. /\ run'.rec = NewRecord
      /\ \/ run'.pc = "loop" /\ run'.kind = "backlog" /\ run'.task = NoTask
         \/ run'.pc = "gate" /\ run'.kind = "canary" /\ run'.task = Canary
  <2>1. CASE Start
    <3>1. PICK env : run' = [Executor("backlog", env) EXCEPT !.pc = "loop", !.skip = AlreadyAttempted]
      BY <2>1 DEF Start
    <3>2. QED
      BY <3>1 DEF Executor, Down
  <2>2. CASE StartCanary
    <3>1. PICK env : run' = [Executor("canary", env) EXCEPT !.pc = "gate", !.task = Canary]
      BY <2>2 DEF StartCanary
    <3>2. QED
      BY <3>1 DEF Executor, Down
  <2>3. QED
    BY <2>1, <2>2
<1>4. TaskInv' /\ StepInv'
  BY <1>3, NewRecordForm, CampaignAssumption DEF TaskInv, StepInv, Holds
<1>5. Form'
  BY <1>1, <1>2, <1>3, NewRecordForm DEF Known, Form, Quiet
<1>6. QED
  BY <1>1, <1>2, <1>4, <1>5 DEF Known

LEMMA StopsKnown == ASSUME Shape, Known, Stops PROVE Known'
<1>1. PICK reason \in {"max_tasks_reached", "max_runtime_reached", "resources_unavailable",
                       "backlog_exhausted"} : Stop(reason)
  BY DEF Stops
<1>2. Quiet /\ Grows /\ BranchInv' /\ UNCHANGED tree
  BY SeenQuiet, QuietGrows, QuietBranch DEF Known, Stops, Quiet, Shape
<1>3. saved'.recs = saved.recs /\ saved'.completed = saved.completed /\ saved'.stop = reason
  BY <1>1 DEF Stop, Shape, SavedShape, SavedFields
<1>4. RecordInv'
  BY <1>1, <1>2, <1>3 DEF Known, RecordInv, Quiet
<1>5. TaskInv' /\ StepInv' /\ run'.rec = NewRecord
  BY <1>1, RestsKnown DEF Stop
<1>6. Form'
  BY <1>2, <1>3, <1>5, NewRecordForm DEF Known, Form, Quiet
<1>7. QED
  BY <1>2, <1>4, <1>5, <1>6 DEF Known

LEMMA CrashKnown == ASSUME Shape, Known, Crash PROVE Known'
<1>1. Quiet /\ Grows /\ BranchInv'
  BY QuietGrows, QuietBranch DEF Known, Crash, Quiet, Shape, SeenShape, SeenFields
<1>2. RecordInv' /\ saved'.recs = [t \in Tasks |-> saved'.recs[t]]
  BY <1>1, SavedStays DEF Known, Crash
<1>3. TaskInv' /\ StepInv' /\ run'.rec = NewRecord
  BY RestsKnown DEF Crash
<1>4. tree' = [f \in TreeFields |-> tree'[f]]
  BY DEF Crash, Known, Form, TreeFields
<1>5. Form'
  BY <1>1, <1>2, <1>3, <1>4, NewRecordForm DEF Known, Form, Quiet
<1>6. QED
  BY <1>1, <1>2, <1>3, <1>5 DEF Known

(* The least of a set of task ids is one of them.                           *)
LEMMA MinimumIsOf ==
  ASSUME NEW S, S \subseteq Nat, S # {}
  PROVE  Minimum(S) \in S
<1>1. \E x \in S : \A y \in S : x <= y
  <2>1. PICK x \in S : \A y \in S : ~(<<y, x>> \in OpToRel(<, Nat))
    BY NatLessThanWellFounded, WFMin
  <2>2. ASSUME NEW y \in S, y < x PROVE FALSE
    <3>1. <<y, x>> \in OpToRel(<, Nat)
      <4>1. <<y, x>> \in Nat \X Nat /\ <<y, x>>[1] = y /\ <<y, x>>[2] = x
        OBVIOUS
      <4>2. QED
        BY <2>2, <4>1 DEF OpToRel
    <3>2. QED
      BY <2>1, <3>1
  <2>3. \A y \in S : x <= y
    <3> SUFFICES ASSUME NEW y \in S PROVE x <= y
      OBVIOUS
    <3>1. x \in Nat /\ y \in Nat /\ ~(y < x)
      BY <2>2
    <3>2. QED
      BY <3>1
  <2>4. QED
    BY <2>3
<1>2. QED
  BY <1>1 DEF Minimum

LEMMA TakeItemKnown == ASSUME Shape, Known, TakeItem PROVE Known'
<1> DEFINE item == NextItem(run.skip)
<1>1. item \in Tasks
  <2>1. Left(run.skip) # {} /\ Left(run.skip) \subseteq Tasks /\ Tasks \subseteq Nat
    BY CampaignAssumption, GitAssumption DEF TakeItem, Left, Eligible, Backlog
  <2>2. Bugs(Left(run.skip)) \subseteq Left(run.skip)
    BY DEF Bugs
  <2>3. QED
    BY <2>1, <2>2, MinimumIsOf DEF NextItem
<1>2. run' = [run EXCEPT !.pc = "gate", !.task = item, !.skip = @ \cup {item}, !.rec = NewRecord,
                         !.delta = {}, !.polls = 0, !.checks = "none", !.head = None]
  BY DEF TakeItem
<1> HIDE DEF item
<1>3. /\ run'.pc = "gate" /\ run'.task = item /\ run'.rec = NewRecord
      /\ run'.kind = run.kind /\ run.kind = "backlog"
  BY <1>2 DEF TakeItem, Shape, RunShape, RunFields
<1>4. Quiet /\ Grows /\ BranchInv'
  BY QuietGrows, QuietBranch DEF Known, TakeItem, Quiet
<1>5. RecordInv' /\ saved'.recs = [t \in Tasks |-> saved'.recs[t]]
  BY <1>4, SavedStays DEF Known, TakeItem
<1>6. TaskInv' /\ StepInv'
  BY <1>1, <1>3, NewRecordForm DEF TaskInv, StepInv, Holds
<1>7. Form'
  BY <1>3, <1>4, <1>5, NewRecordForm DEF TakeItem, Known, Form, Quiet
<1>8. QED
  BY <1>4, <1>5, <1>6, <1>7 DEF Known

(* An item is put on record as completed only when its task ended so.       *)
LEMMA RecordItemKnown == ASSUME Shape, Known, RecordItem \/ RecordCanary PROVE Known'
<1>0. run.task \in Tasks /\ run.pc = "record"
  BY DEF Known, TaskInv, RecordItem, RecordCanary
<1>1. Quiet /\ Grows /\ BranchInv'
  BY QuietGrows, QuietBranch DEF Known, RecordItem, RecordCanary, Quiet
<1>2. /\ saved'.recs = saved.recs
      /\ \/ saved'.completed = saved.completed
         \/ saved'.completed = saved.completed \cup {run.task} /\ run.result = "done"
      /\ saved'.stop = "verified" =>
           saved.stop = "verified" \/ (run.kind = "canary" /\ run.rec.merge)
  <2>1. CASE RecordItem
    <3>1. saved'.completed = IF run.result = "done" THEN saved.completed \cup {run.task}
                             ELSE saved.completed
      BY <2>1 DEF RecordItem, Shape, SavedShape, SavedFields
    <3>2. saved'.recs = saved.recs /\ saved'.stop = saved.stop
      BY <2>1 DEF RecordItem, Shape, SavedShape, SavedFields
    <3>3. QED
      BY <3>1, <3>2
  <2>2. CASE RecordCanary
    <3>1. saved'.completed = IF run.result = "done" THEN saved.completed \cup {run.task}
                             ELSE saved.completed
      BY <2>2 DEF RecordCanary, Shape, SavedShape, SavedFields
    <3>2. /\ saved'.recs = saved.recs
          /\ saved'.stop = IF FullyVerified(run.rec) THEN "verified" ELSE "incomplete"
      BY <2>2 DEF RecordCanary, Shape, SavedShape, SavedFields
    <3>3. QED
      BY <2>2, <3>1, <3>2 DEF RecordCanary, FullyVerified
  <2>3. QED
    BY <2>1, <2>2
<1>3. run.result = "done" => InMain(run.task, seen.green, remote.main)
  BY <1>0 DEF Known, StepInv
<1>4. run.kind = "canary" /\ run.rec.merge => \E c \in remote.main : c.task = Canary
  BY <1>0 DEF Known, TaskInv, StepInv, Holds
<1>5. RecordInv'
  BY <1>1, <1>2, <1>3, <1>4 DEF Known, RecordInv, Quiet
<1>6. TaskInv' /\ StepInv' /\ run'.rec = NewRecord
  <2>1. CASE RecordCanary
    BY <2>1, RestsKnown DEF RecordCanary
  <2>2. CASE RecordItem
    <3>1. run'.pc = "loop" /\ run'.task = NoTask /\ run'.rec = NewRecord /\ run'.kind = "backlog"
      BY <2>2 DEF RecordItem, Shape, RunShape, RunFields
    <3>2. QED
      BY <3>1, NewRecordForm DEF TaskInv, StepInv, Holds
  <2>3. QED
    BY <2>1, <2>2
<1>7. UNCHANGED tree
  BY DEF RecordItem, RecordCanary
<1>8. Form'
  BY <1>1, <1>2, <1>6, <1>7, NewRecordForm DEF Known, Form, Quiet
<1>9. QED
  BY <1>1, <1>5, <1>6, <1>8 DEF Known

-----------------------------------------------------------------------------
(* The world, between any two steps.                                        *)

(* What the process knows of itself, while the world moves.                 *)
Onlooker ==
  /\ run'.pc = run.pc /\ run'.task = run.task /\ run'.kind = run.kind /\ run'.rec = run.rec
  /\ run'.base = run.base /\ run'.delta = run.delta /\ run'.head = run.head
  /\ run'.checks = run.checks /\ run'.result = run.result
  /\ UNCHANGED <<saved, local>>

(* The world may add a person's piece, grow what was seen, and move or take *)
(* the branch of an open pull request.                                      *)
LEMMA WorldStep ==
  ASSUME Known, Onlooker, Grows, RemoteForm', tree' = [f \in TreeFields |-> tree'[f]],
         \A p \in tree'.work \ tree.work : p.by = Person,
         BranchInv',
         run.pc \in {"commit", "push"} => UNCHANGED remote,
         run.pc = "open" => remote'.branch = remote.branch /\ remote'.pr = remote.pr,
         run.pc \in {"ciChecks", "ciAfter"} =>
           \/ remote'.branch[run.task] = remote.branch[run.task]
           \/ remote'.branch[run.task] = None
           \/ /\ ~remote.branch[run.task].moved /\ remote'.branch[run.task].moved
              /\ remote.branch[run.task] # None
  PROVE  Known'
<1>1. RecordInv' /\ saved'.recs = [t \in Tasks |-> saved'.recs[t]]
  BY SavedStays DEF Known, Onlooker
<1>2. TaskInv'
  BY DEF Known, TaskInv, Onlooker
<1>3. Form'
  BY <1>1 DEF Known, Form, RemoteForm, Onlooker
<1>4. Holds(run'.rec, run'.task, seen'.pushed, seen'.green, remote'.main)
  BY HoldsGrows DEF Known, StepInv, Onlooker, Grows
<1>5. run'.pc = "attempt" => \A p \in tree'.work \ run'.base : p.by = Person
  BY DEF Known, StepInv, Onlooker
<1>6. run'.pc \in {"count", "verify", "sync"} \/ (run'.pc = "record" /\ run'.result = "done") =>
        InMain(run'.task, seen'.green, remote'.main)
  BY InMainGrows DEF Known, StepInv, Onlooker, Grows
<1>7. run'.pc = "ciChecks" =>
        \/ run'.head = None \/ run'.head = remote'.branch[run'.task]
        \/ Gone(run'.head, remote'.branch[run'.task])
  BY DEF Known, StepInv, Onlooker, Gone
<1>8. run'.pc = "ciAfter" /\ run'.checks = "green" =>
        \/ run'.head = None \/ run'.head \in seen'.green
        \/ Gone(run'.head, remote'.branch[run'.task])
  BY DEF Known, StepInv, Onlooker, Gone, Grows
<1>9. StepInv'
  BY <1>4, <1>5, <1>6, <1>7, <1>8 DEF Known, StepInv, Onlooker, Grows
<1>10. QED
  BY <1>1, <1>2, <1>3, <1>9 DEF Known

LEMMA OnlookerIs ==
  ASSUME Shape, UNCHANGED <<saved, local>>, UNCHANGED run \/ \E env : run' = [run EXCEPT !.env = env]
  PROVE  Onlooker
BY DEF Shape, RunShape, RunFields, Onlooker

(* Someone's edit, a changed hook, an ageing grant, a provider's return.    *)
LEMMA AsideKnown ==
  ASSUME Shape, Known, PersonEdits \/ HooksChange \/ EnvelopeAges \/ Recovers
  PROVE  Known'
<1>1. Quiet /\ Grows /\ BranchInv'
  BY SeenQuiet, QuietGrows, QuietBranch
  DEF Known, PersonEdits, HooksChange, EnvelopeAges, Recovers, Quiet, Shape
<1>2. Onlooker
  <2>1. UNCHANGED <<saved, local>> /\ (UNCHANGED run \/ \E env : run' = [run EXCEPT !.env = env])
    BY DEF PersonEdits, HooksChange, EnvelopeAges, Recovers
  <2>2. QED
    BY <2>1, OnlookerIs
<1>3. tree' = [f \in TreeFields |-> tree'[f]] /\ \A p \in tree'.work \ tree.work : p.by = Person
  <2>1. \/ UNCHANGED tree
        \/ tree' = [tree EXCEPT !.work = @ \cup {[task |-> NoTask, by |-> Person, life |-> 0]}]
        \/ tree' = [tree EXCEPT !.hooks = "changed"]
    BY DEF PersonEdits, HooksChange, EnvelopeAges, Recovers
  <2>2. QED
    BY <2>1 DEF Known, Form, TreeFields
<1>4. RemoteForm'
  BY <1>1 DEF Known, Form, RemoteForm, Quiet
<1>5. QED
  BY <1>1, <1>2, <1>3, <1>4, WorldStep DEF Quiet

LEMMA ChecksReportKnown == ASSUME Shape, Known, ChecksReport PROVE Known'
<1> DEFINE u == run.task
<1>0. /\ u \in Tasks /\ remote.pr[u] = "open" /\ BranchOf(u) /\ remote.branch[u] # None
      /\ UNCHANGED <<run, saved, local, tree>>
  BY DEF Known, TaskInv, BranchInv, BranchOf, ChecksReport
<1>1. PICK status \in {"green", "red"} :
        /\ remote' = [remote EXCEPT !.checks[u] = status]
        /\ seen' = IF status = "green" THEN [seen EXCEPT !.green = @ \cup {remote.branch[u]}] ELSE seen
  BY DEF ChecksReport
<1>2. /\ remote'.main = remote.main /\ remote'.branch = remote.branch /\ remote'.pr = remote.pr
      /\ remote'.policy = remote.policy
      /\ remote'.checks = [remote.checks EXCEPT ![u] = status]
      /\ remote' = [f \in RemoteFields |-> remote'[f]]
  <2>1. remote' = [remote EXCEPT !.checks = [remote.checks EXCEPT ![u] = status]]
    BY <1>1
  <2>2. QED
    BY <2>1 DEF Known, Form, RemoteFields
<1>3. /\ seen'.pushed = seen.pushed /\ seen.green \subseteq seen'.green
      /\ status = "green" => remote.branch[u] \in seen'.green
  <2>1. CASE status = "green"
    BY <1>1, <2>1 DEF Shape, SeenShape, SeenFields
  <2>2. CASE status # "green"
    BY <1>1, <2>2
  <2>3. QED
    BY <2>1, <2>2
<1>4. /\ remote'.checks[u] = status
      /\ \A t \in Tasks : t # u => remote'.checks[t] = remote.checks[t]
  BY <1>0, <1>2 DEF Known, Form
<1>5. RemoteForm'
  BY <1>2 DEF RemoteForm, Known, Form
<1>6. Grows
  BY <1>2, <1>3 DEF Grows
<1>7. BranchInv'
  <2> SUFFICES ASSUME NEW t \in Tasks PROVE BranchOf(t)'
    BY DEF BranchInv
  <2>1. BranchOf(t)
    BY DEF Known, BranchInv
  <2>2. CASE t # u
    BY <1>0, <1>2, <1>3, <1>4, <2>1, <2>2 DEF BranchOf
  <2>3. CASE t = u
    BY <1>0, <1>2, <1>3, <1>4, <2>1, <2>3 DEF BranchOf
  <2>4. QED
    BY <2>2, <2>3
<1>8. run.pc \notin {"commit", "push", "open"}
  BY <1>0 DEF Known, StepInv
<1>9. Onlooker /\ tree' = [f \in TreeFields |-> tree'[f]]
  BY <1>0, OnlookerIs, TreeForm
<1>10. QED
  BY <1>0, <1>2, <1>5, <1>6, <1>7, <1>8, <1>9, WorldStep

LEMMA HeadMovesKnown == ASSUME Shape, Known, HeadMoves PROVE Known'
<1> DEFINE u == run.task
           moved == [remote.branch[u] EXCEPT !.moved = TRUE]
<1>0. /\ u \in Tasks /\ remote.pr[u] = "open" /\ BranchOf(u) /\ remote.branch[u] # None
      /\ ~remote.branch[u].moved
      /\ UNCHANGED <<run, saved, local, tree>>
  BY DEF Known, TaskInv, BranchInv, BranchOf, HeadMoves
<1>1. IsCommit(moved) /\ moved.task = u /\ moved.work = local[u].work /\ moved.moved
  BY <1>0 DEF BranchOf, IsCommit, CommitFields
<1>2. remote' = [remote EXCEPT !.branch = [remote.branch EXCEPT ![u] = moved],
                               !.checks = [remote.checks EXCEPT ![u] = "pending"]]
  BY DEF HeadMoves
<1> HIDE DEF moved
<1>3. moved # None
  BY <1>1, NoneIs
<1>4. /\ remote'.main = remote.main /\ remote'.pr = remote.pr /\ remote'.policy = remote.policy
      /\ remote'.branch = [remote.branch EXCEPT ![u] = moved]
      /\ remote'.checks = [remote.checks EXCEPT ![u] = "pending"]
      /\ remote' = [f \in RemoteFields |-> remote'[f]]
  BY <1>2 DEF Known, Form, RemoteFields
<1>5. seen'.pushed = seen.pushed /\ seen'.green = seen.green
  BY SeenQuiet DEF HeadMoves, Shape
<1>6. /\ remote'.branch[u] = moved /\ remote'.checks[u] = "pending"
      /\ \A t \in Tasks : t # u =>
           remote'.branch[t] = remote.branch[t] /\ remote'.checks[t] = remote.checks[t]
  BY <1>0, <1>4 DEF Known, Form
<1>7. RemoteForm'
  BY <1>4 DEF RemoteForm, Known, Form
<1>8. Grows
  BY <1>4, <1>5 DEF Grows
<1>9. BranchInv'
  <2> SUFFICES ASSUME NEW t \in Tasks PROVE BranchOf(t)'
    BY DEF BranchInv
  <2>1. BranchOf(t)
    BY DEF Known, BranchInv
  <2>2. CASE t # u
    BY <1>0, <1>4, <1>5, <1>6, <2>1, <2>2 DEF BranchOf
  <2>3. CASE t = u
    BY <1>0, <1>1, <1>3, <1>4, <1>5, <1>6, <2>1, <2>3 DEF BranchOf
  <2>4. QED
    BY <2>2, <2>3
<1>10. run.pc \notin {"commit", "push", "open"}
  BY <1>0 DEF Known, StepInv
<1>11. Onlooker /\ tree' = [f \in TreeFields |-> tree'[f]]
  BY <1>0, OnlookerIs, TreeForm
<1>12. QED
  BY <1>0, <1>1, <1>6, <1>7, <1>8, <1>9, <1>10, <1>11, WorldStep

LEMMA PersonMergesKnown == ASSUME Shape, Known, PersonMerges PROVE Known'
<1> DEFINE u == run.task
<1>0. /\ u \in Tasks /\ Mergeable(u) /\ remote' = Landed(u)
      /\ UNCHANGED <<run, saved, local, tree>>
      /\ seen'.pushed = seen.pushed /\ seen'.green = seen.green
  BY SeenQuiet DEF Known, TaskInv, PersonMerges, Shape
<1>1. Grows /\ BranchInv' /\ RemoteForm' /\ remote'.branch[u] = None
  BY <1>0, LandedKnown
<1>2. run.pc \notin {"commit", "push", "open"}
  BY <1>0 DEF Known, StepInv, Mergeable
<1>3. Onlooker /\ tree' = [f \in TreeFields |-> tree'[f]]
  BY <1>0, OnlookerIs, TreeForm
<1>4. QED
  BY <1>0, <1>1, <1>2, <1>3, WorldStep

-----------------------------------------------------------------------------
LEMMA InitKnown == ASSUME CampaignInit PROVE Known
<1>1. BranchInv
  <2> SUFFICES ASSUME NEW t \in Tasks PROVE BranchOf(t)
    BY DEF BranchInv
  <2>1. local[t] = None /\ remote.branch[t] = None /\ remote.pr[t] = "none"
    BY DEF CampaignInit
  <2>2. QED
    BY <2>1, NoneIs DEF BranchOf, Pure
<1>2. Form
  <2>1. /\ run.rec = NewRecord /\ saved.recs = [t \in Tasks |-> NewRecord]
        /\ local = [t \in Tasks |-> None]
    BY DEF CampaignInit, NewState, Down
  <2>2. tree = [f \in TreeFields |-> tree[f]]
    BY DEF CampaignInit, TreeFields
  <2>3. PICK policy :
          remote = [main |-> {}, branch |-> [t \in Tasks |-> None], pr |-> [t \in Tasks |-> "none"],
                    checks |-> [t \in Tasks |-> "none"], policy |-> policy]
    BY DEF CampaignInit
  <2>4. remote = [f \in RemoteFields |-> remote[f]]
    BY <2>3 DEF RemoteFields
  <2>5. /\ remote.branch = [t \in Tasks |-> None] /\ remote.pr = [t \in Tasks |-> "none"]
        /\ remote.checks = [t \in Tasks |-> "none"]
    BY <2>3
  <2>6. QED
    BY <2>1, <2>2, <2>4, <2>5, NewRecordForm DEF Form
<1>3. TaskInv /\ StepInv
  BY NewRecordForm DEF CampaignInit, TaskInv, StepInv, Holds, Down
<1>4. RecordInv
  BY NewRecordForm DEF CampaignInit, NewState, RecordInv, Holds
<1>5. QED
  BY <1>1, <1>2, <1>3, <1>4 DEF Known

LEMMA StepKnown == ASSUME Shape, Known, [Next]_gitVars PROVE Known'
<1>1. CASE Start \/ StartCanary
  BY <1>1, StartKnown
<1>2. CASE Stops \/ TakeItem \/ RecordItem \/ RecordCanary \/ Crash
  BY <1>2, StopsKnown, TakeItemKnown, RecordItemKnown, CrashKnown
<1>3. CASE TaskStep
  BY <1>3, AdmitKnown, AttemptKnown, CreateBranchKnown, CommitKnown, PushKnown, OpenKnown,
     ReadHeadKnown, ReadChecksKnown, ObserveKnown, MergeKnown, CountMergeKnown, VerifyKnown,
     SyncKnown
  DEF TaskStep
<1>4. CASE World
  BY <1>4, ChecksReportKnown, HeadMovesKnown, PersonMergesKnown, AsideKnown DEF World
<1>5. CASE UNCHANGED gitVars
  <2>1. UNCHANGED <<run, saved, tree, local, remote, seen>>
    BY <1>5 DEF gitVars
  <2>2. Form'
    BY <2>1 DEF Known, Form
  <2>3. BranchInv'
    BY <2>1, QuietBranch DEF Known, Quiet
  <2>4. TaskInv' /\ StepInv' /\ RecordInv'
    BY <2>1 DEF Known, TaskInv, StepInv, RecordInv
  <2>5. QED
    BY <2>2, <2>3, <2>4 DEF Known
<1>6. QED
  BY <1>1, <1>2, <1>3, <1>4, <1>5 DEF Next, CampaignStep

LEMMA KnownMeans == Known => RecordIsTrue /\ AttemptsDoNotMix
<1> SUFFICES ASSUME Known PROVE RecordIsTrue /\ AttemptsDoNotMix
  OBVIOUS
<1>1. RecordIsTrue
  BY DEF Known, RecordInv, Holds, InMain, RecordIsTrue, RecordHolds
<1>2. AttemptsDoNotMix
  <2> SUFFICES ASSUME NEW t \in Tasks
               PROVE  Pure(local[t].work \cup remote.branch[t].work)
    BY DEF AttemptsDoNotMix, Pure
  <2>1. BranchOf(t)
    BY DEF Known, BranchInv
  <2>2. remote.branch[t].work \in {local[t].work, {}}
    BY <2>1, NoneIs DEF BranchOf
  <2>3. QED
    BY <2>1, <2>2 DEF BranchOf, Pure
<1>3. QED
  BY <1>1, <1>2

LEMMA KnownAlways == Spec => [](Shape /\ Known)
<1>1. CampaignInit => BudgetInv /\ Known
  BY InitBudget, InitKnown
<1>2. (BudgetInv /\ Known) /\ [Next]_gitVars => (BudgetInv /\ Known)'
  BY StepBudget, StepKnown DEF BudgetInv
<1>3. BudgetInv /\ Known => Shape /\ Known
  BY DEF BudgetInv
<1>4. QED
  BY <1>1, <1>2, <1>3, PTL DEF Spec

(* The campaign's records claim only what was so: a task on record as       *)
(* completed is in main with its checks seen green, and a record's push,    *)
(* checks and merge happened, whichever command lied or went unseen,        *)
(* however the head moved between the questions of one observation, and     *)
(* whenever the process was lost (marathon.py, git_integration.py).         *)
THEOREM RecordIsTrueCorrect == Spec => []RecordIsTrue
BY KnownAlways, KnownMeans, PTL

(* No commit mixes the work of two attempts: what a failed provider left,   *)
(* reverted or not, is never part of what the next one is credited with     *)
(* (marathon.py, capture_baseline, _reconcile_attempt_state).               *)
THEOREM AttemptsDoNotMixCorrect == Spec => []AttemptsDoNotMix
BY KnownAlways, KnownMeans, PTL
=============================================================================
