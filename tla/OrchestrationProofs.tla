------------------------ MODULE OrchestrationProofs ------------------------
(***************************************************************************)
(* For any coordinators, sessions, agents and requests, in the use the code *)
(* is written for: one coordinator works in a worktree, on a session that   *)
(* is its own on disk; and a session that is complete was accepted, and     *)
(* found clean where an audit was asked for, as the worktree stood.         *)
(*                                                                          *)
(* The first says nothing of the sessions nobody works at.  A resume or a   *)
(* new goal is kept out by what it finds on disk: at most one session that  *)
(* may go on, and, while a coordinator works, no other than its own - with  *)
(* its lease, lately renewed.  The second needs to know, of every session   *)
(* that may go on, what the stage it stands at is evidence of.              *)
(***************************************************************************)
EXTENDS Orchestration, TLAPS

DocFields == {"id", "lease", "status", "stage", "policy", "requested", "lead", "strategy",
              "failover", "verify", "agents", "timedOut", "barred", "assigned", "implementer",
              "implemented", "audit", "clean", "accepted", "reworks", "needsValidation",
              "reconciled", "onlyVerify", "evidence"}

(* A document, as far as it matters here: whose it is and its fields.       *)
IsDoc(d) == d = [f \in DocFields |-> d[f]] /\ d.id \in Ids

(* e is d with other contents: the same session under the same lease.       *)
Same(d, e) == IsDoc(e) /\ e.id = d.id /\ e.lease = d.lease
SameState(d, e) == Same(d, e) /\ e.status = d.status
(* e says the same of the work; it differs from d in what it knows of the   *)
(* agents only.                                                             *)
SaysSame(d, e) ==
  /\ e.policy = d.policy /\ e.stage = d.stage /\ e.onlyVerify = d.onlyVerify
  /\ e.implementer = d.implementer /\ e.needsValidation = d.needsValidation
  /\ e.audit = d.audit /\ e.clean = d.clean /\ e.accepted = d.accepted
  /\ e.evidence = d.evidence
SameWork(d, e) == SameState(d, e) /\ SaysSame(d, e)

(* What is where.                                                           *)
Shape ==
  /\ disk = [i \in Ids |-> disk[i]] /\ fresh = [i \in Ids |-> fresh[i]]
  /\ at = [c \in Coordinators |-> at[c]]
  /\ mem = [c \in Coordinators |-> mem[c]]
  /\ \A i \in Ids : disk[i] = NoSession \/ (IsDoc(disk[i]) /\ disk[i].id = i)
  /\ \A c \in Coordinators :
       IF Running(c) THEN IsDoc(mem[c]) /\ mem[c].lease = c ELSE mem[c] = NoSession

(* The session of a working coordinator is on disk as it knows it, under    *)
(* its lease, and renewed.                                                  *)
Owns(c) ==
  LET i == mem[c].id IN
  /\ disk[i] # NoSession /\ disk[i].lease = c /\ fresh[i]
  /\ disk[i].status = mem[c].status /\ disk[i].audit = mem[c].audit
  /\ at[c] \notin {"enter", "verifyOnly"} => mem[c].status = "RUNNING"
  /\ Active \subseteq {i}

Finished(c) == LET i == mem[c].id IN
               disk[i] # NoSession /\ disk[i].lease = c /\ disk[i].status = "COMPLETE"

CoordInv ==
  /\ Shape
  /\ \A c \in Coordinators : Working(c) => Owns(c)
  /\ \A c, o \in Coordinators : Working(c) /\ Working(o) => c = o
  /\ \A c \in Coordinators : at[c] = "unlink" => Finished(c)
  /\ \A i, j \in Active : i = j

-----------------------------------------------------------------------------
(* Documents *)

LEMMA NoSessionIsNone == \A d : IsDoc(d) => d # NoSession
BY AgentsAssumption DEF IsDoc, NoSession

(* What the agents did or are asked leaves a session's name, lease and      *)
(* status alone, and what it says of the work.                              *)
LEMMA LearnSame == ASSUME NEW d, NEW a, NEW r, IsDoc(d) PROVE SameWork(d, Learn(d, a, r))
BY DEF IsDoc, Same, SameState, SameWork, SaysSame, Learn, DocFields

LEMMA BarredSame ==
  ASSUME NEW d, NEW who, IsDoc(d) PROVE SameWork(d, [d EXCEPT !.barred = who])
BY DEF IsDoc, Same, SameState, SameWork, SaysSame, DocFields

LEMMA SameWorkTransitive ==
  ASSUME NEW d, NEW e, NEW g, SameWork(d, e), SameWork(e, g) PROVE SameWork(d, g)
BY DEF Same, SameState, SameWork, SaysSame

LEMMA SameStateTransitive ==
  ASSUME NEW d, NEW e, NEW g, SameState(d, e), SameState(e, g) PROVE SameState(d, g)
BY DEF Same, SameState

LEMMA SuccessSame == ASSUME NEW d, NEW a, IsDoc(d) PROVE SameWork(d, RecordSuccess(d, a))
<1> DEFINE known == [d.agents[a] EXCEPT !.state = "AVAILABLE", !.unattended = "yes"]
           learnt == Learn(d, a, known)
<1>1. SameWork(d, learnt)
  <2> HIDE DEF known
  <2>1. QED
    BY LearnSame
<1>2. RecordSuccess(d, a) = [learnt EXCEPT !.barred = learnt.barred \ {a}]
  BY DEF RecordSuccess
<1>3. QED
  <2> HIDE DEF learnt
  <2>1. SameWork(learnt, [learnt EXCEPT !.barred = learnt.barred \ {a}])
    BY <1>1, BarredSame DEF Same, SameState, SameWork, SaysSame
  <2>2. QED
    BY <1>1, <1>2, <2>1, SameWorkTransitive

LEMMA FailureSame ==
  ASSUME NEW d, NEW a, NEW role, NEW f, IsDoc(d) PROVE SameWork(d, RecordFailure(d, a, role, f))
<1> DEFINE barred == [d EXCEPT !.barred = @ \cup {a}]
<1>1. SameWork(d, d)
  BY DEF Same, SameState, SameWork, SaysSame
<1>2. SameWork(d, barred)
  BY BarredSame
<1>3. SameWork(d, [d EXCEPT !.timedOut = @ \cup {<<role, a>>}])
  BY DEF IsDoc, Same, SameState, SameWork, SaysSame, DocFields
<1>4. \/ RecordFailure(d, a, role, f) = d
      \/ RecordFailure(d, a, role, f) = [d EXCEPT !.timedOut = @ \cup {<<role, a>>}]
      \/ \E r : RecordFailure(d, a, role, f) = Learn(d, a, r)
      \/ \E r : RecordFailure(d, a, role, f) = Learn(barred, a, r)
  BY Zenon DEF RecordFailure
<1>5. QED
  <2> HIDE DEF barred
  <2>1. \A r : SameWork(d, Learn(d, a, r))
    BY LearnSame
  <2>2. \A r : SameWork(d, Learn(barred, a, r))
    <3>1. ASSUME NEW r PROVE SameWork(barred, Learn(barred, a, r))
      BY <1>2, LearnSame DEF Same, SameState, SameWork, SaysSame
    <3>2. QED
      BY <1>2, <3>1, SameWorkTransitive
  <2>3. QED
    BY <1>1, <1>3, <1>4, <2>1, <2>2

LEMMA ReworkSame == ASSUME NEW d, IsDoc(d) PROVE SameState(d, BeginRework(d))
BY DEF IsDoc, Same, SameState, BeginRework, DocFields

LEMMA ExpiredSame == ASSUME NEW d, IsDoc(d) PROVE SameState(d, ExpireVerdicts(d))
BY DEF IsDoc, Same, SameState, ExpireVerdicts, DocFields

LEMMA ChangedSame ==
  ASSUME NEW d, NEW stage, IsDoc(d)
  PROVE  SameState(d, [d EXCEPT !.needsValidation = TRUE, !.reconciled = TRUE, !.stage = stage])
BY DEF IsDoc, Same, SameState, DocFields

LEMMA ReconcileSame == ASSUME NEW d, IsDoc(d) PROVE SameState(d, Reconcile(d))
<1> DEFINE seen == [d EXCEPT !.assigned = FALSE, !.evidence = tree]
           stage == IF d.policy = "PLAN ONLY" THEN "planning" ELSE "implementation"
           judged == ExpireVerdicts(seen)
           changed == [judged EXCEPT !.needsValidation = TRUE, !.reconciled = TRUE, !.stage = stage]
<1>1. SameState(d, seen)
  BY DEF IsDoc, Same, SameState, DocFields
<1>2. SameState(seen, judged)
  <2> HIDE DEF seen
  <2>1. QED
    BY <1>1, ExpiredSame DEF SameState, Same
<1>3. SameState(judged, changed)
  <2> HIDE DEF judged, stage
  <2>1. QED
    BY <1>2, ChangedSame DEF SameState, Same
<1>4. Reconcile(d) = IF d.evidence = tree THEN seen ELSE changed
  BY DEF Reconcile
<1>5. QED
  <2> HIDE DEF seen, judged, changed
  <2>1. QED
    BY <1>1, <1>2, <1>3, <1>4 DEF Same, SameState

LEMMA AdjustedSame ==
  ASSUME NEW d, NEW how \in AllAdjustments, IsDoc(d), NEW e \in Adjusted(d, how)
  PROVE  SameWork(d, e)
<1>1. CASE how \in {"reserve", "refresh"}
  <2>1. PICK a, r : e = Learn(d, a, r)
    BY <1>1 DEF Adjusted, Refreshed
  <2>2. QED
    BY <2>1, LearnSame
<1>2. CASE how = "lead"
  <2>1. PICK a : e = [d EXCEPT !.requested = a, !.lead = a]
    BY <1>2 DEF Adjusted
  <2>2. QED
    BY <2>1 DEF IsDoc, Same, SameState, SameWork, SaysSame, DocFields
<1>3. CASE how = "trust"
  <2>1. PICK r : e = [d EXCEPT !.agents = r]
    BY <1>3 DEF Adjusted
  <2>2. QED
    BY <2>1 DEF IsDoc, Same, SameState, SameWork, SaysSame, DocFields
<1>4. CASE how \in {"none", "timeouts", "tests"}
  <2>1. e = d \/ e = [d EXCEPT !.timedOut = {}] \/ e = [d EXCEPT !.verify = TRUE]
    BY <1>4 DEF Adjusted
  <2>2. QED
    BY <2>1 DEF IsDoc, Same, SameState, SameWork, SaysSame, DocFields
<1>5. QED
  BY <1>1, <1>2, <1>3, <1>4 DEF AllAdjustments

(* A resume takes a session up under its own lease.                         *)
LEMMA TakenUpOwned ==
  ASSUME NEW c \in Coordinators, NEW i \in Ids, IsDoc(disk[i]), disk[i].id = i,
         NEW d \in TakenUp(i, c)
  PROVE  IsDoc(d) /\ d.id = i /\ d.lease = c
<1> DEFINE mine == [disk[i] EXCEPT !.lease = c]
<1>1. IsDoc(mine) /\ mine.id = i /\ mine.lease = c
  BY DEF IsDoc, DocFields
<1>2. PICK e : /\ e = mine \/ e = [mine EXCEPT !.onlyVerify = TRUE]
               /\ d \in ResumeOptions(Reconcile(e))
  BY DEF TakenUp
<1>3. IsDoc(e) /\ e.id = i /\ e.lease = c
  <2> HIDE DEF mine
  <2>1. QED
    BY <1>1, <1>2 DEF IsDoc, DocFields
<1>4. SameState(e, Reconcile(e))
  BY <1>3, ReconcileSame
<1>5. PICK how \in AllAdjustments : d \in Adjusted(Reconcile(e), how)
  BY <1>2, AgentsAssumption DEF ResumeOptions
<1>6. SameState(Reconcile(e), d)
  BY <1>4, <1>5, AdjustedSame DEF SameWork, SameState, Same
<1>7. QED
  BY <1>3, <1>4, <1>6 DEF Same, SameState

-----------------------------------------------------------------------------
(* What a coordinator's step does to the rest *)

LEMMA ResumableByStatus ==
  ASSUME NEW d, NEW e, d.status = e.status, d.audit = e.audit
  PROVE  IsResumable(d) <=> IsResumable(e)
BY DEF IsResumable

(* Whoever works may write, and its checkpoint keeps what it owns its own:  *)
(* it goes on as running, ends, or has finished.                            *)
Going == {"enter", "recover", "assign", "work", "fell", "mutated", "validate", "finish"}

LEMMA CheckpointInv ==
  ASSUME CoordInv, NEW c \in Coordinators, Working(c), NEW d, Same(mem[c], d), NEW place, NEW l,
         Checkpoint(c, d, place, l),
         \/ place = "idle"
         \/ place \in Going /\ d.status = "RUNNING"
         \/ place = "unlink" /\ d.status = "COMPLETE"
  PROVE  CoordInv'
<1> DEFINE i == mem[c].id
           doc == [d EXCEPT !.evidence = tree]
<1>0. Shape /\ IsDoc(mem[c]) /\ mem[c].lease = c /\ i \in Ids
  BY DEF CoordInv, Shape, Working, Running, IsDoc
<1>1. Owns(c) /\ disk[i].lease = c /\ Active \subseteq {i}
  BY DEF CoordInv, Owns
<1>2. /\ IsDoc(doc) /\ doc.id = i /\ doc.lease = c
      /\ doc.status = d.status /\ doc.audit = d.audit /\ doc # NoSession
  <2>1. /\ IsDoc(doc) /\ doc.id = d.id /\ doc.lease = d.lease
        /\ doc.status = d.status /\ doc.audit = d.audit
    BY DEF Same, IsDoc, DocFields
  <2> HIDE DEF doc
  <2>2. QED
    BY <1>0, <2>1, NoSessionIsNone DEF Same
<1>3. /\ disk' = [disk EXCEPT ![i] = doc] /\ fresh' = [fresh EXCEPT ![i] = TRUE]
      /\ at' = [at EXCEPT ![c] = place]
      /\ mem' = [mem EXCEPT ![c] = IF place = "idle" THEN NoSession ELSE doc]
  BY <1>1 DEF Checkpoint, MayWrite, Same
<1> HIDE DEF doc
<1>4. \A o \in Coordinators : o # c => at'[o] = at[o] /\ mem'[o] = mem[o] /\ ~Working(o)
  BY <1>0, <1>3 DEF CoordInv, Shape
<1>5. at'[c] = place /\ mem'[c] = (IF place = "idle" THEN NoSession ELSE doc)
  BY <1>0, <1>3 DEF Shape
<1>6. /\ disk'[i] = doc /\ fresh'[i] = TRUE
      /\ \A j \in Ids : j # i => disk'[j] = disk[j] /\ fresh'[j] = fresh[j]
  BY <1>0, <1>3 DEF Shape
<1>7. Shape'
  <2>1. /\ disk' = [j \in Ids |-> disk'[j]] /\ fresh' = [j \in Ids |-> fresh'[j]]
        /\ at' = [o \in Coordinators |-> at'[o]] /\ mem' = [o \in Coordinators |-> mem'[o]]
    BY <1>0, <1>3 DEF Shape
  <2>2. \A j \in Ids : disk'[j] = NoSession \/ (IsDoc(disk'[j]) /\ disk'[j].id = j)
    BY <1>0, <1>2, <1>6 DEF Shape
  <2>3. \A o \in Coordinators :
          IF Running(o)' THEN IsDoc(mem'[o]) /\ mem'[o].lease = o ELSE mem'[o] = NoSession
    BY <1>0, <1>2, <1>4, <1>5 DEF Shape, Running, Going
  <2>4. QED
    BY <2>1, <2>2, <2>3 DEF Shape, IsDoc
<1>8. Active' \subseteq {i}
  BY <1>1, <1>6 DEF Active, Present
<1>9. \A o \in Coordinators : Working(o)' => o = c
  BY <1>4 DEF Working, Running
<1>10. Working(c)' => Owns(c)'
  <2> SUFFICES ASSUME Working(c)' PROVE Owns(c)'
    OBVIOUS
  <2>1. place \in Going /\ place # "idle" /\ d.status = "RUNNING"
    BY <1>5 DEF Working, Running, Going
  <2>2. mem'[c] = doc
    BY <1>5, <2>1
  <2>3. QED
    BY <1>2, <1>6, <1>8, <2>1, <2>2 DEF Owns
<1>11. \A o \in Coordinators : at'[o] = "unlink" => Finished(o)'
  <2>1. ASSUME at'[c] = "unlink" PROVE Finished(c)'
    BY <1>2, <1>5, <1>6, <2>1 DEF Finished, Going
  <2>2. ASSUME NEW o \in Coordinators, o # c, at'[o] = "unlink" PROVE Finished(o)'
    <3>1. Finished(o) /\ mem'[o] = mem[o] /\ mem[o].id \in Ids
      <4>1. at[o] = "unlink" /\ mem'[o] = mem[o]
        BY <1>4, <2>2
      <4>2. Finished(o) /\ IsDoc(mem[o])
        BY <4>1 DEF CoordInv, Shape, Running
      <4>3. QED
        BY <4>1, <4>2 DEF IsDoc
    <3>2. mem[o].id # i
      BY <1>1, <2>2, <3>1 DEF Finished
    <3>3. QED
      BY <1>6, <3>1, <3>2 DEF Finished
  <2>3. QED
    BY <2>1, <2>2
<1>12. QED
  BY <1>7, <1>8, <1>9, <1>10, <1>11 DEF CoordInv

(* A step that saves nothing.                                               *)
LEMMA MoveInv ==
  ASSUME CoordInv, NEW c \in Coordinators, Working(c), NEW place \in Going,
         place # "enter" => mem[c].status = "RUNNING",
         NEW d, SameState(mem[c], d), d.audit = mem[c].audit,
         at' = [at EXCEPT ![c] = place], mem' = [mem EXCEPT ![c] = d], UNCHANGED <<disk, fresh>>
  PROVE  CoordInv'
<1>0. Shape /\ IsDoc(mem[c]) /\ mem[c].lease = c
  BY DEF CoordInv, Shape, Working, Running
<1>1. /\ at'[c] = place /\ mem'[c] = d /\ d.lease = c /\ IsDoc(d) /\ d.id = mem[c].id
      /\ \A o \in Coordinators : o # c => at'[o] = at[o] /\ mem'[o] = mem[o] /\ ~Working(o)
  BY <1>0 DEF CoordInv, Shape, SameState, Same
<1>2. Shape'
  BY <1>0, <1>1 DEF Shape, Running, Going
<1>3. Active' = Active
  BY DEF Active, Present
<1>4. Owns(c)'
  BY <1>1, <1>3 DEF CoordInv, Owns, SameState
<1>5. \A o \in Coordinators : (Working(o)' => o = c) /\ (at'[o] = "unlink" => Finished(o)')
  BY <1>1 DEF Working, Running, CoordInv, Finished, Going
<1>6. QED
  BY <1>2, <1>3, <1>4, <1>5 DEF CoordInv

(* A coordinator that is gone leaves its session behind as it was.          *)
LEMMA GoneInv ==
  ASSUME CoordInv, NEW c \in Coordinators, Running(c),
         at' = [at EXCEPT ![c] = "idle"], mem' = [mem EXCEPT ![c] = NoSession],
         UNCHANGED <<disk, fresh>>
  PROVE  CoordInv'
<1>1. /\ at'[c] = "idle" /\ mem'[c] = NoSession
      /\ \A o \in Coordinators : o # c => at'[o] = at[o] /\ mem'[o] = mem[o]
  BY DEF CoordInv, Shape
<1>2. Shape'
  BY <1>1 DEF CoordInv, Shape, Running
<1>3. Active' = Active
  BY DEF Active, Present
<1>4. QED
  BY <1>1, <1>2, <1>3 DEF CoordInv, Owns, Finished, Working, Running

-----------------------------------------------------------------------------
(* The coordinator's own steps *)

LEMMA OwnSession ==
  ASSUME CoordInv, NEW c \in Coordinators, Working(c)
  PROVE  /\ IsDoc(mem[c])
         /\ at[c] \notin {"enter", "verifyOnly"} => mem[c].status = "RUNNING"
BY DEF CoordInv, Shape, Owns, Working, Running

LEMMA EndsInv ==
  ASSUME CoordInv, NEW c \in Coordinators, Working(c), NEW d, Same(mem[c], d), Ends(c, d)
  PROVE  CoordInv'
BY CheckpointInv DEF Ends

LEMMA EntersInv ==
  ASSUME CoordInv, NEW c \in Coordinators, Working(c), NEW d, Same(mem[c], d),
         d.status = "RUNNING", NEW stage, Enters(c, d, stage)
  PROVE  CoordInv'
BY CheckpointInv DEF Enters, Going

LEMMA AdvancesInv ==
  ASSUME CoordInv, NEW c \in Coordinators, Working(c), NEW d, Same(mem[c], d),
         d.status = "RUNNING", Advances(c, d)
  PROVE  CoordInv'
BY CheckpointInv, EntersInv DEF Advances, Going

(* Fields of a document that do not say whose it is.                        *)
LEMMA ChangeSame ==
  ASSUME NEW d, IsDoc(d), NEW x, NEW y
  PROVE  /\ Same(d, [d EXCEPT !.status = x])
         /\ Same(d, [d EXCEPT !.status = x, !.audit = y])
         /\ SameState(d, [d EXCEPT !.assigned = x])
         /\ SameState(d, [d EXCEPT !.needsValidation = x])
         /\ SameState(d, [d EXCEPT !.verify = x])
BY DEF IsDoc, Same, SameState, DocFields

LEMMA VerifyOnlyInv ==
  ASSUME CoordInv, NEW c \in Coordinators, VerifyOnly(c) PROVE CoordInv'
<1>1. Working(c) /\ IsDoc(mem[c])
  BY OwnSession DEF VerifyOnly, Working, Running
<1>2. CASE Ends(c, [mem[c] EXCEPT !.status = "HANDOFF REQUIRED"])
  BY <1>1, <1>2, ChangeSame, EndsInv
<1>3. CASE at' = [at EXCEPT ![c] = "enter"] /\ UNCHANGED <<disk, fresh, mem, local>>
  <2>1. mem' = [mem EXCEPT ![c] = mem[c]]
    BY <1>3 DEF CoordInv, Shape
  <2>2. QED
    BY <1>1, <1>3, <2>1, MoveInv DEF SameState, Same, Going
<1>4. QED
  BY <1>2, <1>3 DEF VerifyOnly

LEMMA EnterStageInv ==
  ASSUME CoordInv, NEW c \in Coordinators, EnterStage(c) PROVE CoordInv'
<1> DEFINE d == [mem[c] EXCEPT !.stage = local[c].next, !.status = "RUNNING"]
           place == IF local[c].next = "implementation" THEN "recover" ELSE "assign"
<1>1. Working(c) /\ IsDoc(mem[c])
  BY OwnSession DEF EnterStage, Working, Running
<1>2. Same(mem[c], d) /\ d.status = "RUNNING" /\ place \in Going
  BY <1>1 DEF IsDoc, Same, DocFields, Going
<1>3. Checkpoint(c, d, place, FreshLocals(local[c].next))
  BY DEF EnterStage
<1> HIDE DEF d, place
<1>4. QED
  BY <1>1, <1>2, <1>3, CheckpointInv

LEMMA RecoverInv ==
  ASSUME CoordInv, NEW c \in Coordinators, Recover(c) PROVE CoordInv'
<1>1. Working(c) /\ IsDoc(mem[c]) /\ mem[c].status = "RUNNING"
  BY OwnSession DEF Recover, Working, Running
<1>2. PICK d, place : /\ d = mem[c] \/ d = [mem[c] EXCEPT !.implementer = External,
                                                       !.needsValidation = FALSE]
                      /\ place \in {"validate", "assign"}
                      /\ at' = [at EXCEPT ![c] = place] /\ mem' = [mem EXCEPT ![c] = d]
                      /\ UNCHANGED <<disk, fresh>>
  <2>1. mem = [mem EXCEPT ![c] = mem[c]]
    BY DEF CoordInv, Shape
  <2>2. QED
    BY <2>1 DEF Recover
<1>3. SameState(mem[c], d) /\ d.audit = mem[c].audit
  BY <1>1, <1>2 DEF IsDoc, Same, SameState, DocFields
<1>4. QED
  BY <1>1, <1>2, <1>3, MoveInv DEF Going

LEMMA AssignInv ==
  ASSUME CoordInv, NEW c \in Coordinators, Assign(c) PROVE CoordInv'
<1>1. Working(c) /\ IsDoc(mem[c]) /\ mem[c].status = "RUNNING"
  BY OwnSession DEF Assign, Working, Running
<1>2. CASE at' = [at EXCEPT ![c] = "fell"] /\ UNCHANGED <<disk, fresh, mem, local>>
  <2>1. mem' = [mem EXCEPT ![c] = mem[c]]
    BY <1>2 DEF CoordInv, Shape
  <2>2. QED
    BY <1>1, <1>2, <2>1, MoveInv DEF SameState, Same, Going
<1>3. CASE \E l : Checkpoint(c, [mem[c] EXCEPT !.assigned = TRUE], "work", l)
  BY <1>1, <1>3, ChangeSame, CheckpointInv DEF SameState, Going
<1>4. QED
  BY <1>2, <1>3 DEF Assign

LEMMA JudgeInv ==
  ASSUME CoordInv, NEW c \in Coordinators, Judge(c) PROVE CoordInv'
<1> DEFINE ended == [mem[c] EXCEPT !.assigned = FALSE]
<1>0. Working(c) /\ IsDoc(mem[c]) /\ mem[c].status = "RUNNING"
  BY OwnSession DEF Judge, Working, Running
<1>1. SameState(mem[c], ended)
  BY <1>0, ChangeSame
<1>2. CASE Succeeds(c)
  <2> DEFINE d == RecordSuccess(ended, local[c].agent)
  <2>1. SameState(mem[c], d)
    <3> HIDE DEF ended
    <3>1. SameState(ended, d)
      BY <1>1, SuccessSame DEF Same, SameState, SameWork, SaysSame
    <3>2. QED
      BY <1>1, <3>1, SameStateTransitive
  <2>2. PICK e : /\ \/ \E x : e = [d EXCEPT !.lead = x]
                    \/ \E x, y : e = [d EXCEPT !.implementer = x, !.implemented = y]
                    \/ \E x, y : e = [d EXCEPT !.audit = x, !.clean = y]
                    \/ \E x, y : e = [d EXCEPT !.accepted = x, !.lead = y]
                 /\ Advances(c, e) \/ Checkpoint(c, e, "validate", local[c])
    BY <1>2, Zenon DEF Succeeds
  <2>3. SameState(d, e)
    <3> HIDE DEF d
    <3>1. IsDoc(d)
      BY <2>1 DEF SameState, Same
    <3>2. CASE \E x : e = [d EXCEPT !.lead = x]
      BY <3>1, <3>2 DEF IsDoc, Same, SameState, DocFields
    <3>3. CASE \E x, y : e = [d EXCEPT !.implementer = x, !.implemented = y]
      BY <3>1, <3>3 DEF IsDoc, Same, SameState, DocFields
    <3>4. CASE \E x, y : e = [d EXCEPT !.audit = x, !.clean = y]
      BY <3>1, <3>4 DEF IsDoc, Same, SameState, DocFields
    <3>5. CASE \E x, y : e = [d EXCEPT !.accepted = x, !.lead = y]
      BY <3>1, <3>5 DEF IsDoc, Same, SameState, DocFields
    <3>6. QED
      BY <2>2, <3>2, <3>3, <3>4, <3>5
  <2>4. SameState(mem[c], e) /\ e.status = "RUNNING"
    <3> HIDE DEF d
    <3>1. QED
      BY <1>0, <2>1, <2>3, SameStateTransitive DEF SameState
  <2>5. QED
    BY <1>0, <2>2, <2>4, AdvancesInv, CheckpointInv DEF SameState, Going
<1>3. CASE Finds(c)
  BY <1>0, <1>1, <1>3, CheckpointInv DEF Finds, SameState, Going
<1>4. ASSUME NEW failure, Fails(c, failure) PROVE CoordInv'
  <2> DEFINE changed == tree # local[c].base
             left == [mem[c] EXCEPT !.assigned = FALSE, !.needsValidation = @ \/ changed,
                                    !.reconciled = @ \/ changed]
             what == IF mem[c].stage \in ReadOnlyRoles /\ changed THEN "mutated" ELSE failure
             d == RecordFailure(left, local[c].agent, mem[c].stage, what)
             place == IF mem[c].stage \in ReadOnlyRoles /\ changed THEN "mutated"
                      ELSE IF d.failover THEN "assign" ELSE "fell"
  <2>1. SameState(mem[c], left)
    BY <1>0 DEF IsDoc, Same, SameState, DocFields
  <2>2. SameState(mem[c], d) /\ d.status = "RUNNING"
    <3> HIDE DEF left, what
    <3>1. SameState(left, d)
      BY <2>1, FailureSame DEF Same, SameState, SameWork, SaysSame
    <3>2. QED
      BY <1>0, <2>1, <3>1, SameStateTransitive DEF SameState
  <2>3. \E l : Checkpoint(c, d, place, l)
    BY <1>4 DEF Fails
  <2>4. place \in Going
    BY DEF Going
  <2> HIDE DEF d, place
  <2>5. QED
    BY <1>0, <2>2, <2>3, <2>4, CheckpointInv DEF SameState
<1>5. QED
  BY <1>2, <1>3, <1>4 DEF Judge

LEMMA BlockInv ==
  ASSUME CoordInv, NEW c \in Coordinators, Block(c) PROVE CoordInv'
BY OwnSession, ChangeSame, EndsInv DEF Block, Working, Running

LEMMA FallInv ==
  ASSUME CoordInv, NEW c \in Coordinators, Fall(c) PROVE CoordInv'
<1>1. Working(c) /\ IsDoc(mem[c]) /\ mem[c].status = "RUNNING"
  BY OwnSession DEF Fall, Working, Running
<1>2. CASE Enters(c, BeginRework(mem[c]), "implementation")
  BY <1>1, <1>2, ReworkSame, EntersInv DEF SameState
<1>3. CASE \E d : Same(mem[c], d) /\ Ends(c, d)
  BY <1>1, <1>3, EndsInv
<1>4. QED
  BY <1>1, <1>2, <1>3, ChangeSame DEF Fall

LEMMA ValidateInv ==
  ASSUME CoordInv, NEW c \in Coordinators, Validate(c) PROVE CoordInv'
<1>1. Working(c) /\ IsDoc(mem[c]) /\ mem[c].status = "RUNNING"
  BY OwnSession DEF Validate, Working, Running
<1>2. PICK found, d :
        /\ found \in BOOLEAN /\ d = [mem[c] EXCEPT !.verify = @ \/ found]
        /\ \/ Ends(c, [d EXCEPT !.status = "HANDOFF REQUIRED"])
           \/ Advances(c, d)
           \/ Advances(c, [d EXCEPT !.needsValidation = FALSE])
           \/ Enters(c, BeginRework(d), "implementation")
  BY Zenon DEF Validate
<1>3. SameState(mem[c], d)
  BY <1>1, <1>2, ChangeSame
<1>4. IsDoc(d) /\ Same(mem[c], d) /\ d.status = "RUNNING"
  BY <1>1, <1>3 DEF SameState, Same
<1>5. \A e : (SameState(d, e) => Same(mem[c], e) /\ e.status = "RUNNING") /\
             (Same(d, e) => Same(mem[c], e))
  BY <1>4 DEF SameState, Same
<1>6. QED
  BY <1>1, <1>2, <1>4, <1>5, ChangeSame, ReworkSame, EndsInv, AdvancesInv, EntersInv

LEMMA FinishInv ==
  ASSUME CoordInv, NEW c \in Coordinators, Finish(c) PROVE CoordInv'
<1> DEFINE d == [mem[c] EXCEPT !.status = "COMPLETE"]
<1>1. Working(c) /\ IsDoc(mem[c])
  BY OwnSession DEF Finish, Working, Running
<1>2. Same(mem[c], d) /\ d.status = "COMPLETE"
  BY <1>1 DEF IsDoc, Same, DocFields
<1>3. Checkpoint(c, d, "unlink", local[c])
  BY DEF Finish
<1> HIDE DEF d
<1>4. QED
  BY <1>1, <1>2, <1>3, CheckpointInv

(* A finished session is its coordinator's until the file is gone: no other *)
(* session is touched.                                                      *)
LEMMA UnlinkInv ==
  ASSUME CoordInv, NEW c \in Coordinators, Unlink(c) PROVE CoordInv'
<1> DEFINE i == mem[c].id
<1>0. Shape /\ at[c] = "unlink" /\ Finished(c) /\ IsDoc(mem[c]) /\ i \in Ids
  BY DEF Unlink, CoordInv, Shape, Running, IsDoc
<1>1. CASE disk' = disk
  BY <1>0, <1>1, GoneInv DEF Unlink, Running
<1>2. CASE disk' = [disk EXCEPT ![i] = NoSession]
  <2>1. /\ at'[c] = "idle" /\ mem'[c] = NoSession /\ fresh' = fresh
        /\ at' = [o \in Coordinators |-> at'[o]] /\ mem' = [o \in Coordinators |-> mem'[o]]
        /\ \A o \in Coordinators : o # c => at'[o] = at[o] /\ mem'[o] = mem[o]
    BY <1>0 DEF Unlink, Shape
  <2>2. /\ disk'[i] = NoSession /\ disk' = [j \in Ids |-> disk'[j]]
        /\ \A j \in Ids : j # i => disk'[j] = disk[j]
    BY <1>0, <1>2 DEF Shape
  <2>3. Shape'
    BY <1>0, <2>1, <2>2 DEF Shape, Running
  <2>4. Active' \subseteq Active
    BY <2>2 DEF Active, Present
  <2>5. \A o \in Coordinators : o # c /\ Running(o) => mem[o].id \in Ids
    BY <1>0 DEF Shape, IsDoc
  <2>6. ASSUME NEW o \in Coordinators, Working(o)' PROVE Working(o) /\ Owns(o)'
    <3>1. o # c /\ Working(o) /\ Owns(o) /\ mem[o].id \in Ids
      BY <2>1, <2>5, <2>6 DEF Working, Running, CoordInv
    <3>2. mem[o].id # i
      BY <1>0, <3>1 DEF Owns, Finished
    <3>3. QED
      BY <2>1, <2>2, <2>4, <3>1, <3>2 DEF Owns
  <2>7. ASSUME NEW o \in Coordinators, at'[o] = "unlink" PROVE Finished(o)'
    <3>1. o # c /\ Finished(o) /\ mem[o].id \in Ids
      BY <2>1, <2>5, <2>7 DEF Running, CoordInv
    <3>2. mem[o].id # i
      BY <1>0, <3>1 DEF Finished
    <3>3. QED
      BY <2>1, <2>2, <3>1, <3>2 DEF Finished
  <2>8. QED
    BY <2>3, <2>4, <2>6, <2>7 DEF CoordInv
<1>3. QED
  BY <1>1, <1>2 DEF Unlink

LEMMA StepInv ==
  ASSUME CoordInv, NEW c \in Coordinators, Step(c) PROVE CoordInv'
BY VerifyOnlyInv, EnterStageInv, RecoverInv, AssignInv, JudgeInv, BlockInv, FallInv, ValidateInv,
   FinishInv, UnlinkInv DEF Step

LEMMA DiesInv ==
  ASSUME CoordInv, NEW c \in Coordinators, Dies(c) PROVE CoordInv'
<1>1. CASE Crash(c)
  BY <1>1, GoneInv DEF Crash
<1>2. CASE Interrupt(c)
  <2>1. Working(c) /\ Same(mem[c], [mem[c] EXCEPT !.status = "INTERRUPTED"])
    BY <1>2, OwnSession, ChangeSame DEF Interrupt, Working
  <2>2. QED
    BY <1>2, <2>1, EndsInv DEF Interrupt
<1>3. QED
  BY <1>1, <1>2 DEF Dies

-----------------------------------------------------------------------------
(* Commands *)

(* Whoever works and is not reopening its session is found on disk: its     *)
(* session may go on, under a lease that lives.                             *)
LEMMA FoundOnDisk ==
  ASSUME CoordInv, NEW o \in Coordinators, Working(o), ~Reopening(o)
  PROVE  mem[o].id \in Active
<1>1. Owns(o) /\ IsResumable(mem[o]) /\ mem[o].id \in Ids
  BY DEF CoordInv, Shape, Reopening, Working, Running, IsDoc
<1>2. IsResumable(disk[mem[o].id])
  BY <1>1, ResumableByStatus DEF Owns
<1>3. QED
  BY <1>1, <1>2 DEF Owns, Active, Present

LEMMA LivesOnDisk ==
  ASSUME CoordInv, NEW o \in Coordinators, Working(o), NEW i \in Active, NEW me, me # o
  PROVE  LiveLease(i, me)
<1>1. Owns(o) /\ IsDoc(mem[o]) /\ i = mem[o].id
  BY DEF CoordInv, Shape, Owns, Working, Running
<1>2. QED
  BY <1>1, NoSessionIsNone DEF Owns, LiveLease, Coordinates

(* A session written where nobody works, by the one that is about to - or   *)
(* by a command that only leaves it behind.                                 *)
LEMMA TakesInv ==
  ASSUME CoordInv, \A o \in Coordinators : ~Working(o),
         NEW c \in Coordinators, at[c] = "idle", NEW i \in Ids, Active \subseteq {i},
         \A o \in Coordinators : at[o] = "unlink" => mem[o].id # i,
         NEW d, IsDoc(d), d.id = i, d.lease = c,
         disk' = [disk EXCEPT ![i] = d], fresh' = [fresh EXCEPT ![i] = TRUE],
         \/ UNCHANGED <<at, mem>>
         \/ /\ mem' = [mem EXCEPT ![c] = d]
            /\ \E place \in {"enter", "verifyOnly"} : at' = [at EXCEPT ![c] = place]
  PROVE  CoordInv'
<1>0. Shape /\ d # NoSession
  BY NoSessionIsNone DEF CoordInv
<1>1. /\ disk'[i] = d /\ fresh'[i] = TRUE
      /\ disk' = [j \in Ids |-> disk'[j]] /\ fresh' = [j \in Ids |-> fresh'[j]]
      /\ \A j \in Ids : j # i => disk'[j] = disk[j]
  BY <1>0 DEF Shape
<1>2. /\ at' = [o \in Coordinators |-> at'[o]] /\ mem' = [o \in Coordinators |-> mem'[o]]
      /\ at'[c] \in {"idle", "enter", "verifyOnly"}
      /\ mem'[c] = IF at'[c] = "idle" THEN NoSession ELSE d
      /\ \A o \in Coordinators : o # c => at'[o] = at[o] /\ mem'[o] = mem[o]
  BY <1>0 DEF Shape, Running
<1>3. Shape'
  BY <1>0, <1>1, <1>2 DEF Shape, Running
<1>4. Active' \subseteq {i}
  BY <1>1 DEF Active, Present
<1>5. \A o \in Coordinators : Working(o)' => o = c /\ mem'[c] = d
  BY <1>2 DEF Working, Running
<1>6. Working(c)' => Owns(c)'
  BY <1>0, <1>1, <1>2, <1>4, <1>5 DEF Owns, Working, Running
<1>7. ASSUME NEW o \in Coordinators, at'[o] = "unlink" PROVE Finished(o)'
  <2>1. o # c /\ at[o] = "unlink" /\ mem'[o] = mem[o]
    BY <1>2, <1>7
  <2>2. Finished(o) /\ mem[o].id \in Ids /\ mem[o].id # i
    BY <1>0, <2>1 DEF CoordInv, Shape, Running, IsDoc
  <2>3. QED
    BY <1>1, <2>1, <2>2 DEF Finished
<1>8. QED
  BY <1>3, <1>4, <1>5, <1>6, <1>7 DEF CoordInv

LEMMA StartInv ==
  ASSUME CoordInv, \A o \in Coordinators : ~Reopening(o),
         NEW c \in Coordinators, NEW i \in Ids, NEW q \in Requests, Start(c, i, q)
  PROVE  CoordInv'
<1> DEFINE d == NewDocument(i, c, q)
<1>1. \A o \in Coordinators : ~Working(o)
  BY FoundOnDisk DEF Start
<1>2. IsDoc(d) /\ d.id = i /\ d.lease = c
  BY DEF IsDoc, DocFields, NewDocument
<1>3. /\ disk' = [disk EXCEPT ![i] = d] /\ fresh' = [fresh EXCEPT ![i] = TRUE]
      /\ mem' = [mem EXCEPT ![c] = d] /\ at' = [at EXCEPT ![c] = "enter"]
      /\ at[c] = "idle" /\ Active = {}
  BY DEF Start, Running
<1>4. \A o \in Coordinators : at[o] = "unlink" => mem[o].id # i
  BY NoSessionIsNone DEF Start, CoordInv, Shape, Running
<1> HIDE DEF d
<1>5. QED
  BY <1>1, <1>2, <1>3, <1>4, TakesInv

LEMMA ResumeInv ==
  ASSUME CoordInv, NEW c \in Coordinators, NEW i \in Ids, Resume(c, i)
  PROVE  CoordInv'
<1>0. Shape /\ i \in Active /\ at[c] = "idle"
  BY DEF CoordInv, Resume, Running
<1>1. \A o \in Coordinators : ~Working(o)
  BY <1>0, LivesOnDisk DEF Resume, Working, Running
<1>2. Active \subseteq {i}
  BY <1>0 DEF CoordInv
<1>3. \A o \in Coordinators : at[o] = "unlink" => mem[o].id # i
  BY <1>0 DEF CoordInv, Finished, Active, IsResumable
<1>4. PICK d, doc :
        /\ d \in TakenUp(i, c)
        /\ doc = d \/ doc = [d EXCEPT !.status = "BLOCKED"]
        /\ disk' = [disk EXCEPT ![i] = doc]
        /\ \/ UNCHANGED <<at, mem>>
           \/ /\ mem' = [mem EXCEPT ![c] = doc]
              /\ \E place \in {"enter", "verifyOnly"} : at' = [at EXCEPT ![c] = place]
  BY Zenon DEF Resume
<1>5. IsDoc(d) /\ d.id = i /\ d.lease = c
  BY <1>0, <1>4, TakenUpOwned DEF Shape, Active, Present
<1>6. IsDoc(doc) /\ doc.id = i /\ doc.lease = c
  BY <1>4, <1>5 DEF IsDoc, DocFields
<1>7. fresh' = [fresh EXCEPT ![i] = TRUE]
  BY DEF Resume
<1>8. QED
  BY <1>0, <1>1, <1>2, <1>3, <1>4, <1>6, <1>7, TakesInv

LEMMA SupersedeInv ==
  ASSUME CoordInv, NEW i \in Ids, Supersede(i) PROVE CoordInv'
<1>0. Shape /\ i \in Active
  BY DEF CoordInv, Supersede
<1>1. \A o \in Coordinators : ~Working(o)
  BY <1>0, LivesOnDisk, AgentsAssumption DEF Supersede
<1>2. \A o \in Coordinators : at[o] = "unlink" => mem[o].id # i
  BY <1>0 DEF CoordInv, Finished, Active, IsResumable
<1>3. /\ disk' = [j \in Ids |-> disk'[j]] /\ UNCHANGED <<fresh, at, mem>>
      /\ IsDoc(disk'[i]) /\ disk'[i].id = i /\ disk'[i].status = "SUPERSEDED"
      /\ \A j \in Ids : j # i => disk'[j] = disk[j]
  <2> DEFINE d == [disk[i] EXCEPT !.status = "SUPERSEDED"]
  <2>1. IsDoc(disk[i]) /\ disk[i].id = i
    BY <1>0 DEF Shape, Active, Present
  <2>2. IsDoc(d) /\ d.id = i /\ d.status = "SUPERSEDED"
    BY <2>1 DEF IsDoc, DocFields
  <2>3. disk' = [disk EXCEPT ![i] = d] /\ UNCHANGED <<fresh, at, mem>>
    BY DEF Supersede
  <2> HIDE DEF d
  <2>4. QED
    BY <1>0, <2>2, <2>3 DEF Shape
<1>4. Shape'
  BY <1>0, <1>3 DEF Shape, Running
<1>5. Active' \subseteq Active
  BY <1>3 DEF Active, Present, IsResumable
<1>6. \A o \in Coordinators : ~Working(o)' /\ (at'[o] = "unlink" => Finished(o)')
  <2>1. \A o \in Coordinators : at[o] = "unlink" => Finished(o) /\ mem[o].id \in Ids
    BY <1>0 DEF CoordInv, Shape, Running, IsDoc
  <2>2. QED
    BY <1>1, <1>2, <1>3, <2>1 DEF Working, Running, Finished
<1>7. QED
  BY <1>4, <1>5, <1>6 DEF CoordInv

(* Only a session whose coordinator is gone grows stale.                    *)
LEMMA LapseInv ==
  ASSUME CoordInv, NEW i \in Present, ~Coordinates(disk[i].lease, i), Lapse(i) PROVE CoordInv'
<1>0. Shape /\ i \in Ids
  BY DEF CoordInv, Present
<1>1. /\ fresh' = [j \in Ids |-> fresh'[j]] /\ UNCHANGED <<disk, at, mem>>
      /\ \A j \in Ids : j # i => fresh'[j] = fresh[j]
  BY <1>0 DEF Lapse, Shape
<1>2. Shape' /\ Active' = Active
  BY <1>0, <1>1 DEF Shape, Running, Active, Present
<1>3. ASSUME NEW o \in Coordinators, Working(o) PROVE Owns(o)'
  <2>1. Owns(o) /\ IsDoc(mem[o]) /\ mem[o].id \in Ids
    BY <1>0, <1>3 DEF CoordInv, Shape, Working, Running, IsDoc
  <2>2. mem[o].id # i
    BY <2>1, NoSessionIsNone DEF Owns, Coordinates
  <2>3. QED
    BY <1>1, <1>2, <2>1, <2>2 DEF Owns
<1>4. QED
  BY <1>1, <1>2, <1>3 DEF CoordInv, Working, Running, Finished

LEMMA SameInv ==
  ASSUME CoordInv, UNCHANGED <<disk, fresh, at, mem>> PROVE CoordInv'
BY DEF CoordInv, Shape, Running, Working, Owns, Finished, Active, Present

LEMMA DiscardInv == ASSUME CoordInv, AtRest, Discard PROVE CoordInv'
<1>1. /\ disk' = [i \in Ids |-> disk'[i]] /\ UNCHANGED <<fresh, at, mem>>
      /\ \A i \in Ids : disk'[i] = NoSession \/ disk'[i] = disk[i]
  BY DEF Discard
<1>2. Shape'
  BY <1>1 DEF CoordInv, Shape, Running
<1>3. Active' \subseteq Active
  BY <1>1 DEF Active, Present
<1>4. \A o \in Coordinators : at'[o] = "idle"
  BY <1>1 DEF AtRest, Running
<1>5. QED
  BY <1>2, <1>3, <1>4 DEF CoordInv, Working, Running

-----------------------------------------------------------------------------
LEMMA InitCoord == Init => CoordInv
BY DEF Init, CoordInv, Shape, Running, Working, Active, Present

LEMMA NextCoord == CoordInv /\ [CarefulNext]_vars => CoordInv'
<1> SUFFICES ASSUME CoordInv, [CarefulNext]_vars PROVE CoordInv'
  OBVIOUS
<1>1. ASSUME NEW c \in Coordinators, Step(c) PROVE CoordInv'
  BY <1>1, StepInv
<1>2. ASSUME NEW c \in Coordinators, WorkerEdits(c) PROVE CoordInv'
  BY <1>2, SameInv DEF WorkerEdits
<1>3. ASSUME NEW c \in Coordinators, Dies(c) PROVE CoordInv'
  BY <1>3, DiesInv
<1>4. ASSUME \A o \in Coordinators : ~Reopening(o), NEW c \in Coordinators, Begin(c)
      PROVE  CoordInv'
  BY <1>4, StartInv, ResumeInv DEF Begin
<1>5. ASSUME NEW i \in Ids, Supersede(i) PROVE CoordInv'
  BY <1>5, SupersedeInv
<1>6. CASE AtRest /\ (Discard \/ Edit)
  BY <1>6, DiscardInv, SameInv DEF Edit
<1>7. ASSUME NEW i \in Present, ~Coordinates(disk[i].lease, i), Lapse(i) PROVE CoordInv'
  BY <1>7, LapseInv
<1>8. CASE UNCHANGED vars
  BY <1>8, SameInv DEF vars
<1>9. QED
  BY <1>1, <1>2, <1>3, <1>4, <1>5, <1>6, <1>7, <1>8 DEF CarefulNext, Attended

(* However coordinators start, resume, fail, die and are superseded - as    *)
(* long as nobody begins while a session is being reopened, nor discards or *)
(* edits under a running one, and no lease runs out under a living          *)
(* coordinator - a worktree has one coordinator, and the session on disk is *)
(* its own (orchestration.py, live_lease, save, command).                   *)
THEOREM OneCoordinatorCorrect == CarefulSpec => []OneCoordinator
<1>1. CoordInv => OneCoordinator
  BY DEF CoordInv, Owns, OneCoordinator
<1>2. QED
  BY <1>1, InitCoord, NextCoord, PTL DEF CarefulSpec

-----------------------------------------------------------------------------
(***************************************************************************)
(* What a completed session stands on.                                     *)
(***************************************************************************)
(* The work as it stands passed its tests if they were owed and, where an   *)
(* audit was asked for, another than the implementer found it clean ...     *)
Reviewed(d) ==
  /\ ~d.needsValidation
  /\ d.policy = "PLAN + EXECUTE + INDEPENDENT AUDIT" =>
        d.audit = "CLEAN" /\ d.clean.at = d.evidence /\ d.clean.by # d.implementer
(* ... and was accepted.                                                    *)
Earned(d) == Reviewed(d) /\ d.accepted.by # Nobody /\ d.accepted.at = d.evidence

(* What a document says when it may go on with a stage.                     *)
Ready(d, stage) ==
  /\ stage \in Roles
  /\ stage = "review" => ~d.needsValidation /\ d.policy # "PLAN + EXECUTE"
  /\ stage = "acceptance" => Reviewed(d)
Sound(d) == Ready(d, d.stage)

Judges(a, d) == a \in Agents /\ (d.stage = "review" => a # d.implementer)

(* Between a rejection, or a read-only role that wrote, and what is done    *)
(* about it a document goes back but does not say so yet.                   *)
GoingBack(d, l, where) ==
  \/ where = "enter" /\ l.next = "implementation" /\ d.stage = "acceptance"
  \/ where = "mutated"

(* A working coordinator's document and locals, by where it is.             *)
Fits(d, l, where, version) ==
  /\ d.evidence = IF where = "work" THEN l.base ELSE version
  /\ where \in {"recover", "assign", "work"} => ~l.findings
  /\ where \in {"recover", "assign"} /\ l.retry # Nobody => Judges(l.retry, d)
  /\ where = "work" => Judges(l.agent, d)
  /\ d.policy # "PLAN ONLY" =>
     /\ where \in {"verifyOnly", "enter"} =>
           Ready(d, l.next) /\ (d.onlyVerify => l.next = "acceptance")
     /\ where \notin {"verifyOnly", "enter"} /\ d.onlyVerify =>
           d.stage = "acceptance" /\ ~l.findings
     /\ where \in {"recover", "validate"} => d.stage = "implementation"
     /\ where = "finish" => d.stage = "acceptance" /\ Earned(d)
     /\ Sound(d) \/ GoingBack(d, l, where)

(* A session on disk may go on as it is, or someone is about to take it     *)
(* back; what is called complete has earned it.                             *)
SoundOnDisk(i) ==
  disk[i].policy # "PLAN ONLY" =>
  /\ IsResumable(disk[i]) =>
       \/ Sound(disk[i])
       \/ \E c \in Coordinators :
            Working(c) /\ mem[c].id = i /\ GoingBack(mem[c], local[c], at[c])
  /\ disk[i].status = "COMPLETE" => Earned(disk[i])

LocalFields == {"attempted", "retried", "retry", "agent", "base", "findings", "next"}
IsLocal(l) == l = [f \in LocalFields |-> l[f]]

EarnedInv ==
  /\ local = [c \in Coordinators |-> local[c]] /\ \A c \in Coordinators : IsLocal(local[c])
  /\ \A i \in Present : SoundOnDisk(i)
  /\ \A c \in Coordinators : Working(c) => Fits(mem[c], local[c], at[c], tree)

LEMMA SameIsSound ==
  ASSUME NEW d, NEW e, SaysSame(d, e)
  PROVE  /\ Sound(e) <=> Sound(d)
         /\ Earned(e) <=> Earned(d)
         /\ \A stage : Ready(e, stage) <=> Ready(d, stage)
         /\ \A a : Judges(a, e) <=> Judges(a, d)
BY DEF SaysSame, Sound, Earned, Ready, Reviewed, Judges

LEMMA FreshIsLocal == \A s : IsLocal(FreshLocals(s))
BY DEF IsLocal, FreshLocals, LocalFields

(* A checkpoint writes down the worktree it is of.                          *)
Saves(d, e, version) ==
  /\ SameState(d, e) /\ e.evidence = version
  /\ e.policy = d.policy /\ e.stage = d.stage /\ e.onlyVerify = d.onlyVerify
  /\ e.implementer = d.implementer /\ e.needsValidation = d.needsValidation
  /\ e.audit = d.audit /\ e.clean = d.clean /\ e.accepted = d.accepted

LEMMA SavedDocument ==
  ASSUME NEW d, NEW first, Same(first, d), NEW v PROVE Saves(d, [d EXCEPT !.evidence = v], v)
BY DEF IsDoc, DocFields, Same, SameState, Saves

LEMMA CheckpointEarned ==
  ASSUME CoordInv, EarnedInv, NEW c \in Coordinators, Working(c), NEW d, Same(mem[c], d),
         NEW place, NEW l, IsLocal(l), Checkpoint(c, d, place, l), UNCHANGED tree,
         NEW e, e = [d EXCEPT !.evidence = tree],
         place \notin {"idle", "unlink"} => Fits(e, l, place, tree),
         e.policy # "PLAN ONLY" =>
           /\ IsResumable(e) => \/ Sound(e)
                                \/ place \notin {"idle", "unlink"} /\ GoingBack(e, l, place)
           /\ e.status = "COMPLETE" => Earned(e)
  PROVE  EarnedInv'
<1> DEFINE i == mem[c].id
<1>0. Shape /\ IsDoc(mem[c]) /\ mem[c].lease = c /\ i \in Ids
  BY DEF CoordInv, Shape, Working, Running, IsDoc
<1>1. disk[i].lease = c /\ Active \subseteq {i}
  BY DEF CoordInv, Owns
<1>2. e.id = i
  <2>1. Saves(d, e, tree)
    BY SavedDocument
  <2>2. QED
    BY <2>1 DEF Saves, SameState, Same
<1>3. /\ disk' = [disk EXCEPT ![i] = e]
      /\ at' = [at EXCEPT ![c] = place]
      /\ mem' = [mem EXCEPT ![c] = IF place = "idle" THEN NoSession ELSE e]
      /\ local' = [local EXCEPT ![c] = IF place = "idle" THEN FreshLocals("planning") ELSE l]
  BY <1>1 DEF Checkpoint, MayWrite, Same
<1>4. /\ \A o \in Coordinators : o # c => ~Working(o)' /\ local'[o] = local[o]
      /\ at'[c] = place /\ (place # "idle" => mem'[c] = e /\ local'[c] = l)
      /\ local'[c] \in {l, FreshLocals("planning")}
      /\ local' = [o \in Coordinators |-> local'[o]]
  BY <1>0, <1>3 DEF CoordInv, Shape, EarnedInv, Working, Running
<1>5. disk'[i] = e /\ \A j \in Ids : j # i => disk'[j] = disk[j]
  BY <1>0, <1>3 DEF Shape
<1>6. \A o \in Coordinators : IsLocal(local'[o])
  BY <1>4, FreshIsLocal DEF EarnedInv
<1>7. ASSUME NEW j \in Present' PROVE SoundOnDisk(j)'
  <2>1. CASE j = i
    BY <1>2, <1>4, <1>5, <2>1 DEF SoundOnDisk, Working, Running
  <2>2. CASE j # i
    <3>1. j \in Present /\ disk'[j] = disk[j] /\ ~IsResumable(disk[j])
      BY <1>1, <1>5, <1>7, <2>2 DEF Present, Active
    <3>2. QED
      BY <3>1 DEF EarnedInv, SoundOnDisk
  <2>3. QED
    BY <2>1, <2>2
<1>8. ASSUME NEW o \in Coordinators, Working(o)' PROVE Fits(mem[o], local[o], at[o], tree)'
  BY <1>4, <1>8 DEF Working, Running
<1>9. QED
  BY <1>4, <1>6, <1>7, <1>8 DEF EarnedInv

(* A step that saves nothing.                                               *)
LEMMA MoveEarned ==
  ASSUME CoordInv, EarnedInv, NEW c \in Coordinators, Working(c), NEW place \in Going,
         NEW d, d.id = mem[c].id, ~GoingBack(mem[c], local[c], at[c]),
         Fits(d, local[c], place, tree),
         at' = [at EXCEPT ![c] = place], mem' = [mem EXCEPT ![c] = d],
         UNCHANGED <<disk, local, tree>>
  PROVE  EarnedInv'
<1>1. /\ at'[c] = place /\ mem'[c] = d
      /\ \A o \in Coordinators : o # c => at'[o] = at[o] /\ mem'[o] = mem[o] /\ ~Working(o)
  BY DEF CoordInv, Shape
<1>2. ASSUME NEW j \in Present' PROVE SoundOnDisk(j)'
  <2>1. SoundOnDisk(j) /\ disk'[j] = disk[j]
    BY <1>2 DEF EarnedInv, Present
  <2>2. ~ \E o \in Coordinators : Working(o) /\ mem[o].id = j /\ GoingBack(mem[o], local[o], at[o])
    BY <1>1
  <2>3. QED
    BY <2>1, <2>2 DEF SoundOnDisk
<1>3. ASSUME NEW o \in Coordinators, Working(o)' PROVE Fits(mem[o], local[o], at[o], tree)'
  BY <1>1, <1>3 DEF Working, Running
<1>4. QED
  BY <1>2, <1>3 DEF EarnedInv

(* A coordinator that is gone, or that never saved anything.                *)
LEMMA GoneEarned ==
  ASSUME CoordInv, EarnedInv, NEW c \in Coordinators,
         Working(c) => ~GoingBack(mem[c], local[c], at[c]),
         at' = [at EXCEPT ![c] = "idle"], mem' = [mem EXCEPT ![c] = NoSession],
         local' = [local EXCEPT ![c] = FreshLocals("planning")],
         \A i \in Present' : i \in Present /\ disk'[i] = disk[i], UNCHANGED tree
  PROVE  EarnedInv'
<1>1. /\ at'[c] = "idle" /\ local' = [o \in Coordinators |-> local'[o]]
      /\ \A o \in Coordinators : IsLocal(local'[o])
      /\ \A o \in Coordinators : o # c => at'[o] = at[o] /\ mem'[o] = mem[o] /\ local'[o] = local[o]
  BY FreshIsLocal DEF CoordInv, Shape, EarnedInv
<1>2. ASSUME NEW j \in Present' PROVE SoundOnDisk(j)'
  <2>1. SoundOnDisk(j) /\ disk'[j] = disk[j]
    BY <1>2 DEF EarnedInv
  <2>2. \A o \in Coordinators : Working(o) /\ mem[o].id = j /\ GoingBack(mem[o], local[o], at[o])
          => o # c /\ Working(o)' /\ mem'[o] = mem[o] /\ local'[o] = local[o] /\ at'[o] = at[o]
    BY <1>1 DEF Working, Running
  <2>3. QED
    BY <2>1, <2>2 DEF SoundOnDisk
<1>3. ASSUME NEW o \in Coordinators, Working(o)' PROVE Fits(mem[o], local[o], at[o], tree)'
  BY <1>1, <1>3 DEF Working, Running, EarnedInv
<1>4. QED
  BY <1>1, <1>2, <1>3 DEF EarnedInv

-----------------------------------------------------------------------------
LEMMA PlaceOfThree ==
  ASSUME NEW list, Len(list) = 3, list[1] = "planning", list[2] = "implementation",
         list[3] = "acceptance"
  PROVE  IndexOf("planning", list) = 1 /\ IndexOf("implementation", list) = 2
BY DEF IndexOf

LEMMA PlaceOfFour ==
  ASSUME NEW list, Len(list) = 4, list[1] = "planning", list[2] = "implementation",
         list[3] = "review", list[4] = "acceptance"
  PROVE  /\ IndexOf("planning", list) = 1 /\ IndexOf("implementation", list) = 2
         /\ IndexOf("review", list) = 3
BY DEF IndexOf

(* A session that does more than plan or verify has its stages in order.    *)
Whole(d) == d.policy # "PLAN ONLY" /\ ~d.onlyVerify

LEMMA StagesInOrder ==
  ASSUME NEW d, Whole(d)
  PROVE  /\ ~IsLastStage(d, "planning") /\ NextStage(d, "planning") = "implementation"
         /\ ~IsLastStage(d, "implementation")
         /\ NextStage(d, "implementation") =
              IF d.policy = "PLAN + EXECUTE" THEN "acceptance" ELSE "review"
         /\ d.policy # "PLAN + EXECUTE" =>
              ~IsLastStage(d, "review") /\ NextStage(d, "review") = "acceptance"
         /\ IsLastStage(d, "acceptance")
<1>0. PICK list : list = StageList(d)
  OBVIOUS
<1>1. CASE d.policy = "PLAN + EXECUTE"
  <2>1. list = <<"planning", "implementation", "acceptance">>
    BY <1>0, <1>1 DEF StageList, Whole
  <2>2. /\ Len(list) = 3 /\ list[1] = "planning" /\ list[2] = "implementation"
        /\ list[3] = "acceptance"
    BY <2>1
  <2>3. IndexOf("planning", list) = 1 /\ IndexOf("implementation", list) = 2
    BY <2>2, PlaceOfThree
  <2>4. /\ ~IsLastStage(d, "planning") /\ ~IsLastStage(d, "implementation")
        /\ IsLastStage(d, "acceptance")
    BY <1>0, <2>2 DEF IsLastStage, Last
  <2>5. NextStage(d, "planning") = list[1 + 1] /\ NextStage(d, "implementation") = list[2 + 1]
    BY <1>0, <2>3, Zenon DEF NextStage
  <2>6. NextStage(d, "planning") = "implementation" /\ NextStage(d, "implementation") = "acceptance"
    BY <2>2, <2>5
  <2>7. QED
    BY <1>1, <2>4, <2>6
<1>2. CASE d.policy # "PLAN + EXECUTE"
  <2>1. list = <<"planning", "implementation", "review", "acceptance">>
    BY <1>0, <1>2 DEF StageList, Whole
  <2>2. /\ Len(list) = 4 /\ list[1] = "planning" /\ list[2] = "implementation"
        /\ list[3] = "review" /\ list[4] = "acceptance"
    BY <2>1
  <2>3. /\ IndexOf("planning", list) = 1 /\ IndexOf("implementation", list) = 2
        /\ IndexOf("review", list) = 3
    BY <2>2, PlaceOfFour
  <2>4. /\ ~IsLastStage(d, "planning") /\ ~IsLastStage(d, "implementation")
        /\ ~IsLastStage(d, "review") /\ IsLastStage(d, "acceptance")
    BY <1>0, <2>2 DEF IsLastStage, Last
  <2>5. /\ NextStage(d, "planning") = list[1 + 1] /\ NextStage(d, "implementation") = list[2 + 1]
        /\ NextStage(d, "review") = list[3 + 1]
    BY <1>0, <2>3, Zenon DEF NextStage
  <2>6. /\ NextStage(d, "planning") = "implementation" /\ NextStage(d, "implementation") = "review"
        /\ NextStage(d, "review") = "acceptance"
    BY <2>2, <2>5
  <2>7. QED
    BY <1>2, <2>4, <2>6
<1>3. QED
  BY <1>1, <1>2

LEMMA OnlyAcceptance == ASSUME NEW d, d.onlyVerify PROVE IsLastStage(d, "acceptance")
BY DEF IsLastStage, StageList, Last

(* The end of a run: the session may go on from where it stands, or not.    *)
LEMMA EndsEarned ==
  ASSUME CoordInv, EarnedInv, NEW c \in Coordinators, Working(c), NEW d, Same(mem[c], d), Ends(c, d),
         NEW e, e = [d EXCEPT !.evidence = tree], UNCHANGED tree,
         e.policy # "PLAN ONLY" /\ IsResumable(e) => Sound(e), e.status # "COMPLETE"
  PROVE  EarnedInv'
<1>1. Checkpoint(c, d, "idle", local[c]) /\ IsLocal(local[c])
  BY DEF Ends, EarnedInv
<1>2. QED
  BY <1>1, CheckpointEarned

LEMMA EntersEarned ==
  ASSUME CoordInv, EarnedInv, NEW c \in Coordinators, Working(c), NEW d, Same(mem[c], d),
         NEW stage, Enters(c, d, stage), UNCHANGED tree, d.status = "RUNNING",
         NEW e, e = [d EXCEPT !.evidence = tree],
         e.policy # "PLAN ONLY" =>
           /\ Ready(e, stage) /\ (e.onlyVerify => stage = "acceptance")
           /\ Sound(e) \/ (stage = "implementation" /\ e.stage = "acceptance")
  PROVE  EarnedInv'
<1> DEFINE l == FreshLocals(stage)
<1>1. IsLocal(l) /\ l.next = stage
  BY FreshIsLocal DEF FreshLocals
<1>2. e.evidence = tree /\ e.status = "RUNNING"
  <2>1. Saves(d, e, tree)
    BY SavedDocument
  <2>2. QED
    BY <2>1 DEF Saves, SameState
<1> HIDE DEF l
<1>3. Fits(e, l, "enter", tree)
  BY <1>1, <1>2 DEF Fits, GoingBack
<1>4. e.policy # "PLAN ONLY" => Sound(e) \/ GoingBack(e, l, "enter")
  BY <1>1 DEF GoingBack
<1>5. QED
  BY <1>1, <1>2, <1>3, <1>4, CheckpointEarned DEF Enters, l

(* A stage is over when the next may begin - or everything is done.         *)
LEMMA AdvancesEarned ==
  ASSUME CoordInv, EarnedInv, NEW c \in Coordinators, Working(c), NEW d, Same(mem[c], d),
         Advances(c, d), UNCHANGED tree, d.status = "RUNNING",
         NEW e, e = [d EXCEPT !.evidence = tree],
         e.policy # "PLAN ONLY" =>
           \/ e.stage = "planning" /\ ~e.onlyVerify
           \/ e.stage = "implementation" /\ ~e.onlyVerify /\ ~e.needsValidation
           \/ e.stage = "review" /\ ~e.onlyVerify /\ e.policy # "PLAN + EXECUTE" /\ Reviewed(e)
           \/ e.stage = "acceptance" /\ Earned(e) /\ (e.onlyVerify => ~local[c].findings)
  PROVE  EarnedInv'
<1>0. /\ e.evidence = tree /\ e.status = "RUNNING" /\ e.policy = d.policy /\ e.stage = d.stage
      /\ e.onlyVerify = d.onlyVerify
  <2>1. Saves(d, e, tree)
    BY SavedDocument
  <2>2. QED
    BY <2>1 DEF Saves, SameState
<1>1. e.policy # "PLAN ONLY" => Sound(e)
  BY DEF Sound, Ready, Roles, Reviewed, Earned
<1>2. CASE IsLastStage(d, d.stage)
  <2>1. Checkpoint(c, d, "finish", local[c]) /\ IsLocal(local[c])
    BY <1>2 DEF Advances, EarnedInv
  <2>2. e.policy # "PLAN ONLY" => e.stage = "acceptance"
    BY <1>0, <1>2, StagesInOrder DEF Whole
  <2>3. Fits(e, local[c], "finish", tree)
    BY <1>0, <1>1, <2>2 DEF Fits
  <2>4. QED
    BY <1>0, <1>1, <2>1, <2>3, CheckpointEarned
<1>3. CASE ~IsLastStage(d, d.stage)
  <2> DEFINE stage == NextStage(d, d.stage)
  <2>1. Enters(c, d, stage)
    BY <1>3 DEF Advances
  <2>2. ASSUME e.policy # "PLAN ONLY" PROVE Ready(e, stage) /\ ~e.onlyVerify
    <3>1. ~e.onlyVerify /\ e.stage # "acceptance"
      BY <1>0, <1>3, <2>2, StagesInOrder, OnlyAcceptance DEF Whole
    <3>2. CASE e.stage = "planning"
      BY <1>0, <2>2, <3>1, <3>2, StagesInOrder DEF Whole, Ready, Roles
    <3>3. CASE e.stage = "implementation" /\ ~e.needsValidation
      <4>1. stage = IF e.policy = "PLAN + EXECUTE" THEN "acceptance" ELSE "review"
        BY <1>0, <2>2, <3>1, <3>3, StagesInOrder DEF Whole
      <4> HIDE DEF stage
      <4>2. QED
        BY <3>1, <3>3, <4>1 DEF Ready, Roles, Reviewed
    <3>4. CASE e.stage = "review" /\ e.policy # "PLAN + EXECUTE" /\ Reviewed(e)
      <4>1. stage = "acceptance"
        BY <1>0, <2>2, <3>1, <3>4, StagesInOrder DEF Whole
      <4> HIDE DEF stage
      <4>2. QED
        BY <3>1, <3>4, <4>1 DEF Ready, Roles
    <3>5. QED
      BY <2>2, <3>1, <3>2, <3>3, <3>4
  <2> HIDE DEF stage
  <2>3. QED
    BY <1>1, <2>1, <2>2, EntersEarned
<1>4. QED
  BY <1>2, <1>3

-----------------------------------------------------------------------------
(* The coordinator's own steps *)

LEMMA OwnFits ==
  ASSUME CoordInv, EarnedInv, NEW c \in Coordinators, Working(c)
  PROVE  /\ Fits(mem[c], local[c], at[c], tree) /\ IsLocal(local[c]) /\ IsDoc(mem[c])
         /\ Same(mem[c], mem[c])
BY OwnSession DEF EarnedInv, Same

(* What is saved of the same worktree says the same.                        *)
LEMMA SavedSame ==
  ASSUME NEW first, NEW d, Same(first, d), SaysSame(first, d), NEW v, first.evidence = v
  PROVE  SaysSame(first, [d EXCEPT !.evidence = v])
<1>1. Saves(d, [d EXCEPT !.evidence = v], v)
  BY SavedDocument
<1>2. QED
  BY <1>1 DEF Saves, SaysSame

LEMMA EndsSame ==
  ASSUME CoordInv, EarnedInv, NEW c \in Coordinators, Working(c), UNCHANGED tree,
         NEW d, Same(mem[c], d), SaysSame(mem[c], d), d.status # "COMPLETE", Ends(c, d),
         mem[c].evidence = tree, mem[c].policy # "PLAN ONLY" => Sound(mem[c])
  PROVE  EarnedInv'
<1>1. PICK e : e = [d EXCEPT !.evidence = tree]
  OBVIOUS
<1>2. SaysSame(mem[c], e)
  BY <1>1, SavedSame
<1>3. Saves(d, e, tree)
  BY <1>1, SavedDocument
<1>4. e.status # "COMPLETE" /\ (e.policy # "PLAN ONLY" => Sound(e))
  BY <1>2, <1>3, SameIsSound DEF SaysSame, Saves, SameState
<1>5. QED
  BY <1>1, <1>4, EndsEarned

LEMMA StatusSays ==
  ASSUME NEW d, IsDoc(d), NEW x, NEW e, e = [d EXCEPT !.status = x]
  PROVE  Same(d, e) /\ SaysSame(d, e) /\ e.status = x
BY DEF IsDoc, DocFields, Same, SaysSame

LEMMA VerifyOnlyEarned ==
  ASSUME CoordInv, EarnedInv, NEW c \in Coordinators, VerifyOnly(c) PROVE EarnedInv'
<1>1. Working(c) /\ at[c] = "verifyOnly" /\ UNCHANGED tree
  BY DEF VerifyOnly, Working, Running, Stay
<1>2. /\ Fits(mem[c], local[c], "verifyOnly", tree) /\ IsDoc(mem[c])
      /\ ~GoingBack(mem[c], local[c], at[c])
  BY <1>1, OwnFits DEF GoingBack
<1>3. CASE at' = [at EXCEPT ![c] = "enter"] /\ UNCHANGED <<disk, fresh, mem, local>>
  <2>1. mem' = [mem EXCEPT ![c] = mem[c]]
    BY <1>3 DEF CoordInv, Shape
  <2>2. Fits(mem[c], local[c], "enter", tree)
    BY <1>1, <1>2 DEF Fits, GoingBack
  <2>3. QED
    BY <1>1, <1>2, <1>3, <2>1, <2>2, MoveEarned DEF Going
<1>4. CASE Ends(c, [mem[c] EXCEPT !.status = "HANDOFF REQUIRED"])
  <2>1. mem[c].evidence = tree /\ (mem[c].policy # "PLAN ONLY" => Sound(mem[c]))
    BY <1>1, <1>2 DEF Fits
  <2>2. PICK d : d = [mem[c] EXCEPT !.status = "HANDOFF REQUIRED"]
    OBVIOUS
  <2>3. Same(mem[c], d) /\ SaysSame(mem[c], d) /\ d.status = "HANDOFF REQUIRED"
    BY <1>2, <2>2, StatusSays
  <2>4. Ends(c, d)
    BY <1>4, <2>2
  <2>5. d.status # "COMPLETE"
    BY <2>3
  <2>6. QED
    BY <1>1, <2>1, <2>3, <2>4, <2>5, EndsSame
<1>5. QED
  BY <1>3, <1>4 DEF VerifyOnly

LEMMA EnterStageEarned ==
  ASSUME CoordInv, EarnedInv, NEW c \in Coordinators, EnterStage(c) PROVE EarnedInv'
<1> DEFINE stage == local[c].next
           place == IF stage = "implementation" THEN "recover" ELSE "assign"
<1>1. Working(c) /\ at[c] = "enter" /\ UNCHANGED tree
  BY DEF EnterStage, Working, Running, Stay
<1>2. Fits(mem[c], local[c], "enter", tree) /\ IsDoc(mem[c])
  BY <1>1, OwnFits
<1>3. PICK d : d = [mem[c] EXCEPT !.stage = stage, !.status = "RUNNING"]
  OBVIOUS
<1>4. PICK e : e = [d EXCEPT !.evidence = tree]
  OBVIOUS
<1>5. Same(mem[c], d) /\ d.stage = stage /\ d.status = "RUNNING" /\ d.policy = mem[c].policy
      /\ d.onlyVerify = mem[c].onlyVerify /\ d.needsValidation = mem[c].needsValidation
      /\ d.audit = mem[c].audit /\ d.clean = mem[c].clean /\ d.implementer = mem[c].implementer
      /\ d.evidence = mem[c].evidence
  BY <1>2, <1>3 DEF IsDoc, DocFields, Same
<1>6. Saves(d, e, tree)
  BY <1>4, <1>5, SavedDocument
<1>7. PICK l : l = FreshLocals(stage)
  OBVIOUS
<1>8. IsLocal(l) /\ ~l.findings /\ l.retry = Nobody
  BY <1>7, FreshIsLocal DEF FreshLocals
<1>9. Checkpoint(c, d, place, l)
  BY <1>3, <1>7 DEF EnterStage
<1>10. place \in {"recover", "assign"} /\ (place = "recover" => stage = "implementation")
  OBVIOUS
<1> HIDE DEF stage, place
<1>11. e.policy # "PLAN ONLY" => Sound(e) /\ (e.onlyVerify => e.stage = "acceptance")
  BY <1>2, <1>5, <1>6 DEF Saves, Fits, Sound, Ready, Reviewed, stage
<1>12. Fits(e, l, place, tree)
  BY <1>5, <1>6, <1>8, <1>10, <1>11 DEF Saves, Fits
<1>13. e.status # "COMPLETE" /\ (e.policy # "PLAN ONLY" => Sound(e))
  BY <1>5, <1>6, <1>11 DEF Saves, SameState
<1>14. Same(mem[c], d) /\ IsLocal(l)
  BY <1>5, <1>8
<1>15. QED
  BY <1>1, <1>4, <1>9, <1>12, <1>13, <1>14, CheckpointEarned

LEMMA RecoverEarned ==
  ASSUME CoordInv, EarnedInv, NEW c \in Coordinators, Recover(c) PROVE EarnedInv'
<1>1. Working(c) /\ at[c] = "recover" /\ UNCHANGED <<tree, disk, local>>
  BY DEF Recover, Working, Running, Stay
<1>2. /\ Fits(mem[c], local[c], "recover", tree) /\ IsDoc(mem[c])
      /\ ~GoingBack(mem[c], local[c], at[c])
  BY <1>1, OwnFits DEF GoingBack
<1>3. PICK d, place :
        /\ \/ d = mem[c]
           \/ /\ d = [mem[c] EXCEPT !.implementer = External, !.needsValidation = FALSE]
              /\ place = "validate"
        /\ place \in {"validate", "assign"}
        /\ at' = [at EXCEPT ![c] = place] /\ mem' = [mem EXCEPT ![c] = d]
  <2>1. mem = [mem EXCEPT ![c] = mem[c]]
    BY DEF CoordInv, Shape
  <2>2. QED
    BY <2>1 DEF Recover
<1>4. /\ d.id = mem[c].id /\ d.policy = mem[c].policy /\ d.onlyVerify = mem[c].onlyVerify
      /\ d.stage = mem[c].stage /\ d.evidence = mem[c].evidence
  BY <1>2, <1>3 DEF IsDoc, DocFields
<1>5. Fits(d, local[c], place, tree)
  BY <1>2, <1>3, <1>4 DEF Fits, Sound, Ready, Roles
<1>6. QED
  BY <1>1, <1>2, <1>3, <1>4, <1>5, MoveEarned DEF Going

LEMMA AssignedSays ==
  ASSUME NEW d, IsDoc(d), NEW x
  PROVE  /\ Same(d, [d EXCEPT !.assigned = x]) /\ SaysSame(d, [d EXCEPT !.assigned = x])
         /\ SameState(d, [d EXCEPT !.assigned = x])
BY DEF IsDoc, DocFields, Same, SaysSame, SameState

LEMMA PendingJudges ==
  ASSUME NEW c \in Coordinators, Fits(mem[c], local[c], "assign", tree), NEW a \in Pending(c)
  PROVE  Judges(a, mem[c])
<1>1. CASE local[c].retry # Nobody
  BY <1>1 DEF Pending, Fits
<1>2. CASE local[c].retry = Nobody
  <2>1. a \in Candidates(mem[c], mem[c].stage)
    BY <1>2 DEF Pending
  <2>2. QED
    BY <2>1 DEF Candidates, Judges
<1>3. QED
  BY <1>1, <1>2

LEMMA AssignEarned ==
  ASSUME CoordInv, EarnedInv, NEW c \in Coordinators, Assign(c) PROVE EarnedInv'
<1>1. Working(c) /\ at[c] = "assign" /\ UNCHANGED tree
  BY DEF Assign, Working, Running, Stay
<1>2. /\ Fits(mem[c], local[c], "assign", tree) /\ IsDoc(mem[c]) /\ IsLocal(local[c])
      /\ ~GoingBack(mem[c], local[c], at[c]) /\ mem[c].status = "RUNNING"
  BY <1>1, OwnFits, OwnSession DEF GoingBack
<1>3. CASE at' = [at EXCEPT ![c] = "fell"] /\ UNCHANGED <<disk, fresh, mem, local>>
  <2>1. mem' = [mem EXCEPT ![c] = mem[c]]
    BY <1>3 DEF CoordInv, Shape
  <2>2. Fits(mem[c], local[c], "fell", tree)
    BY <1>1, <1>2 DEF Fits, GoingBack
  <2>3. QED
    BY <1>1, <1>2, <1>3, <2>1, <2>2, MoveEarned DEF Going
<1>4. ASSUME NEW a \in Pending(c),
             Checkpoint(c, [mem[c] EXCEPT !.assigned = TRUE], "work",
                        [local[c] EXCEPT !.attempted = @ \cup {a}, !.retry = Nobody,
                                         !.agent = a, !.base = tree])
      PROVE  EarnedInv'
  <2>1. PICK d : d = [mem[c] EXCEPT !.assigned = TRUE]
    OBVIOUS
  <2>2. PICK e : e = [d EXCEPT !.evidence = tree]
    OBVIOUS
  <2>3. PICK l : l = [local[c] EXCEPT !.attempted = @ \cup {a}, !.retry = Nobody,
                                      !.agent = a, !.base = tree]
    OBVIOUS
  <2>4. IsLocal(l) /\ l.agent = a /\ l.base = tree /\ l.findings = local[c].findings
    BY <1>2, <2>3 DEF IsLocal, LocalFields
  <2>5. Same(mem[c], d) /\ SaysSame(mem[c], d)
    BY <1>2, <2>1, AssignedSays
  <2>6. Saves(d, e, tree)
    BY <2>2, <2>5, SavedDocument
  <2>7. SaysSame(mem[c], e)
    BY <1>2, <2>2, <2>5, SavedSame DEF Fits
  <2>8. d.status = "RUNNING" /\ e.status = "RUNNING"
    BY <1>2, <2>1, <2>6, AssignedSays DEF SameState, Saves
  <2>9. Judges(a, e)
    BY <1>2, <2>7, PendingJudges, SameIsSound
  <2>10. e.policy # "PLAN ONLY" => Sound(e)
    BY <1>1, <1>2, <2>7, SameIsSound DEF Fits, GoingBack, SaysSame
  <2>11. Fits(e, l, "work", tree)
    BY <1>2, <2>4, <2>6, <2>7, <2>9, <2>10 DEF Fits, Saves, SaysSame
  <2>12. Checkpoint(c, d, "work", l) /\ Same(mem[c], d) /\ IsLocal(l) /\ e.status # "COMPLETE"
    BY <1>4, <2>1, <2>3, <2>4, <2>5, <2>8
  <2>13. QED
    BY <1>1, <2>2, <2>10, <2>11, <2>12, CheckpointEarned
<1>5. QED
  BY <1>3, <1>4 DEF Assign

(* Only an implementer may have written, and only a reviewer finds fault.   *)
LEMMA JudgedRightly ==
  ASSUME NEW c \in Coordinators, mem[c].stage \in Roles
  PROVE  /\ "none" \in Judged(c) /\ mem[c].stage # "implementation" => tree = local[c].base
         /\ "AUDIT_FINDINGS" \in Judged(c) => mem[c].stage = "review" /\ tree = local[c].base
         /\ "ACCEPTANCE_REJECTED" \in Judged(c) => tree = local[c].base
<1>1. {"none", "AUDIT_FINDINGS", "ACCEPTANCE_REJECTED"} \cap Failures = {}
  BY AgentsAssumption DEF AllFailures
<1>2. CASE mem[c].stage = "implementation"
  BY <1>1, <1>2 DEF Judged
<1>3. CASE mem[c].stage = "planning"
  BY <1>1, <1>3 DEF Judged
<1>4. CASE mem[c].stage = "review"
  BY <1>1, <1>4 DEF Judged
<1>5. CASE mem[c].stage = "acceptance"
  BY <1>1, <1>5 DEF Judged
<1>6. QED
  BY <1>2, <1>3, <1>4, <1>5 DEF Roles

(* A coordinator whose worker ran: what it knows before it judges.          *)
LEMMA AtWork ==
  ASSUME CoordInv, EarnedInv, NEW c \in Coordinators, at[c] = "work"
  PROVE  /\ Working(c) /\ IsDoc(mem[c]) /\ IsLocal(local[c]) /\ mem[c].status = "RUNNING"
         /\ ~local[c].findings /\ Judges(local[c].agent, mem[c])
         /\ mem[c].evidence = local[c].base
         /\ mem[c].policy # "PLAN ONLY" =>
              Sound(mem[c]) /\ (mem[c].onlyVerify => mem[c].stage = "acceptance")
<1>1. Working(c)
  BY DEF Working, Running
<1>2. Fits(mem[c], local[c], "work", tree) /\ IsDoc(mem[c]) /\ IsLocal(local[c])
  BY <1>1, OwnFits
<1>3. mem[c].status = "RUNNING"
  BY <1>1, OwnSession
<1>4. QED
  BY <1>1, <1>2, <1>3 DEF Fits, GoingBack

LEMMA SucceedsEarned ==
  ASSUME CoordInv, EarnedInv, NEW c \in Coordinators, at[c] = "work", UNCHANGED tree,
         "none" \in Judged(c), Succeeds(c)
  PROVE  EarnedInv'
<1> DEFINE a == local[c].agent
<1>1. PICK d : d = RecordSuccess([mem[c] EXCEPT !.assigned = FALSE], a)
  OBVIOUS
<1>2. SameWork(mem[c], d)
  <2>1. PICK ended : ended = [mem[c] EXCEPT !.assigned = FALSE]
    OBVIOUS
  <2>2. SameWork(mem[c], ended)
    BY <2>1, AtWork, AssignedSays DEF SameWork
  <2>3. SameWork(ended, d)
    BY <1>1, <2>1, <2>2, SuccessSame DEF SameWork, SameState, Same
  <2>4. QED
    BY <2>2, <2>3, SameWorkTransitive
<1>3. IsDoc(d) /\ Working(c) /\ IsLocal(local[c]) /\ a \in Agents
  BY <1>2, AtWork DEF SameWork, SameState, Same, Judges
<1>4. d.stage \in Roles /\ d.stage # "implementation" /\ d.policy # "PLAN ONLY" =>
        d.evidence = tree
  BY <1>2, AtWork, JudgedRightly DEF SameWork, SaysSame
<1>5. /\ d.policy # "PLAN ONLY" => Sound(d) /\ (d.onlyVerify => d.stage = "acceptance")
      /\ Judges(a, d) /\ d.status = "RUNNING"
  BY <1>2, AtWork, SameIsSound DEF SameWork, SaysSame, SameState
<1>6. CASE d.stage = "planning"
  <2>1. PICK n : n = [d EXCEPT !.lead = a]
    OBVIOUS
  <2>2. Advances(c, n)
    BY <1>1, <1>6, <2>1 DEF Succeeds
  <2>3. SameWork(d, n)
    BY <1>3, <2>1 DEF SameWork, SameState, Same, SaysSame, IsDoc, DocFields
  <2>4. Same(mem[c], n) /\ n.status = "RUNNING"
    BY <1>2, <1>5, <2>3 DEF SameWork, SameState, Same
  <2>5. PICK e : e = [n EXCEPT !.evidence = tree]
    OBVIOUS
  <2>6. Saves(n, e, tree)
    BY <2>4, <2>5, SavedDocument
  <2>7. e.policy # "PLAN ONLY" => e.stage = "planning" /\ ~e.onlyVerify
    BY <1>5, <1>6, <2>3, <2>6 DEF SameWork, SaysSame, Saves
  <2>8. QED
    BY <1>3, <2>2, <2>4, <2>5, <2>7, AdvancesEarned
<1>7. CASE d.stage = "implementation"
  <2>1. PICK n : n = [d EXCEPT !.implementer = a, !.implemented = TRUE]
    OBVIOUS
  <2>2. Checkpoint(c, n, "validate", local[c])
    BY <1>1, <1>7, <2>1, Zenon DEF Succeeds
  <2>3. /\ SameState(d, n) /\ n.policy = d.policy /\ n.stage = d.stage
        /\ n.onlyVerify = d.onlyVerify
    BY <1>3, <2>1 DEF SameState, Same, IsDoc, DocFields
  <2>4. Same(mem[c], n) /\ n.status = "RUNNING"
    BY <1>2, <1>5, <2>3 DEF SameWork, SameState, Same
  <2>5. PICK e : e = [n EXCEPT !.evidence = tree]
    OBVIOUS
  <2>6. Saves(n, e, tree)
    BY <2>4, <2>5, SavedDocument
  <2>7. Sound(e) /\ e.stage = "implementation" /\ e.status # "COMPLETE"
    BY <1>7, <2>3, <2>4, <2>6 DEF Saves, SameState, Sound, Ready, Roles
  <2>8. e.policy # "PLAN ONLY" => ~e.onlyVerify
    BY <1>5, <1>7, <2>3, <2>6 DEF Saves
  <2>9. Fits(e, local[c], "validate", tree)
    BY <2>6, <2>7, <2>8 DEF Fits, Saves
  <2>10. Same(mem[c], n)
    BY <2>4
  <2>11. QED
    BY <1>3, <2>2, <2>5, <2>7, <2>9, <2>10, CheckpointEarned
<1>8. CASE d.stage = "review"
  <2>1. PICK n : n = [d EXCEPT !.audit = "CLEAN", !.clean = [by |-> a, at |-> tree]]
    OBVIOUS
  <2>2. Advances(c, n)
    BY <1>1, <1>8, <2>1, Zenon DEF Succeeds
  <2>3. /\ SameState(d, n) /\ n.policy = d.policy /\ n.stage = d.stage
        /\ n.onlyVerify = d.onlyVerify /\ n.needsValidation = d.needsValidation
        /\ n.audit = "CLEAN" /\ n.clean.at = tree /\ n.clean.by = a
        /\ n.implementer = d.implementer
    BY <1>3, <2>1 DEF SameState, Same, IsDoc, DocFields
  <2>4. Same(mem[c], n) /\ n.status = "RUNNING"
    BY <1>2, <1>5, <2>3 DEF SameWork, SameState, Same
  <2>5. PICK e : e = [n EXCEPT !.evidence = tree]
    OBVIOUS
  <2>6. Saves(n, e, tree)
    BY <2>4, <2>5, SavedDocument
  <2>7. e.policy # "PLAN ONLY" =>
          e.stage = "review" /\ ~e.onlyVerify /\ e.policy # "PLAN + EXECUTE" /\ Reviewed(e)
    BY <1>5, <1>8, <2>3, <2>6 DEF Saves, Sound, Ready, Judges, Reviewed
  <2>8. QED
    BY <1>3, <2>2, <2>4, <2>5, <2>7, AdvancesEarned
<1>9. CASE d.stage \notin {"planning", "implementation", "review"}
  <2>1. PICK n : n = [d EXCEPT !.accepted = [by |-> a, at |-> tree], !.lead = a]
    OBVIOUS
  <2>2. Advances(c, n)
    BY <1>1, <1>9, <2>1, Zenon DEF Succeeds
  <2>3. /\ SameState(d, n) /\ n.policy = d.policy /\ n.stage = d.stage
        /\ n.onlyVerify = d.onlyVerify /\ n.needsValidation = d.needsValidation
        /\ n.audit = d.audit /\ n.clean = d.clean /\ n.implementer = d.implementer
        /\ n.accepted.by = a /\ n.accepted.at = tree
    BY <1>3, <2>1 DEF SameState, Same, IsDoc, DocFields
  <2>4. Same(mem[c], n) /\ n.status = "RUNNING"
    BY <1>2, <1>5, <2>3 DEF SameWork, SameState, Same
  <2>5. PICK e : e = [n EXCEPT !.evidence = tree]
    OBVIOUS
  <2>6. Saves(n, e, tree)
    BY <2>4, <2>5, SavedDocument
  <2>7. d.policy # "PLAN ONLY" => d.stage = "acceptance" /\ d.evidence = tree /\ Reviewed(d)
    BY <1>4, <1>5, <1>9 DEF Sound, Ready, Roles
  <2>8. e.policy # "PLAN ONLY" => e.stage = "acceptance" /\ Earned(e)
    BY <1>3, <2>3, <2>6, <2>7, AgentsAssumption DEF Saves, Earned, Reviewed
  <2>9. ~local[c].findings
    BY AtWork
  <2>10. QED
    BY <1>3, <2>2, <2>4, <2>5, <2>8, <2>9, AdvancesEarned
<1>10. QED
  BY <1>6, <1>7, <1>8, <1>9

(* Findings are heard and nothing is recorded of them yet.                  *)
LEMMA FindsEarned ==
  ASSUME CoordInv, EarnedInv, NEW c \in Coordinators, at[c] = "work", UNCHANGED tree,
         NEW verdict \in Judged(c), GoesBack(c, verdict), Finds(c)
  PROVE  EarnedInv'
<1>1. PICK d : d = [mem[c] EXCEPT !.assigned = FALSE]
  OBVIOUS
<1>2. PICK l : l = [local[c] EXCEPT !.findings = TRUE]
  OBVIOUS
<1>3. /\ Working(c) /\ IsDoc(mem[c]) /\ IsLocal(local[c]) /\ mem[c].status = "RUNNING"
      /\ mem[c].policy # "PLAN ONLY" => Sound(mem[c]) /\ mem[c].stage \in Roles
  BY AtWork DEF Sound, Ready
<1>4. Same(mem[c], d) /\ SaysSame(mem[c], d) /\ SameState(mem[c], d)
  BY <1>1, <1>3, AssignedSays
<1>5. IsLocal(l)
  BY <1>2, <1>3 DEF IsLocal, LocalFields
<1>6. mem[c].policy # "PLAN ONLY" => ~mem[c].onlyVerify
  <2>1. CASE verdict = "AUDIT_FINDINGS"
    BY <1>3, <2>1, JudgedRightly, AtWork
  <2>2. CASE verdict # "AUDIT_FINDINGS"
    BY <2>2 DEF GoesBack
  <2>3. QED
    BY <2>1, <2>2
<1>7. mem[c].policy # "PLAN ONLY" => mem[c].evidence = tree
  <2>1. verdict \in {"AUDIT_FINDINGS", "ACCEPTANCE_REJECTED"}
    BY DEF GoesBack
  <2>2. QED
    BY <1>3, <2>1, JudgedRightly, AtWork
<1>8. PICK e : e = [d EXCEPT !.evidence = tree]
  OBVIOUS
<1>9. Saves(d, e, tree)
  BY <1>4, <1>8, SavedDocument
<1>10. e.policy = mem[c].policy /\ e.onlyVerify = mem[c].onlyVerify /\ e.status # "COMPLETE"
  BY <1>3, <1>4, <1>9 DEF Saves, SaysSame, SameState
<1>11. e.policy # "PLAN ONLY" => Sound(e)
  <2>1. ASSUME mem[c].policy # "PLAN ONLY" PROVE Sound(e)
    <3>1. SaysSame(mem[c], e)
      BY <1>4, <1>7, <1>8, <2>1, SavedSame
    <3>2. QED
      BY <1>3, <2>1, <3>1, SameIsSound
  <2>2. QED
    BY <1>10, <2>1
<1>12. Fits(e, l, "fell", tree)
  BY <1>6, <1>9, <1>10, <1>11 DEF Fits, Saves
<1>13. e.status # "COMPLETE" /\ Same(mem[c], d)
  BY <1>4, <1>10
<1>14. Checkpoint(c, d, "fell", l)
  BY <1>1, <1>2 DEF Finds
<1>15. QED
  BY <1>3, <1>5, <1>8, <1>11, <1>12, <1>13, <1>14, CheckpointEarned

LEMMA FailsEarned ==
  ASSUME CoordInv, EarnedInv, NEW c \in Coordinators, at[c] = "work", UNCHANGED tree,
         NEW failure, Fails(c, failure)
  PROVE  EarnedInv'
<1> DEFINE a == local[c].agent
           again == failure = "transport" /\ a \notin local[c].retried
           changed == tree # local[c].base
           wrote == mem[c].stage \in ReadOnlyRoles /\ changed
<1>1. PICK left : left = [mem[c] EXCEPT !.assigned = FALSE, !.needsValidation = @ \/ changed,
                                        !.reconciled = @ \/ changed]
  OBVIOUS
<1>2. PICK d : d = RecordFailure(left, a, mem[c].stage, IF wrote THEN "mutated" ELSE failure)
  OBVIOUS
<1>3. PICK place : place = IF wrote THEN "mutated" ELSE IF d.failover THEN "assign" ELSE "fell"
  OBVIOUS
<1>4. PICK l : l = [local[c] EXCEPT !.retry = IF again THEN a ELSE Nobody,
                                    !.retried = IF again THEN @ \cup {a} ELSE @]
  OBVIOUS
<1>5. Checkpoint(c, d, place, l)
  BY <1>1, <1>2, <1>3, <1>4 DEF Fails
<1>6. /\ Working(c) /\ IsDoc(mem[c]) /\ IsLocal(local[c]) /\ mem[c].status = "RUNNING"
      /\ ~local[c].findings /\ Judges(a, mem[c]) /\ mem[c].evidence = local[c].base
      /\ mem[c].policy # "PLAN ONLY" =>
           Sound(mem[c]) /\ (mem[c].onlyVerify => mem[c].stage = "acceptance")
  BY AtWork
<1>7. IsLocal(l) /\ l.findings = local[c].findings /\ l.retry \in {a, Nobody}
  BY <1>4, <1>6 DEF IsLocal, LocalFields
<1>8. /\ SameState(mem[c], left) /\ left.policy = mem[c].policy /\ left.stage = mem[c].stage
      /\ left.onlyVerify = mem[c].onlyVerify /\ left.implementer = mem[c].implementer
      /\ left.audit = mem[c].audit /\ left.clean = mem[c].clean
      /\ left.evidence = mem[c].evidence /\ left.needsValidation = (mem[c].needsValidation \/ changed)
  BY <1>1, <1>6 DEF IsDoc, DocFields, SameState, Same
<1>9. SameWork(left, d)
  BY <1>2, <1>8, FailureSame DEF SameState, Same
<1>10. SameState(mem[c], d)
  BY <1>8, <1>9, SameStateTransitive DEF SameWork
<1>11. PICK e : e = [d EXCEPT !.evidence = tree]
  OBVIOUS
<1>12. Saves(d, e, tree)
  BY <1>10, <1>11, SavedDocument DEF SameState
<1>13. /\ e.policy = mem[c].policy /\ e.stage = mem[c].stage /\ e.onlyVerify = mem[c].onlyVerify
       /\ e.implementer = mem[c].implementer /\ e.evidence = tree
       /\ e.status = "RUNNING"
  BY <1>6, <1>8, <1>9, <1>12 DEF SameWork, SameState, SaysSame, Saves
<1>14. Judges(a, e)
  BY <1>6, <1>13 DEF Judges
<1>15. e.policy # "PLAN ONLY" => Sound(e) \/ place = "mutated"
  <2>1. CASE wrote
    BY <1>3, <2>1
  <2>2. CASE mem[c].policy # "PLAN ONLY" /\ mem[c].stage = "implementation"
    BY <1>13, <2>2 DEF Sound, Ready, Roles
  <2>3. CASE mem[c].policy # "PLAN ONLY" /\ ~changed
    <3>1. /\ e.audit = mem[c].audit /\ e.clean = mem[c].clean /\ mem[c].evidence = tree
          /\ e.needsValidation = (mem[c].needsValidation \/ FALSE)
      BY <1>6, <1>8, <1>9, <1>12, <2>3 DEF SameWork, SaysSame, Saves
    <3>2. QED
      BY <1>6, <1>13, <2>3, <3>1 DEF Sound, Ready, Reviewed
  <2>4. mem[c].policy # "PLAN ONLY" => mem[c].stage \in Roles
    BY <1>6 DEF Sound, Ready
  <2>5. QED
    BY <1>13, <2>1, <2>2, <2>3, <2>4 DEF ReadOnlyRoles
<1>16. place \in {"mutated", "assign", "fell"}
  BY <1>3
<1> HIDE DEF a, again, changed, wrote
<1>17. Fits(e, l, place, tree)
  BY <1>6, <1>7, <1>13, <1>14, <1>15, <1>16 DEF Fits, GoingBack
<1>18. /\ place \notin {"idle", "unlink"} /\ e.status # "COMPLETE"
       /\ e.policy # "PLAN ONLY" => Sound(e) \/ GoingBack(e, l, place)
  BY <1>13, <1>15, <1>16 DEF GoingBack
<1>19. Same(mem[c], d)
  BY <1>10 DEF SameState
<1>20. QED
  BY <1>5, <1>6, <1>7, <1>11, <1>17, <1>18, <1>19, CheckpointEarned

LEMMA JudgeEarned ==
  ASSUME CoordInv, EarnedInv, NEW c \in Coordinators, Judge(c) PROVE EarnedInv'
<1>1. at[c] = "work" /\ UNCHANGED tree
  BY DEF Judge, Stay
<1>2. PICK verdict \in Judged(c) :
        \/ verdict = "none" /\ Succeeds(c)
        \/ GoesBack(c, verdict) /\ Finds(c)
        \/ Fails(c, verdict)
  BY Zenon DEF Judge
<1>3. QED
  BY <1>1, <1>2, SucceedsEarned, FindsEarned, FailsEarned

(* At the end of a run that changed nothing but the status.                 *)
LEMMA BlockEarned ==
  ASSUME CoordInv, EarnedInv, NEW c \in Coordinators, Block(c) PROVE EarnedInv'
<1>1. Working(c) /\ UNCHANGED tree /\ IsDoc(mem[c])
  BY OwnSession DEF Block, Working, Running, Stay
<1>2. PICK d : d = [mem[c] EXCEPT !.status = "BLOCKED", !.audit = "mutated"]
  OBVIOUS
<1>3. Same(mem[c], d) /\ d.status = "BLOCKED" /\ d.audit = "mutated"
  BY <1>1, <1>2 DEF IsDoc, DocFields, Same
<1>4. PICK e : e = [d EXCEPT !.evidence = tree]
  OBVIOUS
<1>5. Saves(d, e, tree)
  BY <1>3, <1>4, SavedDocument
<1>6. ~IsResumable(e) /\ e.status # "COMPLETE"
  BY <1>3, <1>5 DEF Saves, SameState, IsResumable
<1>7. Ends(c, d) /\ Same(mem[c], d)
  BY <1>2, <1>3 DEF Block
<1>8. QED
  BY <1>1, <1>4, <1>6, <1>7, EndsEarned

(* Rework begins at the implementation, with no implementer on record.      *)
LEMMA ReworkEarned ==
  ASSUME CoordInv, EarnedInv, NEW c \in Coordinators, Working(c), NEW d, IsDoc(d),
         Same(mem[c], d), d.status = "RUNNING", UNCHANGED tree,
         d.policy # "PLAN ONLY" => d.stage \in Roles /\ ~d.onlyVerify /\ (d.stage # "acceptance" => Sound(d)),
         Enters(c, BeginRework(d), "implementation")
  PROVE  EarnedInv'
<1>1. PICK n : n = BeginRework(d)
  OBVIOUS
<1>2. /\ SameState(d, n) /\ n.policy = d.policy /\ n.stage = d.stage
      /\ n.onlyVerify = d.onlyVerify /\ n.needsValidation = d.needsValidation
  BY <1>1 DEF IsDoc, DocFields, SameState, Same, BeginRework
<1>3. Same(mem[c], n) /\ n.status = "RUNNING"
  BY <1>2 DEF SameState, Same
<1>4. PICK e : e = [n EXCEPT !.evidence = tree]
  OBVIOUS
<1>5. Saves(n, e, tree)
  BY <1>3, <1>4, SavedDocument
<1>6. Ready(e, "implementation")
  BY DEF Ready, Roles
<1>7. e.policy # "PLAN ONLY" => ~e.onlyVerify /\ (Sound(e) \/ e.stage = "acceptance")
  BY <1>2, <1>5 DEF Saves, Sound, Ready
<1>8. Enters(c, n, "implementation") /\ Same(mem[c], n)
  BY <1>1, <1>3
<1>9. QED
  BY <1>3, <1>4, <1>6, <1>7, <1>8, EntersEarned

LEMMA FallEarned ==
  ASSUME CoordInv, EarnedInv, NEW c \in Coordinators, Fall(c) PROVE EarnedInv'
<1>1. Working(c) /\ at[c] = "fell" /\ UNCHANGED tree
  BY DEF Fall, Working, Running, Stay
<1>2. Fits(mem[c], local[c], "fell", tree) /\ IsDoc(mem[c]) /\ mem[c].status = "RUNNING"
  BY <1>1, OwnFits, OwnSession
<1>3. /\ mem[c].evidence = tree
      /\ mem[c].policy # "PLAN ONLY" =>
           Sound(mem[c]) /\ (mem[c].onlyVerify => ~local[c].findings)
  BY <1>2 DEF Fits, GoingBack
<1>4. CASE local[c].findings /\ Enters(c, BeginRework(mem[c]), "implementation")
  <2>1. mem[c].policy # "PLAN ONLY" =>
          mem[c].stage \in Roles /\ ~mem[c].onlyVerify /\ Sound(mem[c])
    BY <1>3, <1>4 DEF Sound, Ready
  <2>2. Same(mem[c], mem[c])
    BY <1>2 DEF Same
  <2>3. QED
    BY <1>1, <1>2, <1>4, <2>1, <2>2, ReworkEarned
<1>5. CASE \E x : mem[c].stage = "review" /\ Ends(c, [mem[c] EXCEPT !.status = "BLOCKED", !.audit = x])
  <2>1. PICK x : Ends(c, [mem[c] EXCEPT !.status = "BLOCKED", !.audit = x])
    BY <1>5
  <2>2. PICK d : d = [mem[c] EXCEPT !.status = "BLOCKED", !.audit = x]
    OBVIOUS
  <2>3. /\ Same(mem[c], d) /\ d.status = "BLOCKED" /\ d.stage = mem[c].stage
        /\ d.policy = mem[c].policy /\ d.needsValidation = mem[c].needsValidation
    BY <1>2, <2>2 DEF IsDoc, DocFields, Same
  <2>4. PICK e : e = [d EXCEPT !.evidence = tree]
    OBVIOUS
  <2>5. Saves(d, e, tree)
    BY <2>3, <2>4, SavedDocument
  <2>6. e.status # "COMPLETE" /\ (e.policy # "PLAN ONLY" => Sound(e))
    BY <1>3, <1>5, <2>3, <2>5 DEF Saves, SameState, Sound, Ready
  <2>7. Ends(c, d) /\ Same(mem[c], d)
    BY <2>1, <2>2, <2>3
  <2>8. QED
    BY <1>1, <2>4, <2>6, <2>7, EndsEarned
<1>6. CASE Ends(c, [mem[c] EXCEPT !.status = "HANDOFF REQUIRED"])
  <2>1. PICK d : d = [mem[c] EXCEPT !.status = "HANDOFF REQUIRED"]
    OBVIOUS
  <2>2. Same(mem[c], d) /\ SaysSame(mem[c], d) /\ d.status = "HANDOFF REQUIRED"
    BY <1>2, <2>1, StatusSays
  <2>3. Ends(c, d)
    BY <1>6, <2>1
  <2>4. d.status # "COMPLETE"
    BY <2>2
  <2>5. QED
    BY <1>1, <1>3, <2>2, <2>3, <2>4, EndsSame
<1>7. QED
  BY <1>4, <1>5, <1>6 DEF Fall

LEMMA ValidateEarned ==
  ASSUME CoordInv, EarnedInv, NEW c \in Coordinators, Validate(c) PROVE EarnedInv'
<1>1. Working(c) /\ at[c] = "validate" /\ UNCHANGED tree
  BY DEF Validate, Working, Running, Stay
<1>2. Fits(mem[c], local[c], "validate", tree) /\ IsDoc(mem[c]) /\ mem[c].status = "RUNNING"
  BY <1>1, OwnFits, OwnSession
<1>3. /\ mem[c].evidence = tree
      /\ mem[c].policy # "PLAN ONLY" =>
           Sound(mem[c]) /\ mem[c].stage = "implementation" /\ ~mem[c].onlyVerify
  BY <1>2 DEF Fits, GoingBack
<1>4. PICK found, d :
        /\ found \in BOOLEAN /\ d = [mem[c] EXCEPT !.verify = @ \/ found]
        /\ \/ Ends(c, [d EXCEPT !.status = "HANDOFF REQUIRED"])
           \/ Advances(c, d) /\ ~d.needsValidation
           \/ Advances(c, [d EXCEPT !.needsValidation = FALSE])
           \/ Enters(c, BeginRework(d), "implementation")
  BY Zenon DEF Validate
<1>5. SameWork(mem[c], d)
  BY <1>2, <1>4 DEF IsDoc, DocFields, SameWork, SameState, Same, SaysSame
<1>6. IsDoc(d) /\ Same(mem[c], d) /\ SaysSame(mem[c], d) /\ d.status = "RUNNING"
  BY <1>2, <1>5 DEF SameWork, SameState, Same
<1>7. /\ d.policy # "PLAN ONLY" => d.stage = "implementation" /\ ~d.onlyVerify
      /\ Sound(d) \/ d.policy = "PLAN ONLY"
  BY <1>3, <1>5, SameIsSound DEF SameWork, SaysSame
<1>8. CASE Ends(c, [d EXCEPT !.status = "HANDOFF REQUIRED"])
  <2>1. PICK n : n = [d EXCEPT !.status = "HANDOFF REQUIRED"]
    OBVIOUS
  <2>2. Same(d, n) /\ SaysSame(d, n) /\ n.status # "COMPLETE"
    BY <1>6, <2>1, StatusSays
  <2>3. Same(mem[c], n) /\ SaysSame(mem[c], n)
    BY <1>6, <2>2 DEF Same, SaysSame
  <2>4. Ends(c, n)
    BY <1>8, <2>1
  <2>5. QED
    BY <1>1, <1>3, <2>2, <2>3, <2>4, EndsSame
<1>9. CASE \/ Advances(c, d) /\ ~d.needsValidation
           \/ Advances(c, [d EXCEPT !.needsValidation = FALSE])
  <2>1. PICK n : /\ Advances(c, n) /\ (n = d \/ n = [d EXCEPT !.needsValidation = FALSE])
                 /\ ~n.needsValidation
    <3>1. CASE Advances(c, d) /\ ~d.needsValidation
      BY <3>1
    <3>2. CASE Advances(c, [d EXCEPT !.needsValidation = FALSE])
      <4>1. PICK n : n = [d EXCEPT !.needsValidation = FALSE]
        OBVIOUS
      <4>2. ~n.needsValidation
        BY <1>6, <4>1 DEF IsDoc, DocFields
      <4>3. QED
        BY <3>2, <4>1, <4>2
    <3>3. QED
      BY <1>9, <3>1, <3>2
  <2>2. /\ SameState(d, n) /\ n.policy = d.policy /\ n.stage = d.stage
        /\ n.onlyVerify = d.onlyVerify
    BY <1>6, <2>1 DEF IsDoc, DocFields, SameState, Same
  <2>3. Same(mem[c], n) /\ n.status = "RUNNING"
    BY <1>6, <2>2 DEF SameState, Same
  <2>4. PICK e : e = [n EXCEPT !.evidence = tree]
    OBVIOUS
  <2>5. Saves(n, e, tree)
    BY <2>3, <2>4, SavedDocument
  <2>6. e.policy # "PLAN ONLY" =>
          e.stage = "implementation" /\ ~e.onlyVerify /\ ~e.needsValidation
    BY <1>7, <2>1, <2>2, <2>5 DEF Saves
  <2>7. Advances(c, n) /\ Same(mem[c], n)
    BY <2>1, <2>3
  <2>8. QED
    BY <1>1, <2>3, <2>4, <2>6, <2>7, AdvancesEarned
<1>10. CASE Enters(c, BeginRework(d), "implementation")
  <2>1. d.policy # "PLAN ONLY" => d.stage \in Roles /\ ~d.onlyVerify /\ Sound(d)
    BY <1>7 DEF Roles
  <2>2. QED
    BY <1>1, <1>6, <1>10, <2>1, ReworkEarned
<1>11. QED
  BY <1>4, <1>8, <1>9, <1>10

LEMMA FinishEarned ==
  ASSUME CoordInv, EarnedInv, NEW c \in Coordinators, Finish(c) PROVE EarnedInv'
<1>1. Working(c) /\ at[c] = "finish" /\ UNCHANGED tree
  BY DEF Finish, Working, Running, Stay
<1>2. Fits(mem[c], local[c], "finish", tree) /\ IsDoc(mem[c]) /\ IsLocal(local[c])
  BY <1>1, OwnFits
<1>3. mem[c].evidence = tree /\ (mem[c].policy # "PLAN ONLY" => Earned(mem[c]))
  BY <1>2 DEF Fits
<1>4. PICK d : d = [mem[c] EXCEPT !.status = "COMPLETE"]
  OBVIOUS
<1>5. Same(mem[c], d) /\ SaysSame(mem[c], d) /\ d.status = "COMPLETE"
  BY <1>2, <1>4, StatusSays
<1>6. PICK e : e = [d EXCEPT !.evidence = tree]
  OBVIOUS
<1>7. SaysSame(mem[c], e) /\ Saves(d, e, tree)
  BY <1>3, <1>5, <1>6, SavedSame, SavedDocument
<1>8. ~IsResumable(e) /\ (e.policy # "PLAN ONLY" => Earned(e))
  <2>1. ~IsResumable(e)
    BY <1>5, <1>7 DEF Saves, SameState, IsResumable
  <2>2. Earned(e) <=> Earned(mem[c])
    BY <1>7, SameIsSound
  <2>3. QED
    BY <1>3, <1>7, <2>1, <2>2 DEF SaysSame
<1>9. Checkpoint(c, d, "unlink", local[c]) /\ Same(mem[c], d)
  BY <1>4, <1>5 DEF Finish
<1>10. QED
  BY <1>1, <1>2, <1>6, <1>8, <1>9, CheckpointEarned

LEMMA UnlinkEarned ==
  ASSUME CoordInv, EarnedInv, NEW c \in Coordinators, Unlink(c) PROVE EarnedInv'
<1>1. ~Working(c) /\ UNCHANGED tree
  BY DEF Unlink, Working, Stay
<1>2. \A i \in Present' : i \in Present /\ disk'[i] = disk[i]
  BY DEF Unlink, Present, CoordInv, Shape
<1>3. QED
  BY <1>1, <1>2, GoneEarned DEF Unlink

LEMMA DiesEarned ==
  ASSUME CoordInv, EarnedInv, NEW c \in Coordinators, Dies(c) PROVE EarnedInv'
<1>1. ~GoingBack(mem[c], local[c], at[c])
  BY DEF Dies, Handing, GoingBack
<1>2. CASE Crash(c)
  BY <1>1, <1>2, GoneEarned DEF Crash, Stay, Present
<1>3. CASE ~Trespassed(c) /\ Interrupt(c)
  <2>1. Working(c) /\ UNCHANGED tree /\ Ends(c, [mem[c] EXCEPT !.status = "INTERRUPTED"])
    BY <1>3 DEF Interrupt, Working, Stay
  <2>2. Fits(mem[c], local[c], at[c], tree) /\ IsDoc(mem[c])
    BY <2>1, OwnFits
  <2>3. PICK d : d = [mem[c] EXCEPT !.status = "INTERRUPTED"]
    OBVIOUS
  <2>4. Same(mem[c], d) /\ SaysSame(mem[c], d) /\ d.status = "INTERRUPTED"
    BY <2>2, <2>3, StatusSays
  <2>5. Ends(c, d)
    BY <2>1, <2>3
  <2>6. mem[c].policy # "PLAN ONLY" => Sound(mem[c]) /\ mem[c].stage \in Roles
    BY <1>1, <2>2 DEF Fits, Sound, Ready
  <2>7. CASE mem[c].policy = "PLAN ONLY" \/ mem[c].stage = "implementation"
    <3>1. PICK e : e = [d EXCEPT !.evidence = tree]
      OBVIOUS
    <3>2. Saves(d, e, tree)
      BY <2>4, <3>1, SavedDocument
    <3>3. e.status # "COMPLETE" /\ (e.policy # "PLAN ONLY" => Sound(e))
      BY <2>4, <2>7, <3>2 DEF Saves, SameState, SaysSame, Sound, Ready, Roles
    <3>4. QED
      BY <2>1, <2>4, <2>5, <3>1, <3>3, EndsEarned
  <2>8. CASE mem[c].policy # "PLAN ONLY" /\ mem[c].stage # "implementation"
    <3>1. mem[c].evidence = tree
      BY <1>3, <2>2, <2>6, <2>8 DEF Fits, Trespassed, ReadOnlyRoles
    <3>2. d.status # "COMPLETE"
      BY <2>4
    <3>3. QED
      BY <2>1, <2>4, <2>5, <2>6, <3>1, <3>2, EndsSame
  <2>9. QED
    BY <2>7, <2>8
<1>4. QED
  BY <1>2, <1>3 DEF Dies

-----------------------------------------------------------------------------
(* Commands *)

(* A session is written where nobody works, by the one that is about to.    *)
LEMMA TakesEarned ==
  ASSUME CoordInv, EarnedInv, \A o \in Coordinators : ~Working(o),
         NEW c \in Coordinators, NEW i \in Ids, NEW d, disk' = [disk EXCEPT ![i] = d], UNCHANGED tree,
         d.policy # "PLAN ONLY" =>
           (IsResumable(d) => Sound(d)) /\ (d.status = "COMPLETE" => Earned(d)),
         \/ UNCHANGED <<at, mem, local>>
         \/ \E place \in {"enter", "verifyOnly"} : \E stage :
              /\ mem' = [mem EXCEPT ![c] = d] /\ at' = [at EXCEPT ![c] = place]
              /\ local' = [local EXCEPT ![c] = FreshLocals(stage)]
              /\ Fits(d, FreshLocals(stage), place, tree)
  PROVE  EarnedInv'
<1>1. disk'[i] = d /\ \A j \in Ids : j # i => disk'[j] = disk[j]
  BY DEF CoordInv, Shape
<1>2. ASSUME NEW j \in Present' PROVE SoundOnDisk(j)'
  <2>1. CASE j = i
    BY <1>1, <2>1 DEF SoundOnDisk
  <2>2. CASE j # i
    <3>1. j \in Present /\ disk'[j] = disk[j]
      BY <1>1, <1>2, <2>2 DEF Present
    <3>2. QED
      BY <3>1 DEF EarnedInv, SoundOnDisk
  <2>3. QED
    BY <2>1, <2>2
<1>3. CASE UNCHANGED <<at, mem, local>>
  BY <1>2, <1>3 DEF EarnedInv, Working, Running
<1>4. ASSUME NEW place \in {"enter", "verifyOnly"}, NEW l, IsLocal(l),
             mem' = [mem EXCEPT ![c] = d], at' = [at EXCEPT ![c] = place],
             local' = [local EXCEPT ![c] = l], Fits(d, l, place, tree)
      PROVE  EarnedInv'
  <2>1. /\ mem'[c] = d /\ at'[c] = place /\ local'[c] = l
        /\ local' = [o \in Coordinators |-> local'[o]]
        /\ \A o \in Coordinators : o # c => at'[o] = at[o] /\ local'[o] = local[o] /\ ~Working(o)
    BY <1>4 DEF CoordInv, Shape, EarnedInv
  <2>2. \A o \in Coordinators : Working(o)' => Fits(mem[o], local[o], at[o], tree)'
    BY <1>4, <2>1 DEF Working, Running
  <2>3. \A o \in Coordinators : IsLocal(local'[o])
    BY <1>4, <2>1 DEF EarnedInv
  <2>4. QED
    BY <1>2, <2>1, <2>2, <2>3 DEF EarnedInv
<1>5. QED
  BY <1>3, <1>4, FreshIsLocal

LEMMA StartEarned ==
  ASSUME CoordInv, EarnedInv, \A o \in Coordinators : ~Reopening(o),
         NEW c \in Coordinators, NEW i \in Ids, NEW q \in Requests, Start(c, i, q)
  PROVE  EarnedInv'
<1>1. PICK d : d = NewDocument(i, c, q)
  OBVIOUS
<1>2. \A o \in Coordinators : ~Working(o)
  BY FoundOnDisk DEF Start
<1>3. /\ d.stage = "planning" /\ d.status = "PLANNED" /\ d.evidence = tree /\ ~d.onlyVerify
  BY <1>1 DEF NewDocument
<1>4. PICK l : l = FreshLocals("planning")
  OBVIOUS
<1>5. Fits(d, l, "enter", tree) /\ Sound(d)
  BY <1>3, <1>4 DEF Fits, Sound, Ready, Roles, FreshLocals
<1>6. d.status # "COMPLETE"
  BY <1>3
<1>7. /\ disk' = [disk EXCEPT ![i] = d] /\ mem' = [mem EXCEPT ![c] = d] /\ UNCHANGED tree
      /\ at' = [at EXCEPT ![c] = "enter"] /\ local' = [local EXCEPT ![c] = FreshLocals("planning")]
  BY <1>1 DEF Start
<1>8. QED
  BY <1>2, <1>4, <1>5, <1>6, <1>7, TakesEarned

LEMMA TakenUpStatus ==
  ASSUME NEW c \in Coordinators, NEW i \in Ids, IsDoc(disk[i]), NEW d \in TakenUp(i, c)
  PROVE  d.status = disk[i].status
<1>1. PICK mine : mine = [disk[i] EXCEPT !.lease = c]
  OBVIOUS
<1>2. PICK e : /\ e = mine \/ e = [mine EXCEPT !.onlyVerify = TRUE]
               /\ d \in ResumeOptions(Reconcile(e))
  BY <1>1 DEF TakenUp
<1>3. IsDoc(e) /\ e.status = disk[i].status
  BY <1>1, <1>2 DEF IsDoc, DocFields
<1>4. PICK r : r = Reconcile(e)
  OBVIOUS
<1>5. SameState(e, r)
  BY <1>3, <1>4, ReconcileSame
<1>6. PICK how \in AllAdjustments : d \in Adjusted(r, how)
  BY <1>2, <1>4, AgentsAssumption DEF ResumeOptions
<1>7. SameState(r, d)
  BY <1>5, <1>6, AdjustedSame DEF SameWork, SameState, Same
<1>8. QED
  BY <1>3, <1>5, <1>7 DEF SameState

(* What a resume finds may go on from where it stands, or from the          *)
(* implementation.                                                          *)
LEMMA ReconcileSound ==
  ASSUME NEW d, IsDoc(d), d.policy # "PLAN ONLY" => Sound(d)
  PROVE  /\ Reconcile(d).evidence = tree
         /\ Reconcile(d).policy # "PLAN ONLY" => Sound(Reconcile(d))
<1>1. CASE d.evidence = tree
  <2>1. PICK n : n = [d EXCEPT !.assigned = FALSE, !.evidence = tree]
    OBVIOUS
  <2>2. SaysSame(d, n)
    BY <1>1, <2>1 DEF IsDoc, DocFields, SaysSame
  <2>3. Reconcile(d) = n
    BY <1>1, <2>1 DEF Reconcile
  <2>4. n.evidence = tree /\ (n.policy # "PLAN ONLY" => Sound(n))
    BY <1>1, <2>2, SameIsSound DEF SaysSame
  <2>5. QED
    BY <2>3, <2>4
<1>2. CASE d.evidence # tree
  <2>1. PICK seen : seen = [d EXCEPT !.assigned = FALSE, !.evidence = tree]
    OBVIOUS
  <2>2. PICK judged : judged = ExpireVerdicts(seen)
    OBVIOUS
  <2>3. PICK stage : stage = IF d.policy = "PLAN ONLY" THEN "planning" ELSE "implementation"
    OBVIOUS
  <2>4. PICK n : n = [judged EXCEPT !.needsValidation = TRUE, !.reconciled = TRUE, !.stage = stage]
    OBVIOUS
  <2>5. IsDoc(seen) /\ seen.policy = d.policy /\ seen.evidence = tree
    BY <2>1 DEF IsDoc, DocFields
  <2>6. IsDoc(judged) /\ judged.policy = seen.policy /\ judged.evidence = seen.evidence
    BY <2>2, <2>5 DEF IsDoc, DocFields, ExpireVerdicts
  <2>7. n.policy = judged.policy /\ n.evidence = judged.evidence /\ n.stage = stage
    BY <2>4, <2>6 DEF IsDoc, DocFields
  <2>8. Reconcile(d) = n
    BY <1>2, <2>1, <2>2, <2>3, <2>4 DEF Reconcile
  <2>9. n.evidence = tree /\ (n.policy # "PLAN ONLY" => Sound(n))
    BY <2>3, <2>5, <2>6, <2>7 DEF Sound, Ready, Roles
  <2>10. QED
    BY <2>8, <2>9
<1>3. QED
  BY <1>1, <1>2

LEMMA TakenUpSound ==
  ASSUME NEW c \in Coordinators, NEW i \in Ids, IsDoc(disk[i]),
         disk[i].policy # "PLAN ONLY" => Sound(disk[i]), NEW d \in TakenUp(i, c)
  PROVE  d.evidence = tree /\ (d.policy # "PLAN ONLY" => Sound(d))
<1>1. PICK mine : mine = [disk[i] EXCEPT !.lease = c]
  OBVIOUS
<1>2. PICK e : /\ e = mine \/ e = [mine EXCEPT !.onlyVerify = TRUE]
               /\ d \in ResumeOptions(Reconcile(e))
  BY <1>1 DEF TakenUp
<1>3. IsDoc(mine) /\ SaysSame(disk[i], mine)
  BY <1>1 DEF IsDoc, DocFields, SaysSame
<1>4. mine.policy # "PLAN ONLY" => Sound(mine)
  BY <1>3, SameIsSound DEF SaysSame
<1>5. /\ IsDoc(e) /\ e.policy = mine.policy /\ e.stage = mine.stage
      /\ e.needsValidation = mine.needsValidation /\ e.audit = mine.audit
      /\ e.clean = mine.clean /\ e.evidence = mine.evidence /\ e.implementer = mine.implementer
  BY <1>2, <1>3 DEF IsDoc, DocFields
<1>6. e.policy # "PLAN ONLY" => Sound(e)
  BY <1>4, <1>5 DEF Sound, Ready, Reviewed
<1>7. PICK r : r = Reconcile(e)
  OBVIOUS
<1>8. IsDoc(r) /\ r.evidence = tree /\ (r.policy # "PLAN ONLY" => Sound(r))
  BY <1>5, <1>6, <1>7, ReconcileSame, ReconcileSound DEF SameState, Same
<1>9. PICK how \in AllAdjustments : d \in Adjusted(r, how)
  BY <1>2, <1>7, AgentsAssumption DEF ResumeOptions
<1>10. SaysSame(r, d)
  BY <1>8, <1>9, AdjustedSame DEF SameWork
<1>11. QED
  BY <1>8, <1>10, SameIsSound DEF SaysSame

(* Where it goes on.                                                        *)
LEMMA FirstStageReady ==
  ASSUME NEW d, d.policy # "PLAN ONLY", Sound(d), d.onlyVerify => d.stage = "acceptance"
  PROVE  Ready(d, FirstStage(d)) /\ (d.onlyVerify => FirstStage(d) = "acceptance")
<1>1. CASE d.onlyVerify
  <2>1. StageList(d)[1] = "acceptance"
    BY <1>1 DEF StageList
  <2>2. FirstStage(d) = d.stage
    BY <1>1, <2>1 DEF FirstStage
  <2>3. QED
    BY <1>1, <2>2 DEF Sound
<1>2. CASE Whole(d)
  <2>1. StageList(d)[1] = "planning"
    BY <1>2 DEF Whole, StageList
  <2>2. FirstStage(d) \in {d.stage, "planning"}
    BY <2>1 DEF FirstStage
  <2>3. Ready(d, "planning") /\ Ready(d, d.stage)
    BY DEF Sound, Ready, Roles
  <2>4. QED
    BY <1>2, <2>2, <2>3 DEF Whole
<1>3. QED
  BY <1>1, <1>2 DEF Whole

LEMMA ResumeEarned ==
  ASSUME CoordInv, EarnedInv, NEW c \in Coordinators, NEW i \in Ids, Resume(c, i)
  PROVE  EarnedInv'
<1>0. Shape /\ i \in Active /\ UNCHANGED tree
  BY DEF CoordInv, Resume
<1>1. \A o \in Coordinators : ~Working(o)
  BY <1>0, LivesOnDisk DEF Resume, Working, Running
<1>2. IsDoc(disk[i]) /\ (disk[i].policy # "PLAN ONLY" => Sound(disk[i])) /\ IsResumable(disk[i])
  BY <1>0, <1>1 DEF Shape, Active, Present, EarnedInv, SoundOnDisk
<1>3. PICK d, doc, place, l :
        /\ d \in TakenUp(i, c)
        /\ doc = d \/ doc = [d EXCEPT !.status = "BLOCKED"]
        /\ disk' = [disk EXCEPT ![i] = doc]
        /\ \/ UNCHANGED <<at, mem, local>>
           \/ /\ mem' = [mem EXCEPT ![c] = doc] /\ at' = [at EXCEPT ![c] = place]
              /\ local' = [local EXCEPT ![c] = l]
              /\ place = IF d.onlyVerify THEN "verifyOnly" ELSE "enter"
              /\ l = FreshLocals(FirstStage(d)) /\ doc = d
              /\ d.onlyVerify => d.stage = "acceptance"
  BY Zenon DEF Resume
<1>4. d.evidence = tree /\ (d.policy # "PLAN ONLY" => Sound(d))
  BY <1>2, <1>3, TakenUpSound
<1>5. IsDoc(d) /\ d.status # "COMPLETE"
  <2>1. i \in Ids /\ disk[i].id = i /\ disk[i].status # "COMPLETE"
    BY <1>0, <1>2 DEF Shape, Active, Present, IsResumable
  <2>2. IsDoc(d)
    BY <1>2, <1>3, <2>1, TakenUpOwned
  <2>3. d.status = disk[i].status
    BY <1>2, <1>3, <2>1, TakenUpStatus
  <2>4. QED
    BY <2>1, <2>2, <2>3
<1>6. doc.status # "COMPLETE" /\ (doc.policy # "PLAN ONLY" => Sound(doc))
  <2>1. CASE doc = d
    BY <1>4, <1>5, <2>1
  <2>2. CASE doc = [d EXCEPT !.status = "BLOCKED"]
    <3>1. SaysSame(d, doc) /\ doc.status = "BLOCKED"
      BY <1>5, <2>2, StatusSays
    <3>2. Sound(doc) <=> Sound(d)
      BY <3>1, SameIsSound
    <3>3. QED
      BY <1>4, <3>1, <3>2 DEF SaysSame
  <2>3. QED
    BY <1>3, <2>1, <2>2
<1>7. CASE UNCHANGED <<at, mem, local>>
  BY <1>0, <1>1, <1>3, <1>6, <1>7, TakesEarned
<1>8. CASE /\ mem' = [mem EXCEPT ![c] = doc] /\ at' = [at EXCEPT ![c] = place]
           /\ local' = [local EXCEPT ![c] = l]
           /\ place = IF d.onlyVerify THEN "verifyOnly" ELSE "enter"
           /\ l = FreshLocals(FirstStage(d)) /\ doc = d
           /\ d.onlyVerify => d.stage = "acceptance"
  <2>1. d.policy # "PLAN ONLY" =>
          Sound(d) /\ Ready(d, FirstStage(d)) /\ (d.onlyVerify => FirstStage(d) = "acceptance")
    BY <1>4, <1>8, FirstStageReady
  <2>2. place \in {"enter", "verifyOnly"} /\ l.next = FirstStage(d)
    BY <1>8 DEF FreshLocals
  <2>3. Fits(d, l, place, tree)
    BY <1>4, <2>1, <2>2 DEF Fits
  <2>4. QED
    BY <1>0, <1>1, <1>3, <1>6, <1>8, <2>2, <2>3, TakesEarned
<1>9. QED
  BY <1>3, <1>7, <1>8

(* What is only on disk: a session retired or gone.                         *)
LEMMA RetiredEarned ==
  ASSUME CoordInv, EarnedInv, UNCHANGED <<at, mem, local, tree>>,
         \A i \in Present' :
           i \in Present /\ (disk'[i] = disk[i] \/ disk'[i].status = "SUPERSEDED")
  PROVE  EarnedInv'
<1>1. ASSUME NEW i \in Present' PROVE SoundOnDisk(i)'
  <2>1. CASE disk'[i] = disk[i]
    BY <1>1, <2>1 DEF EarnedInv, SoundOnDisk, Working, Running
  <2>2. CASE disk'[i].status = "SUPERSEDED"
    BY <2>2 DEF SoundOnDisk, IsResumable
  <2>3. QED
    BY <1>1, <2>1, <2>2
<1>2. QED
  BY <1>1 DEF EarnedInv, Working, Running

LEMMA SupersedeEarned ==
  ASSUME CoordInv, EarnedInv, NEW i \in Ids, Supersede(i) PROVE EarnedInv'
<1>1. IsDoc(disk[i]) /\ i \in Present
  BY DEF CoordInv, Shape, Supersede, Active, Present
<1>2. PICK d : d = [disk[i] EXCEPT !.status = "SUPERSEDED"]
  OBVIOUS
<1>3. d.status = "SUPERSEDED"
  BY <1>1, <1>2 DEF IsDoc, DocFields
<1>4. disk' = [disk EXCEPT ![i] = d] /\ UNCHANGED <<at, mem, local, tree>>
  BY <1>2 DEF Supersede
<1>5. disk'[i] = d /\ \A j \in Ids : j # i => disk'[j] = disk[j]
  BY <1>4 DEF CoordInv, Shape
<1>6. QED
  BY <1>1, <1>3, <1>4, <1>5, RetiredEarned DEF Present

(* The worktree changes under a worker, or when nobody works.               *)
LEMMA EditedEarned ==
  ASSUME CoordInv, EarnedInv, UNCHANGED <<disk, at, mem, local>>,
         \A c \in Coordinators : Working(c) => at[c] = "work"
  PROVE  EarnedInv'
<1>1. ASSUME NEW c \in Coordinators, Working(c) PROVE Fits(mem[c], local[c], at[c], tree')
  <2>1. Fits(mem[c], local[c], "work", tree) /\ at[c] = "work"
    BY <1>1 DEF EarnedInv
  <2>2. QED
    BY <2>1 DEF Fits
<1>2. QED
  BY <1>1 DEF EarnedInv, SoundOnDisk, Working, Running, Present

-----------------------------------------------------------------------------
LEMMA InitEarned == Init => EarnedInv
BY FreshIsLocal DEF Init, EarnedInv, Working, Running, Present

LEMMA StepEarned ==
  ASSUME CoordInv, EarnedInv, NEW c \in Coordinators, Step(c) PROVE EarnedInv'
<1>1. ASSUME Judge(c) PROVE EarnedInv'
  BY <1>1, JudgeEarned
<1>2. QED
  BY <1>1, VerifyOnlyEarned, EnterStageEarned, RecoverEarned, AssignEarned, BlockEarned, FallEarned,
     ValidateEarned, FinishEarned, UnlinkEarned DEF Step

LEMMA NextEarned == CoordInv /\ EarnedInv /\ [CarefulNext]_vars => EarnedInv'
<1> SUFFICES ASSUME CoordInv, EarnedInv, [CarefulNext]_vars PROVE EarnedInv'
  OBVIOUS
<1>1. ASSUME NEW c \in Coordinators, Step(c) PROVE EarnedInv'
  BY <1>1, StepEarned
<1>2. ASSUME NEW c \in Coordinators, WorkerEdits(c) PROVE EarnedInv'
  <2>1. \A o \in Coordinators : Working(o) => at[o] = "work"
    BY <1>2 DEF WorkerEdits, CoordInv, Working, Running
  <2>2. QED
    BY <1>2, <2>1, EditedEarned DEF WorkerEdits
<1>3. ASSUME NEW c \in Coordinators, Dies(c) PROVE EarnedInv'
  BY <1>3, DiesEarned
<1>4. ASSUME \A o \in Coordinators : ~Reopening(o), NEW c \in Coordinators, Begin(c)
      PROVE  EarnedInv'
  BY <1>4, StartEarned, ResumeEarned DEF Begin
<1>5. ASSUME NEW i \in Ids, Supersede(i) PROVE EarnedInv'
  BY <1>5, SupersedeEarned
<1>6. CASE AtRest /\ (Discard \/ Edit)
  <2>1. CASE Discard
    BY <2>1, RetiredEarned DEF Discard, Present
  <2>2. CASE Edit
    BY <1>6, <2>2, EditedEarned DEF Edit, AtRest, Working
  <2>3. QED
    BY <1>6, <2>1, <2>2
<1>7. ASSUME NEW i \in Present, Lapse(i) PROVE EarnedInv'
  BY <1>7, RetiredEarned DEF Lapse, Stay, Present
<1>8. CASE UNCHANGED vars
  BY <1>8, RetiredEarned DEF vars, Present
<1>9. QED
  BY <1>1, <1>2, <1>3, <1>4, <1>5, <1>6, <1>7, <1>8 DEF CarefulNext, Attended

(* In the use the code is written for, whatever coordinators, workers and   *)
(* people do, a session that is called complete and was to change something *)
(* was accepted as the worktree stood at its last save; where an audit was  *)
(* asked for, another than the implementer on record had found that very    *)
(* worktree clean; and no validation was owed (orchestration.py, save,      *)
(* record_success, reconcile_session, finish).                              *)
THEOREM CompleteIsEarnedCorrect == CarefulSpec => []CompleteIsEarned
<1>1. EarnedInv => CompleteIsEarned
  BY DEF EarnedInv, SoundOnDisk, Earned, Reviewed, CompleteIsEarned
<1>2. QED
  BY <1>1, InitCoord, NextCoord, InitEarned, NextEarned, PTL DEF CarefulSpec
=============================================================================
