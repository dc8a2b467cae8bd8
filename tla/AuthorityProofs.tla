-------------------------- MODULE AuthorityProofs ---------------------------
(***************************************************************************)
(* What may be done, and on whose word: actions that need a person's       *)
(* decision (module HumanBoundary), and the changes the dogfood marathon   *)
(* makes to the framework itself (module Dogfood).                         *)
(***************************************************************************)
EXTENDS HumanBoundary, Dogfood, FiniteSetTheorems, WellFoundedInduction, TLAPS

-----------------------------------------------------------------------------
(***************************************************************************)
(* For any number of people, workers, decision ids and actions: the types  *)
(* of the run directory's documents, that an authorised decision is        *)
(* executed at most once, and that nothing is executed without the owner's *)
(* approval in the executor. For one person deciding: that no effect was   *)
(* left unapproved in the run directory either and, with one action, that  *)
(* a completed task had its gate.                                          *)
(***************************************************************************)

OwnerPlaces == {"idle", "approve", "link", "reject", "fail"}
Executing == {"query", "execute", "wait"}
WorkerPlaces == Executing \cup {"check", "act", "gates", "judge", "redo"}

(* People and workers keep to their own steps; a worker that is not idle   *)
(* holds the lock; one that executes has an action and an id for it.       *)
PlaceInv ==
    /\ \A o \in Owners : pc[o] \in OwnerPlaces
    /\ \A r \in Workers :
        /\ pc[r] = "idle" \/ (pc[r] \in WorkerPlaces /\ lock = r)
        /\ pc[r] \in Executing => mem[r].id \in Ids /\ mem[r].todo \in 1..Len(Plan)
        /\ pc[r] = "redo" => mem[r].task \in {"verifying", "blocked"}

(* An action runs once because a decision that has not been started is     *)
(* pending, and a worker about to start one holds a pending decision that  *)
(* the owner has signed.                                                   *)
ReplayInv ==
    /\ \A d \in Ids : ran[d] <= 1 /\ (ext[d].st \in {"none", "pending"} => ran[d] = 0)
    /\ \A r \in Workers : pc[r] = "execute" =>
        ext[mem[r].id].st = "pending" /\ mem[r].id \in signed

LEMMA PlanFacts ==
    /\ Len(Plan) \in Nat
    /\ \A i \in 1..Len(Plan) : Plan[i] \in Actions
    /\ Plan # <<>> => Len(Plan) >= 1
<1>1. Plan \in Seq(Actions)
  BY PlanIsSequence
<1>2. QED
  BY <1>1 DEF Actions

(* Processes that decide do not work, and the reverse. *)
LEMMA Apart == /\ Owners \subseteq Procs /\ Workers \subseteq Procs
               /\ \A o \in Owners : o \notin Workers
               /\ None \notin Workers /\ None \notin Ids
  BY Distinct DEF Procs

-----------------------------------------------------------------------------
LEMMA InitType == Init => TypeOK /\ PlaceInv
<1> SUFFICES ASSUME Init PROVE TypeOK /\ PlaceInv
  OBVIOUS
<1> USE DEF Init
<1>1. ext \in [Ids -> Records]
  <2>1. ASSUME NEW d \in Ids, d = packet PROVE Plan[1] \in Actions
    BY <2>1, PlanFacts, Apart
  <2>2. Absent \in Records /\ \A d \in Ids : d = packet => [act |-> Plan[1], st |-> "pending"] \in Records
    BY <2>1 DEF Absent, Records
  <2>3. QED
    BY <2>2
<1>2. mem \in [Procs -> Memory]
  <2>1. Blank \in Memory
    BY PlanFacts DEF Blank, Memory
  <2>2. QED
    BY <2>1
<1>3. packet \in Ids \cup {None}
  OBVIOUS
<1>4. TypeOK
  BY <1>1, <1>2, <1>3 DEF TypeOK, Undecided, TaskStates, Places
<1>5. PlaceInv
  BY Apart DEF PlaceInv, OwnerPlaces, Executing
<1>6. QED
  BY <1>4, <1>5

(* The end of a command. *)
LEMMA LeaveType ==
    ASSUME TypeOK, NEW p \in Procs, Leave(p)
    PROVE  /\ pc' \in [Procs -> Places] /\ pc'[p] = "idle"
           /\ lock' \in Workers \cup {None}
           /\ mem' \in [Procs -> Memory]
<1>1. Blank \in Memory
  BY PlanFacts DEF Blank, Memory
<1>2. QED
  BY <1>1 DEF TypeOK, Leave, Places, Goto

(* One part of a worker's memory changes. *)
LEMMA MemoryParts ==
    ASSUME TypeOK, NEW p \in Procs
    PROVE  /\ \A d \in Ids \cup {None} : [mem[p] EXCEPT !.id = d] \in Memory
           /\ \A n \in 1..(Len(Plan) + 1) : [mem[p] EXCEPT !.todo = n] \in Memory
           /\ \A n \in 1..(Len(Plan) + 1) :
                [mem[p] EXCEPT !.fp = repo, !.bound = decision.id, !.todo = n] \in Memory
           /\ [Blank EXCEPT !.fp = repo, !.id = packet] \in Memory
           /\ [Blank EXCEPT !.task = task, !.fp = repo, !.id = packet] \in Memory
           /\ [Blank EXCEPT !.task = task] \in Memory
           /\ mem[p].bound \in Ids \cup {None} /\ mem[p].task \in TaskStates \cup {None}
           /\ mem[p].fp \in Versions \cup {None} /\ mem[p].id \in Ids \cup {None}
           /\ mem[p].todo \in 1..(Len(Plan) + 1)
<1>1. mem[p] \in Memory
  BY DEF TypeOK
<1>2. decision.id \in Ids \cup {None}
  BY DEF TypeOK
<1>3. repo \in Versions /\ packet \in Ids \cup {None} /\ task \in TaskStates
  BY DEF TypeOK
<1>4. /\ mem[p].bound \in Ids \cup {None} /\ mem[p].task \in TaskStates \cup {None}
      /\ mem[p].fp \in Versions \cup {None} /\ mem[p].id \in Ids \cup {None}
      /\ mem[p].todo \in 1..(Len(Plan) + 1)
  BY <1>1 DEF Memory
<1>5. /\ \A d \in Ids \cup {None} : [mem[p] EXCEPT !.id = d] \in Memory
      /\ \A n \in 1..(Len(Plan) + 1) : [mem[p] EXCEPT !.todo = n] \in Memory
  BY <1>1 DEF Memory
<1>6. \A n \in 1..(Len(Plan) + 1) :
        [mem[p] EXCEPT !.fp = repo, !.bound = decision.id, !.todo = n] \in Memory
  BY <1>1, <1>2, <1>3 DEF Memory
<1>7. Blank \in Memory
  BY PlanFacts DEF Blank, Memory
<1>8. /\ [Blank EXCEPT !.fp = repo, !.id = packet] \in Memory
      /\ [Blank EXCEPT !.task = task, !.fp = repo, !.id = packet] \in Memory
      /\ [Blank EXCEPT !.task = task] \in Memory
  BY <1>3, <1>7 DEF Memory
<1>9. QED
  BY <1>4, <1>5, <1>6, <1>8

(* A worker that takes the executor's PASS stays in its types. *)
LEMMA TakeReceiptType ==
    ASSUME TypeOK, PlaceInv, NEW r \in Workers, pc[r] \in Executing, TakeReceipt(r)
    PROVE  TypeOK'
<1> USE DEF TypeOK
<1>1. r \in Procs /\ mem[r].todo \in 1..Len(Plan)
  BY Apart DEF PlaceInv
<1>2. receipt' \in Receipts
  BY <1>1, PlanFacts DEF TakeReceipt, Receipts, Commits
<1>3. CASE repo.commit = mem[r].fp.commit
  <2>1. mem[r].todo + 1 \in 1..(Len(Plan) + 1)
    BY <1>1, PlanFacts
  <2>2. [mem[r] EXCEPT !.todo = @ + 1] \in Memory
    BY <1>1, <2>1, MemoryParts
  <2>3. mem' \in [Procs -> Memory] /\ pc' \in [Procs -> Places]
    BY <1>1, <1>3, <2>2 DEF TakeReceipt, Places, Goto
  <2>4. QED
    BY <1>2, <1>3, <2>3 DEF TakeReceipt, executor
<1>4. CASE repo.commit # mem[r].fp.commit
  BY <1>1, <1>2, <1>4, LeaveType DEF TakeReceipt, executor
<1>5. QED
  BY <1>3, <1>4

(* What evaluate records has its type. *)
LEMMA EvaluatedType ==
    ASSUME TypeOK, NEW d \in Ids, NEW act \in Actions, Evaluated(d, act)
    PROVE  /\ ext' \in [Ids -> Records]
           /\ \A e \in Ids : ext'[e].st = ext[e].st
                             \/ (ext[e].st = "none" /\ ext'[e].st = "pending")
  BY DEF TypeOK, Evaluated, Absent, Records

LEMMA OwnerType ==
    ASSUME TypeOK, PlaceInv, NEW o \in Owners, Decides(o)
    PROVE  TypeOK'
<1> USE DEF TypeOK, store, executor, Goto
<1>0. o \in Procs
  BY Apart
<1>1. CASE ApproveLoad(o)
  BY <1>0, <1>1, MemoryParts DEF ApproveLoad, Places
<1>2. CASE Approve(o)
  BY <1>0, <1>2, MemoryParts DEF Approve, Places
<1>3. CASE Link(o)
  <2>1. signed' \subseteq Ids
    BY <1>0, <1>3, MemoryParts DEF Link
  <2>2. QED
    BY <1>0, <1>3, <2>1, LeaveType DEF Link
<1>4. CASE RejectLoad(o)
  BY <1>0, <1>4, MemoryParts DEF RejectLoad, Places
<1>5. CASE Reject(o)
  BY <1>0, <1>5, MemoryParts DEF Reject, Places
<1>6. CASE Fail(o)
  BY <1>0, <1>6, LeaveType DEF Fail, TaskStates
<1>7. QED
  BY <1>1, <1>2, <1>3, <1>4, <1>5, <1>6 DEF Decides

LEMMA WorkerType ==
    ASSUME TypeOK, PlaceInv, NEW r \in Workers, Works(r)
    PROVE  TypeOK'
<1> USE DEF TypeOK, store, executor, Goto
<1>0. r \in Procs /\ Len(Plan) \in Nat
  BY Apart, PlanFacts
<1>1. CASE ResumeBegin(r)
  BY <1>0, <1>1, MemoryParts DEF ResumeBegin, Places
<1>2. CASE Check(r)
  <2>1. Len(Plan) + 1 \in 1..(Len(Plan) + 1) /\ 1 \in 1..(Len(Plan) + 1)
    BY <1>0
  <2>2. mem' \in [Procs -> Memory]
    BY <1>0, <1>2, <2>1, MemoryParts DEF Check
  <2>3. pc' \in [Procs -> Places]
    BY <1>0, <1>2 DEF Check, Places
  <2>4. QED
    BY <1>2, <2>2, <2>3 DEF Check
<1>3. CASE Ask(r)
  <2>1. Plan[mem[r].todo] \in Actions
    <3>1. mem[r].todo \in 1..(Len(Plan) + 1)
      BY <1>0, MemoryParts
    <3>2. mem[r].todo \in 1..Len(Plan)
      BY <1>0, <1>3, <3>1 DEF Ask
    <3>3. QED
      BY <3>2, PlanFacts
  <2>2. pc' \in [Procs -> Places]
    BY <1>0, <1>3 DEF Ask, Places
  <2>3. mem' \in [Procs -> Memory]
    <3>1. mem[r].bound \in Ids \cup {None}
      BY <1>0, MemoryParts
    <3>2. PICK d \in Ids \cup {None} : mem' = [mem EXCEPT ![r].id = d]
      BY <1>3, <3>1 DEF Ask
    <3>3. [mem[r] EXCEPT !.id = d] \in Memory
      BY <1>0, MemoryParts
    <3>4. QED
      BY <1>0, <3>2, <3>3
  <2>4. ext' \in [Ids -> Records]
    BY <1>3, <2>1, EvaluatedType DEF Ask
  <2>5. QED
    BY <1>3, <2>2, <2>3, <2>4 DEF Ask
<1>4. CASE Query(r)
  <2>1. CASE TakeReceipt(r)
    BY <1>4, <2>1, TakeReceiptType DEF Query, Executing
  <2>2. CASE Goto(r, "execute") /\ UNCHANGED <<store, executor, repo, lock, mem>>
    BY <1>0, <2>2 DEF Places
  <2>3. QED
    BY <1>4, <2>1, <2>2 DEF Query
<1>5. CASE Execute(r)
  <2>1. mem[r].id \in Ids
    BY <1>5 DEF Execute, PlaceInv, Executing
  <2>2. ext' \in [Ids -> Records]
    <3>1. [ext[mem[r].id] EXCEPT !.st = "acting"] \in Records
      BY <2>1 DEF Records
    <3>2. QED
      BY <1>5, <2>1, <3>1 DEF Execute
  <2>3. ran' \in [Ids -> Nat]
    BY <1>5, <2>1 DEF Execute
  <2>4. QED
    BY <1>0, <1>5, <2>2, <2>3 DEF Execute, Places
<1>6. CASE Recorded(r)
  BY <1>6, TakeReceiptType DEF Recorded, Executing
<1>7. CASE TimedOut(r)
  <2>1. mem[r].id \in Ids
    BY <1>7 DEF TimedOut, PlaceInv, Executing
  <2>2. [ext[mem[r].id] EXCEPT !.st = "consumed"] \in Records
    BY <2>1 DEF Records
  <2>3. ext' \in [Ids -> Records]
    BY <1>7, <2>1, <2>2 DEF TimedOut
  <2>4. QED
    BY <1>0, <1>7, <2>3, LeaveType DEF TimedOut
<1>8. CASE Verify(r)
  BY <1>0, <1>8 DEF Verify, Places, TaskStates
<1>9. CASE RunGates(r)
  BY <1>0, <1>9 DEF RunGates, Places
<1>10. CASE Judge(r)
  <2>1. task' \in TaskStates
    BY <1>10 DEF Judge, Outcomes, TaskStates
  <2>2. QED
    BY <1>0, <1>10, <2>1, LeaveType DEF Judge
<1>11. CASE Redo(r)
  <2>1. task' \in TaskStates
    BY <1>11 DEF Redo, TaskStates, PlaceInv
  <2>2. packet' \in Ids \cup {None}
         /\ ext' \in [Ids -> Records]
    BY <1>11, PlanFacts, EvaluatedType DEF Redo
  <2>3. QED
    BY <1>0, <1>11, <2>1, <2>2, LeaveType DEF Redo
<1>12. CASE Cancel(r)
  BY <1>12 DEF Cancel, TaskStates
<1>13. QED
  BY <1>1, <1>2, <1>3, <1>4, <1>5, <1>6, <1>7, <1>8, <1>9, <1>10, <1>11, <1>12 DEF Works

LEMMA OtherType ==
    ASSUME TypeOK,
           \/ \E p \in Procs : Abort(p)
           \/ \E d \in Ids : Settle(d) \/ OwnerSigns(d)
           \/ Edit
           \/ UNCHANGED vars
    PROVE  TypeOK'
<1> USE DEF TypeOK, store, executor
<1>1. ASSUME NEW p \in Procs, Abort(p) PROVE TypeOK'
  BY <1>1, LeaveType DEF Abort
<1>2. ASSUME NEW d \in Ids, Settle(d) PROVE TypeOK'
  <2>1. \A st \in {"pass", "fail", "consumed"} : [ext[d] EXCEPT !.st = st] \in Records
    BY DEF Records
  <2>2. ext' \in [Ids -> Records]
    BY <1>2, <2>1 DEF Settle
  <2>3. QED
    BY <1>2, <2>2 DEF Settle
<1>3. ASSUME NEW d \in Ids, OwnerSigns(d) PROVE TypeOK'
  BY <1>3 DEF OwnerSigns
<1>4. CASE Edit
  BY <1>4 DEF Edit
<1>5. CASE UNCHANGED vars
  BY <1>5 DEF vars
<1>6. QED
  BY <1>1, <1>2, <1>3, <1>4, <1>5

-----------------------------------------------------------------------------
(* PlaceInv when a command ends. *)
LEMMA LeavePlace ==
    ASSUME TypeOK, PlaceInv, NEW p \in Procs, Leave(p),
           lock = p \/ \A r \in Workers : r # p => lock' = lock
    PROVE  PlaceInv'
<1>1. /\ \A q \in Procs : q # p => pc'[q] = pc[q] /\ mem'[q] = mem[q]
      /\ pc'[p] = "idle"
  BY DEF TypeOK, Leave, Goto
<1>2. ASSUME NEW o \in Owners PROVE pc'[o] \in OwnerPlaces
  BY <1>1, <1>2, Apart DEF PlaceInv, OwnerPlaces
<1>3. ASSUME NEW r \in Workers, r # p
      PROVE  /\ pc'[r] = "idle" \/ (pc'[r] \in WorkerPlaces /\ lock' = r)
             /\ pc'[r] \in Executing => mem'[r].id \in Ids /\ mem'[r].todo \in 1..Len(Plan)
             /\ pc'[r] = "redo" => mem'[r].task \in {"verifying", "blocked"}
  BY <1>1, <1>3, Apart DEF PlaceInv, Leave
<1>4. QED
  BY <1>1, <1>2, <1>3, Apart DEF PlaceInv, Executing

(* PlaceInv when a person goes on. *)
LEMMA OwnerPlace ==
    ASSUME TypeOK, PlaceInv, NEW o \in Owners, NEW place \in OwnerPlaces, Goto(o, place),
           UNCHANGED lock, \A q \in Procs : q # o => mem'[q] = mem[q]
    PROVE  PlaceInv'
<1>1. \A q \in Procs : pc'[q] = IF q = o THEN place ELSE pc[q]
  BY Apart DEF TypeOK, Goto
<1>2. QED
  BY <1>1, Apart DEF PlaceInv

(* PlaceInv when a worker that holds the lock goes on. *)
LEMMA WorkerPlace ==
    ASSUME TypeOK, PlaceInv, NEW r \in Workers, NEW place \in WorkerPlaces, Goto(r, place),
           lock' = r, lock \in {r, None},
           \A q \in Procs : q # r => mem'[q] = mem[q],
           place \in Executing => mem'[r].id \in Ids /\ mem'[r].todo \in 1..Len(Plan),
           place = "redo" => mem'[r].task \in {"verifying", "blocked"}
    PROVE  PlaceInv'
<1>1. \A q \in Procs : pc'[q] = IF q = r THEN place ELSE pc[q]
  BY Apart DEF TypeOK, Goto
<1>2. ASSUME NEW q \in Workers, q # r PROVE pc[q] = "idle"
  BY <1>2, Apart DEF PlaceInv
<1>3. QED
  BY <1>1, <1>2, Apart DEF PlaceInv, Executing

LEMMA WorksPlace ==
    ASSUME TypeOK, PlaceInv, NEW r \in Workers, Works(r)
    PROVE  PlaceInv'
<1>0. r \in Procs /\ mem[r].todo \in 1..(Len(Plan) + 1) /\ mem[r].bound \in Ids \cup {None}
      /\ Len(Plan) \in Nat
  BY Apart, MemoryParts, PlanFacts
<1> USE DEF WorkerPlaces, Executing
<1>a. mem \in [Procs -> Memory] /\ task \in TaskStates
  BY DEF TypeOK
<1>b. ASSUME pc[r] # "idle" PROVE lock = r
  BY <1>b DEF PlaceInv
<1>c. ASSUME TakeReceipt(r), pc[r] # "idle" PROVE PlaceInv'
  <2>1. CASE repo.commit = mem[r].fp.commit
    BY <1>0, <1>a, <1>b, <1>c, <2>1, WorkerPlace DEF TakeReceipt
  <2>2. CASE repo.commit # mem[r].fp.commit
    BY <1>0, <1>b, <1>c, <2>2, LeavePlace DEF TakeReceipt
  <2>3. QED
    BY <2>1, <2>2
<1>1. CASE ResumeBegin(r)
  <2>1. mem'[r].task = task /\ lock' = r /\ lock = None
    BY <1>0, <1>1, <1>a DEF ResumeBegin, Blank
  <2>2. \A q \in Procs : q # r => mem'[q] = mem[q]
    BY <1>0, <1>1, <1>a DEF ResumeBegin
  <2>3. CASE Goto(r, "check")
    BY <2>1, <2>2, <2>3, WorkerPlace
  <2>4. CASE task \in {"verifying", "blocked"} /\ Goto(r, "redo")
    BY <1>a, <2>1, <2>2, <2>4, WorkerPlace
  <2>5. QED
    BY <1>1, <2>3, <2>4 DEF ResumeBegin
<1>2. CASE Check(r)
  <2>1. \A q \in Procs : q # r => mem'[q] = mem[q]
    BY <1>0, <1>2, <1>a DEF Check
  <2>2. QED
    BY <1>2, <1>b, <2>1, WorkerPlace DEF Check
<1>3. CASE Ask(r)
  <2>1. PICK d \in Ids : mem' = [mem EXCEPT ![r].id = d]
    BY <1>0, <1>3 DEF Ask
  <2>2. /\ \A q \in Procs : q # r => mem'[q] = mem[q]
        /\ mem'[r].id = d /\ mem'[r].todo = mem[r].todo
    BY <1>0, <1>a, <2>1 DEF Memory
  <2>3. mem[r].todo \in 1..Len(Plan)
    BY <1>0, <1>3 DEF Ask
  <2>4. QED
    BY <1>3, <1>b, <2>2, <2>3, WorkerPlace DEF Ask
<1>4. CASE Query(r)
  <2>1. CASE TakeReceipt(r)
    BY <1>4, <1>c, <2>1 DEF Query
  <2>2. CASE Goto(r, "execute") /\ UNCHANGED <<store, executor, repo, lock, mem>>
    <3>1. mem[r].id \in Ids /\ mem[r].todo \in 1..Len(Plan)
      BY <1>4 DEF Query, PlaceInv
    <3>2. QED
      BY <1>4, <1>b, <2>2, <3>1, WorkerPlace DEF Query
  <2>3. QED
    BY <1>4, <2>1, <2>2 DEF Query
<1>5. CASE Execute(r)
  <2>1. mem[r].id \in Ids /\ mem[r].todo \in 1..Len(Plan)
    BY <1>5 DEF Execute, PlaceInv
  <2>2. QED
    BY <1>5, <1>b, <2>1, WorkerPlace DEF Execute
<1>6. CASE Recorded(r)
  BY <1>6, <1>c DEF Recorded
<1>7. CASE TimedOut(r)
  BY <1>0, <1>7, <1>b, LeavePlace DEF TimedOut
<1>8. CASE Verify(r)
  BY <1>8, <1>b, WorkerPlace DEF Verify
<1>9. CASE RunGates(r)
  BY <1>9, <1>b, WorkerPlace DEF RunGates
<1>10. CASE Judge(r)
  BY <1>0, <1>10, <1>b, LeavePlace DEF Judge
<1>11. CASE Redo(r)
  BY <1>0, <1>11, <1>b, LeavePlace DEF Redo
<1>12. CASE Cancel(r)
  BY <1>12 DEF Cancel, PlaceInv
<1>13. QED
  BY <1>1, <1>2, <1>3, <1>4, <1>5, <1>6, <1>7, <1>8, <1>9, <1>10, <1>11, <1>12 DEF Works

LEMMA DecidesPlace ==
    ASSUME TypeOK, PlaceInv, NEW o \in Owners, Decides(o)
    PROVE  PlaceInv'
<1>0. o \in Procs /\ lock # o
  BY Apart, Distinct DEF TypeOK
<1> USE DEF OwnerPlaces
<1>a. mem \in [Procs -> Memory]
  BY DEF TypeOK
<1>b. ASSUME Leave(o) PROVE PlaceInv'
  BY <1>0, <1>b, LeavePlace DEF Leave
<1>1. CASE ApproveLoad(o)
  BY <1>0, <1>a, <1>1, OwnerPlace DEF ApproveLoad
<1>2. CASE Approve(o)
  BY <1>2, OwnerPlace DEF Approve
<1>3. CASE RejectLoad(o)
  BY <1>0, <1>a, <1>3, OwnerPlace DEF RejectLoad
<1>4. CASE Reject(o)
  BY <1>4, OwnerPlace DEF Reject
<1>5. CASE Link(o) \/ Fail(o)
  BY <1>5, <1>b DEF Link, Fail
<1>6. QED
  BY <1>1, <1>2, <1>3, <1>4, <1>5 DEF Decides

LEMMA OtherPlace ==
    ASSUME TypeOK, PlaceInv,
           \/ \E p \in Procs : Abort(p)
           \/ \E d \in Ids : Settle(d) \/ OwnerSigns(d)
           \/ Edit
           \/ UNCHANGED vars
    PROVE  PlaceInv'
<1>1. ASSUME NEW p \in Procs, Abort(p) PROVE PlaceInv'
  <2>1. lock = p \/ lock' = lock
    BY <1>1 DEF Abort, Leave
  <2>2. QED
    BY <1>1, <2>1, LeavePlace DEF Abort
<1>2. CASE UNCHANGED <<lock, pc, mem>>
  BY <1>2 DEF PlaceInv
<1>3. QED
  BY <1>1, <1>2 DEF Settle, OwnerSigns, Edit, vars

-----------------------------------------------------------------------------
LEMMA InitReplay == Init => ReplayInv
<1> SUFFICES ASSUME Init PROVE ReplayInv
  OBVIOUS
<1>1. \A r \in Workers : pc[r] = "idle"
  BY Apart DEF Init
<1>2. \A d \in Ids : ran[d] = 0
  BY DEF Init
<1>3. QED
  BY <1>1, <1>2 DEF ReplayInv

(* ReplayInv when nothing is started: records only become pending, or end  *)
(* after having been started, and nobody comes to the point of starting.   *)
LEMMA ReplayFrame ==
    ASSUME PlaceInv, ReplayInv, ran' = ran, signed \subseteq signed',
           \A d \in Ids : \/ ext'[d].st = ext[d].st
                          \/ ext[d].st = "none" /\ ext'[d].st = "pending"
                          \/ ext[d].st = "acting" /\ ext'[d].st \in {"pass", "fail", "consumed"},
           \A r \in Workers : pc'[r] = "execute" => pc[r] = "execute" /\ mem'[r].id = mem[r].id
    PROVE  ReplayInv'
<1>1. \A d \in Ids : ext'[d].st \in {"none", "pending"} => ext[d].st \in {"none", "pending"}
  OBVIOUS
<1>2. ASSUME NEW r \in Workers, pc'[r] = "execute"
      PROVE  ext'[mem'[r].id].st = "pending" /\ mem'[r].id \in signed'
  <2>1. mem[r].id \in Ids /\ mem'[r].id = mem[r].id
        /\ ext[mem[r].id].st = "pending" /\ mem[r].id \in signed
    BY <1>2 DEF PlaceInv, ReplayInv, Executing
  <2>2. QED
    BY <2>1
<1>3. QED
  BY <1>1, <1>2 DEF ReplayInv

(* The end of a command brings nobody to the point of starting. *)
LEMMA LeaveReplay ==
    ASSUME TypeOK, NEW p \in Procs, Leave(p)
    PROVE  \A r \in Workers : pc'[r] = "execute" => pc[r] = "execute" /\ mem'[r].id = mem[r].id
  BY Apart DEF TypeOK, Leave, Goto

LEMMA DecidesReplay ==
    ASSUME TypeOK, PlaceInv, ReplayInv, NEW o \in Owners, Decides(o)
    PROVE  ReplayInv'
<1>1. \A r \in Workers : pc'[r] = "execute" => pc[r] = "execute" /\ mem'[r].id = mem[r].id
  <2>1. o \in Procs /\ pc \in [Procs -> Places] /\ mem \in [Procs -> Memory]
    BY Apart DEF TypeOK
  <2>2. CASE ApproveLoad(o) \/ RejectLoad(o)
    BY <2>1, <2>2, Apart DEF ApproveLoad, RejectLoad, Goto
  <2>3. CASE Approve(o) \/ Reject(o)
    BY <2>1, <2>3, Apart DEF Approve, Reject, Goto
  <2>4. CASE Link(o) \/ Fail(o)
    BY <2>1, <2>4, LeaveReplay DEF Link, Fail
  <2>5. QED
    BY <2>2, <2>3, <2>4 DEF Decides
<1>2. ran' = ran /\ ext' = ext /\ signed \subseteq signed'
  BY DEF Decides, ApproveLoad, Approve, Link, RejectLoad, Reject, Fail, executor
<1>3. QED
  BY <1>1, <1>2, ReplayFrame

LEMMA WorksReplay ==
    ASSUME TypeOK, PlaceInv, ReplayInv, NEW r \in Workers, Works(r)
    PROVE  ReplayInv'
<1>0. /\ r \in Procs /\ pc \in [Procs -> Places] /\ mem \in [Procs -> Memory]
      /\ ext \in [Ids -> Records] /\ ran \in [Ids -> Nat]
  BY Apart DEF TypeOK
<1> DEFINE Holds == \A q \in Workers : pc'[q] = "execute" =>
                        pc[q] = "execute" /\ mem'[q].id = mem[q].id
<1>a. ASSUME NEW place \in WorkerPlaces \ {"execute"}, Goto(r, place),
             \A q \in Procs : q # r => mem'[q] = mem[q]
      PROVE  Holds
  BY <1>0, <1>a, Apart DEF Goto
<1>b. ASSUME TakeReceipt(r) PROVE ReplayInv'
  <2>1. CASE repo.commit = mem[r].fp.commit
    <3>1. Goto(r, "act") /\ \A q \in Procs : q # r => mem'[q] = mem[q]
      BY <1>0, <1>b, <2>1 DEF TakeReceipt
    <3>2. Holds
      BY <1>a, <3>1 DEF WorkerPlaces
    <3>3. QED
      BY <1>b, <3>2, ReplayFrame DEF TakeReceipt, executor
  <2>2. CASE repo.commit # mem[r].fp.commit
    <3>1. Holds
      BY <1>0, <1>b, <2>2, LeaveReplay DEF TakeReceipt
    <3>2. QED
      BY <1>b, <3>1, ReplayFrame DEF TakeReceipt, executor
  <2>3. QED
    BY <2>1, <2>2
<1>1. CASE ResumeBegin(r)
  <2>1. \A q \in Procs : q # r => mem'[q] = mem[q]
    BY <1>0, <1>1 DEF ResumeBegin
  <2>2. Holds
    BY <1>1, <1>a, <2>1 DEF ResumeBegin, WorkerPlaces
  <2>3. QED
    BY <1>1, <2>2, ReplayFrame DEF ResumeBegin, executor
<1>2. CASE Check(r)
  <2>1. \A q \in Procs : q # r => mem'[q] = mem[q]
    BY <1>0, <1>2 DEF Check
  <2>2. Holds
    BY <1>2, <1>a, <2>1 DEF Check, WorkerPlaces
  <2>3. QED
    BY <1>2, <2>2, ReplayFrame DEF Check, executor
<1>3. CASE Ask(r)
  <2>1. /\ \A q \in Procs : q # r => mem'[q] = mem[q]
        /\ Goto(r, "query") /\ UNCHANGED <<ran, signed>>
    BY <1>0, <1>3 DEF Ask
  <2>2. Holds
    BY <1>a, <2>1 DEF WorkerPlaces, Executing
  <2>3. \A e \in Ids : \/ ext'[e].st = ext[e].st
                       \/ ext[e].st = "none" /\ ext'[e].st = "pending"
    <3>1. UNCHANGED ext \/ \E d \in Ids : Evaluated(d, Plan[mem[r].todo])
      BY <1>3 DEF Ask
    <3>2. QED
      BY <1>0, <3>1 DEF Evaluated, Absent
  <2>4. QED
    BY <2>1, <2>2, <2>3, ReplayFrame
<1>4. CASE Query(r)
  <2>1. CASE TakeReceipt(r)
    BY <1>b, <2>1
  <2>2. CASE ~ TakeReceipt(r)
    <3>1. /\ ext[mem[r].id].st = "pending" /\ mem[r].id \in signed
          /\ pc' = [pc EXCEPT ![r] = "execute"]
          /\ UNCHANGED <<ext, signed, ran, mem>>
      BY <1>4, <2>2 DEF Query, Goto, executor
    <3>2. QED
      BY <1>0, <3>1, Apart DEF ReplayInv
  <2>3. QED
    BY <2>1, <2>2
<1>5. CASE Execute(r)
  <2>1. mem[r].id \in Ids /\ ext[mem[r].id].st = "pending" /\ ran[mem[r].id] = 0
    BY <1>5 DEF Execute, PlaceInv, ReplayInv, Executing
  <2>2. \A q \in Workers : pc'[q] # "execute"
    BY <1>0, <1>5, Apart DEF Execute, PlaceInv, Goto
  <2>3. \A d \in Ids : /\ ran'[d] = IF d = mem[r].id THEN 1 ELSE ran[d]
                       /\ ext'[d].st = IF d = mem[r].id THEN "acting" ELSE ext[d].st
    BY <1>0, <1>5, <2>1 DEF Execute, Records
  <2>4. QED
    BY <2>2, <2>3 DEF ReplayInv
<1>6. CASE Recorded(r)
  BY <1>6, <1>b DEF Recorded
<1>7. CASE TimedOut(r)
  <2>1. mem[r].id \in Ids
    BY <1>7 DEF TimedOut, PlaceInv, Executing
  <2>2. \A d \in Ids : \/ ext'[d].st = ext[d].st
                       \/ ext[d].st = "acting" /\ ext'[d].st = "consumed"
    BY <1>0, <1>7, <2>1 DEF TimedOut, Records
  <2>3. Holds
    BY <1>0, <1>7, LeaveReplay DEF TimedOut
  <2>4. QED
    BY <1>7, <2>2, <2>3, ReplayFrame DEF TimedOut
<1>8. CASE Verify(r) \/ RunGates(r)
  <2>1. Holds
    BY <1>8, <1>a DEF Verify, RunGates, WorkerPlaces
  <2>2. QED
    BY <1>8, <2>1, ReplayFrame DEF Verify, RunGates, executor
<1>9. CASE Judge(r)
  <2>1. Holds
    BY <1>0, <1>9, LeaveReplay DEF Judge
  <2>2. QED
    BY <1>9, <2>1, ReplayFrame DEF Judge, executor
<1>10. CASE Redo(r)
  <2>1. Holds
    BY <1>0, <1>10, LeaveReplay DEF Redo
  <2>2. \A e \in Ids : \/ ext'[e].st = ext[e].st
                       \/ ext[e].st = "none" /\ ext'[e].st = "pending"
    <3>1. UNCHANGED ext \/ \E d \in Ids : Evaluated(d, Plan[1])
      BY <1>10 DEF Redo
    <3>2. QED
      BY <1>0, <3>1 DEF Evaluated, Absent
  <2>3. QED
    BY <1>10, <2>1, <2>2, ReplayFrame DEF Redo
<1>11. CASE Cancel(r)
  BY <1>11, ReplayFrame DEF Cancel, executor
<1>12. QED
  BY <1>1, <1>2, <1>3, <1>4, <1>5, <1>6, <1>7, <1>8, <1>9, <1>10, <1>11 DEF Works

LEMMA OtherReplay ==
    ASSUME TypeOK, PlaceInv, ReplayInv,
           \/ \E p \in Procs : Abort(p)
           \/ \E d \in Ids : Settle(d) \/ OwnerSigns(d)
           \/ Edit
           \/ UNCHANGED vars
    PROVE  ReplayInv'
<1>1. ASSUME NEW p \in Procs, Abort(p) PROVE ReplayInv'
  BY <1>1, LeaveReplay, ReplayFrame DEF Abort, executor
<1>2. ASSUME NEW d \in Ids, Settle(d) PROVE ReplayInv'
  <2>1. \A e \in Ids : \/ ext'[e].st = ext[e].st
                       \/ ext[e].st = "acting" /\ ext'[e].st \in {"pass", "fail", "consumed"}
    BY <1>2 DEF Settle, TypeOK, Records
  <2>2. QED
    BY <1>2, <2>1, ReplayFrame DEF Settle
<1>3. ASSUME NEW d \in Ids, OwnerSigns(d) PROVE ReplayInv'
  BY <1>3, ReplayFrame DEF OwnerSigns
<1>4. CASE Edit \/ UNCHANGED vars
  BY <1>4, ReplayFrame DEF Edit, vars, executor
<1>5. QED
  BY <1>1, <1>2, <1>3, <1>4

-----------------------------------------------------------------------------
LEMMA Inductive == Spec => [](TypeOK /\ PlaceInv /\ ReplayInv)
<1>1. Init => TypeOK /\ PlaceInv /\ ReplayInv
  BY InitType, InitReplay
<1>2. TypeOK /\ PlaceInv /\ ReplayInv /\ [Next]_vars => (TypeOK /\ PlaceInv /\ ReplayInv)'
  <2> SUFFICES ASSUME TypeOK, PlaceInv, ReplayInv, [Next]_vars
               PROVE  TypeOK' /\ PlaceInv' /\ ReplayInv'
    OBVIOUS
  <2>1. CASE \E o \in Owners : Decides(o)
    BY <2>1, OwnerType, DecidesPlace, DecidesReplay
  <2>2. CASE \E r \in Workers : Works(r)
    BY <2>2, WorkerType, WorksPlace, WorksReplay
  <2>3. CASE \/ \E p \in Procs : Abort(p)
             \/ \E d \in Ids : Settle(d) \/ OwnerSigns(d)
             \/ Edit
             \/ UNCHANGED vars
    BY <2>3, OtherType, OtherPlace, OtherReplay
  <2>4. QED
    BY <2>1, <2>2, <2>3 DEF Next
<1>3. QED
  BY <1>1, <1>2, PTL DEF Spec

(* The documents of the run directory keep their types. *)
THEOREM TypeCorrect == Spec => []TypeOK
  BY Inductive, PTL

(* An authorised decision is executed at most once, whatever crashes, is   *)
(* killed, resumed or cancelled, and however many people and workers there *)
(* are.                                                                    *)
THEOREM ExecutedOnce == Spec => []OncePerDecision
<1>1. ReplayInv => OncePerDecision
  BY DEF ReplayInv, OncePerDecision
<1>2. QED
  BY <1>1, Inductive, PTL

(* The half of NoEffectUnapproved that needs no assumption on who decides: *)
(* nothing is started that the owner has not approved in the executor.     *)
SignedFirst == [][\A d \in Ids : ran'[d] # ran[d] => d \in signed]_vars

(* resume starts nothing the owner has not approved in the executor, for   *)
(* any number of people deciding at once.                                  *)
THEOREM StartedIsSigned == Spec => SignedFirst
<1>1. ASSUME TypeOK, PlaceInv, ReplayInv, Next, NEW d \in Ids, ran'[d] # ran[d]
      PROVE  d \in signed
  <2>1. PICK r \in Workers : Execute(r)
    BY <1>1 DEF Next, Decides, Works, ApproveLoad, Approve, Link, RejectLoad, Reject, Fail,
        ResumeBegin, Check, Ask, Query, TakeReceipt, Recorded, TimedOut, Verify, RunGates,
        Judge, Redo, Cancel, Abort, Settle, OwnerSigns, Edit, executor
  <2>2. mem[r].id \in Ids /\ mem[r].id \in signed
    BY <1>1, <2>1 DEF Execute, PlaceInv, ReplayInv, Executing
  <2>3. d = mem[r].id
    BY <1>1, <2>1, <2>2 DEF Execute, TypeOK
  <2>4. QED
    BY <2>2, <2>3
<1>2. TypeOK /\ PlaceInv /\ ReplayInv /\ [Next]_vars
        => [\A d \in Ids : ran'[d] # ran[d] => d \in signed]_vars
  BY <1>1
<1>3. QED
  BY <1>2, Inductive, PTL DEF Spec, SignedFirst

-----------------------------------------------------------------------------
(* One person decides at a time: two who do may contradict each other, and *)
(* the code takes no lock against that.                                    *)
OneOwner == \A o1, o2 \in Owners : o1 = o2

Acting == Executing \cup {"act", "gates", "judge"}

(* Who rejects has found no approval, and a resume that got past its check *)
(* works on one.                                                           *)
ApprovedInv ==
    /\ \A o \in Owners : pc[o] = "reject" => decision.kind # "approved"
    /\ \A r \in Workers : pc[r] \in Acting => decision.kind = "approved"

(* ApprovedInv where the decision stays and nobody comes to act on it.     *)
LEMMA ApprovedFrame ==
    ASSUME ApprovedInv, decision' = decision,
           \A o \in Owners : pc'[o] = "reject" => pc[o] = "reject" \/ decision.kind # "approved",
           \A r \in Workers : pc'[r] \in Acting => pc[r] \in Acting \/ decision.kind = "approved"
    PROVE  ApprovedInv'
  BY DEF ApprovedInv

(* The end of a command brings nobody anywhere else. *)
LEMMA LeaveGoesNowhere ==
    ASSUME TypeOK, NEW p \in Procs, Leave(p)
    PROVE  \A q \in Procs : pc'[q] \in {pc[q], "idle"}
  BY DEF TypeOK, Leave, Goto

LEMMA DecidesApproved ==
    ASSUME OneOwner, TypeOK, PlaceInv, ApprovedInv, NEW o \in Owners, Decides(o)
    PROVE  ApprovedInv'
<1>0. o \in Procs /\ pc \in [Procs -> Places] /\ \A q \in Owners : q = o
  BY Apart DEF TypeOK, OneOwner
<1>1. CASE ApproveLoad(o) \/ RejectLoad(o)
  <2>1. \A r \in Workers : pc'[r] = pc[r]
    BY <1>0, <1>1, Apart DEF ApproveLoad, RejectLoad, Goto
  <2>2. pc'[o] = "reject" => decision.kind # "approved"
    BY <1>0, <1>1 DEF ApproveLoad, RejectLoad, Goto
  <2>3. QED
    BY <1>0, <1>1, <2>1, <2>2, ApprovedFrame DEF ApproveLoad, RejectLoad, store
<1>2. CASE Approve(o)
  <2>1. pc'[o] = "link" /\ decision'.kind = "approved"
    BY <1>0, <1>2 DEF Approve, Goto
  <2>2. QED
    BY <1>0, <2>1 DEF ApprovedInv
<1>3. CASE Reject(o)
  <2>1. pc'[o] = "fail" /\ decision.kind # "approved" /\ \A r \in Workers : pc'[r] = pc[r]
    BY <1>0, <1>3, Apart DEF Reject, Goto, ApprovedInv
  <2>2. QED
    BY <1>0, <2>1 DEF ApprovedInv
<1>4. CASE Link(o) \/ Fail(o)
  <2>1. \A q \in Procs : pc'[q] \in {pc[q], "idle"}
    BY <1>0, <1>4, LeaveGoesNowhere DEF Link, Fail
  <2>2. QED
    BY <1>4, <2>1, ApprovedFrame, Apart DEF Link, Fail, store, Acting, Executing
<1>5. QED
  BY <1>1, <1>2, <1>3, <1>4 DEF Decides

LEMMA WorksApproved ==
    ASSUME TypeOK, PlaceInv, ApprovedInv, NEW r \in Workers, Works(r)
    PROVE  ApprovedInv'
<1>0. r \in Procs /\ pc \in [Procs -> Places]
  BY Apart DEF TypeOK
<1>a. ASSUME NEW place, Goto(r, place), decision' = decision,
             place \in Acting => pc[r] \in Acting \/ decision.kind = "approved"
      PROVE  ApprovedInv'
  <2>1. \A q \in Procs : pc'[q] = IF q = r THEN place ELSE pc[q]
    BY <1>0, <1>a DEF Goto
  <2>2. QED
    BY <1>a, <2>1, Apart, ApprovedFrame
<1>b. ASSUME Leave(r), decision' = decision PROVE ApprovedInv'
  <2>1. \A q \in Procs : pc'[q] \in {pc[q], "idle"}
    BY <1>0, <1>b, LeaveGoesNowhere
  <2>2. QED
    BY <1>b, <2>1, ApprovedFrame, Apart DEF Acting, Executing
<1>c. ASSUME TakeReceipt(r), pc[r] \in Acting PROVE ApprovedInv'
  BY <1>a, <1>b, <1>c DEF TakeReceipt
<1>1. CASE ResumeBegin(r)
  BY <1>1, <1>a DEF ResumeBegin, store, Acting, Executing
<1>2. CASE Check(r)
  BY <1>2, <1>a DEF Check, store
<1>3. CASE Ask(r)
  BY <1>3, <1>a DEF Ask, store, Acting
<1>4. CASE Query(r)
  BY <1>4, <1>a, <1>c DEF Query, store, Acting, Executing
<1>5. CASE Execute(r)
  BY <1>5, <1>a DEF Execute, store, Acting, Executing
<1>6. CASE Recorded(r)
  BY <1>6, <1>c DEF Recorded, Acting, Executing
<1>7. CASE TimedOut(r) \/ Judge(r) \/ Redo(r)
  BY <1>7, <1>b DEF TimedOut, Judge, Redo, store
<1>8. CASE Verify(r) \/ RunGates(r)
  BY <1>8, <1>a DEF Verify, RunGates, Acting
<1>9. CASE Cancel(r)
  BY <1>9, ApprovedFrame DEF Cancel
<1>10. QED
  BY <1>1, <1>2, <1>3, <1>4, <1>5, <1>6, <1>7, <1>8, <1>9 DEF Works

LEMMA OtherApproved ==
    ASSUME TypeOK, ApprovedInv,
           \/ \E p \in Procs : Abort(p)
           \/ \E d \in Ids : Settle(d) \/ OwnerSigns(d)
           \/ Edit
           \/ UNCHANGED vars
    PROVE  ApprovedInv'
<1>1. ASSUME NEW p \in Procs, Abort(p) PROVE ApprovedInv'
  <2>1. \A q \in Procs : pc'[q] \in {pc[q], "idle"}
    BY <1>1, LeaveGoesNowhere DEF Abort
  <2>2. QED
    BY <1>1, <2>1, ApprovedFrame, Apart DEF Abort, store, Acting, Executing
<1>2. CASE UNCHANGED <<decision, pc>>
  BY <1>2, ApprovedFrame
<1>3. QED
  BY <1>1, <1>2 DEF Settle, OwnerSigns, Edit, vars, store

-----------------------------------------------------------------------------
(* With one action in the plan a receipt, which is kept without the action *)
(* it belongs to, can only be that action's.                               *)
AtMostOneAction == Len(Plan) <= 1

Performed == \A act \in Actions : \E d \in Ids : ext[d] = [act |-> act, st |-> "pass"]

(* The executor's records are of actions of the plan; a receipt, and a     *)
(* resume with nothing left to do, mean that all of them passed; and a     *)
(* complete task is left alone.                                            *)
EarnedInv ==
    /\ \A d \in Ids : ext[d].st # "none" => ext[d].act \in Actions
    /\ receipt # None => Performed
    /\ \A r \in Workers :
        (pc[r] \in {"gates", "judge"} \/ (pc[r] = "act" /\ mem[r].todo > Len(Plan))) => Performed
    /\ task = "complete" => lock = None /\ CompletionEarned

(* A passing record is never overwritten, and every record is of an action *)
(* of the plan.                                                            *)
LEMMA RecordsStay ==
    ASSUME TypeOK, PlaceInv, ReplayInv, EarnedInv, [Next]_vars
    PROVE  /\ \A d \in Ids : ext[d].st = "pass" => ext'[d] = ext[d]
           /\ \A d \in Ids : ext'[d].st # "none" => ext'[d].act \in Actions
<1>0. /\ ext \in [Ids -> Records] /\ \A d \in Ids : ext[d].st # "none" => ext[d].act \in Actions
      /\ \A i \in 1..Len(Plan) : Plan[i] \in Actions
      /\ \A r \in Workers : r \in Procs
  BY PlanFacts, Apart DEF TypeOK, EarnedInv
<1>1. CASE UNCHANGED ext
  BY <1>0, <1>1
<1>2. ASSUME NEW d \in Ids, NEW i \in 1..Len(Plan), Evaluated(d, Plan[i])
      PROVE  /\ \A e \in Ids : ext[e].st = "pass" => ext'[e] = ext[e]
             /\ \A e \in Ids : ext'[e].st # "none" => ext'[e].act \in Actions
  BY <1>0, <1>2 DEF Evaluated, Absent
<1>3. ASSUME NEW d \in Ids, ext[d].st \in {"pending", "acting"},
             NEW st, ext' = [ext EXCEPT ![d] = [ext[d] EXCEPT !.st = st]]
      PROVE  /\ \A e \in Ids : ext[e].st = "pass" => ext'[e] = ext[e]
             /\ \A e \in Ids : ext'[e].st # "none" => ext'[e].act \in Actions
  <2>1. ext'[d].act = ext[d].act /\ ext[d].act \in Actions
    BY <1>0, <1>3 DEF Records
  <2>2. \A e \in Ids : e # d => ext'[e] = ext[e]
    BY <1>0, <1>3
  <2>3. QED
    BY <1>0, <1>3, <2>1, <2>2
<1>4. ASSUME NEW r \in Workers, Works(r), ~ UNCHANGED ext
      PROVE  /\ \A e \in Ids : ext[e].st = "pass" => ext'[e] = ext[e]
             /\ \A e \in Ids : ext'[e].st # "none" => ext'[e].act \in Actions
  <2>1. Ask(r) \/ Execute(r) \/ TimedOut(r) \/ Redo(r)
    BY <1>4 DEF Works, ResumeBegin, Check, Query, TakeReceipt, Recorded, Verify, RunGates, Judge,
        Cancel, executor
  <2>2. CASE Ask(r)
    <3>1. mem[r].todo \in 1..(Len(Plan) + 1) /\ mem[r].todo <= Len(Plan)
      BY <1>0, <2>2, MemoryParts DEF Ask
    <3>2. mem[r].todo \in 1..Len(Plan)
      BY <3>1, PlanFacts
    <3>3. \E d \in Ids : Evaluated(d, Plan[mem[r].todo])
      BY <1>4, <2>2 DEF Ask
    <3>4. QED
      BY <1>2, <3>2, <3>3
  <2>3. CASE Execute(r)
    <3>1. mem[r].id \in Ids /\ ext[mem[r].id].st = "pending"
      BY <2>3 DEF Execute, PlaceInv, ReplayInv, Executing
    <3>2. ext' = [ext EXCEPT ![mem[r].id] = [ext[mem[r].id] EXCEPT !.st = "acting"]]
      BY <2>3 DEF Execute
    <3>3. QED
      BY <1>3, <3>1, <3>2
  <2>4. CASE TimedOut(r)
    <3>1. mem[r].id \in Ids /\ ext[mem[r].id].st = "acting"
      BY <2>4 DEF TimedOut, PlaceInv, Executing
    <3>2. ext' = [ext EXCEPT ![mem[r].id] = [ext[mem[r].id] EXCEPT !.st = "consumed"]]
      BY <2>4 DEF TimedOut
    <3>3. QED
      BY <1>3, <3>1, <3>2
  <2>5. CASE Redo(r)
    <3>1. PICK d \in Ids : Plan # <<>> /\ Evaluated(d, Plan[1])
      BY <1>4, <2>5 DEF Redo
    <3>2. 1 \in 1..Len(Plan)
      BY <3>1, PlanFacts
    <3>3. QED
      BY <1>2, <3>1, <3>2
  <2>6. QED
    BY <2>1, <2>2, <2>3, <2>4, <2>5
<1>5. ASSUME NEW d \in Ids, Settle(d)
      PROVE  /\ \A e \in Ids : ext[e].st = "pass" => ext'[e] = ext[e]
             /\ \A e \in Ids : ext'[e].st # "none" => ext'[e].act \in Actions
  <2>1. PICK st : ext' = [ext EXCEPT ![d] = [ext[d] EXCEPT !.st = st]]
    BY <1>5 DEF Settle
  <2>2. QED
    BY <1>3, <1>5, <2>1 DEF Settle
<1>6. CASE \E o \in Owners : Decides(o)
  BY <1>1, <1>6 DEF Decides, ApproveLoad, Approve, Link, RejectLoad, Reject, Fail, executor
<1>7. CASE (\E p \in Procs : Abort(p)) \/ (\E d \in Ids : OwnerSigns(d)) \/ Edit \/ UNCHANGED vars
  BY <1>1, <1>7 DEF Abort, OwnerSigns, Edit, vars, executor
<1>8. QED
  BY <1>1, <1>4, <1>5, <1>6, <1>7 DEF Next

(* What was performed stays performed. *)
LEMMA PerformedStays ==
    ASSUME TypeOK, PlaceInv, ReplayInv, EarnedInv, [Next]_vars, Performed
    PROVE  Performed'
<1> SUFFICES ASSUME NEW act \in Actions
             PROVE  \E d \in Ids : ext'[d] = [act |-> act, st |-> "pass"]
  BY DEF Performed
<1>1. PICK d \in Ids : ext[d] = [act |-> act, st |-> "pass"]
  BY DEF Performed
<1>2. ext'[d] = ext[d]
  BY <1>1, RecordsStay
<1>3. QED
  BY <1>1, <1>2

(* The one action passed. *)
LEMMA PassIsPerformed ==
    ASSUME AtMostOneAction, TypeOK, EarnedInv, NEW d \in Ids, ext[d].st = "pass"
    PROVE  Performed
<1>1. ext[d].act \in Actions /\ ext[d] = [act |-> ext[d].act, st |-> "pass"]
  BY DEF EarnedInv, TypeOK, Records
<1>2. \A a, b \in Actions : a = b
  BY PlanFacts DEF Actions, AtMostOneAction
<1>3. QED
  BY <1>1, <1>2 DEF Performed

(* So are all of none. *)
LEMMA NothingIsPerformed ==
    ASSUME Len(Plan) < 1
    PROVE  Performed
<1>1. Actions = {}
  BY PlanFacts DEF Actions
<1>2. QED
  BY <1>1 DEF Performed

(* EarnedInv where the task does not become complete here. *)
LEMMA EarnedFrame ==
    ASSUME TypeOK, PlaceInv, ReplayInv, EarnedInv, [Next]_vars,
           receipt' # None => receipt # None \/ Performed,
           \A r \in Workers :
             (pc'[r] \in {"gates", "judge"} \/ (pc'[r] = "act" /\ mem'[r].todo > Len(Plan)))
               => \/ pc[r] \in {"gates", "judge"} \/ (pc[r] = "act" /\ mem[r].todo > Len(Plan))
                  \/ Performed,
           task' = "complete" => \/ task = "complete" /\ lock' = lock /\ plan' = plan /\ decision'.kind = "approved"
                                 \/ lock' = None /\ decision'.kind = "approved" /\ plan' = "passed" /\ Performed
    PROVE  EarnedInv'
<1>1. Performed => Performed'
  BY PerformedStays
<1>2. \A d \in Ids : ext'[d].st # "none" => ext'[d].act \in Actions
  BY RecordsStay
<1>3. receipt' # None => Performed'
  BY <1>1 DEF EarnedInv
<1>4. \A r \in Workers : (pc'[r] \in {"gates", "judge"} \/ (pc'[r] = "act" /\ mem'[r].todo > Len(Plan)))
        => Performed'
  BY <1>1 DEF EarnedInv
<1>5. task = "complete" => lock = None /\ plan = "passed" /\ Performed
  BY DEF EarnedInv, CompletionEarned, Performed
<1>6. task' = "complete" => lock' = None /\ decision'.kind = "approved" /\ plan' = "passed" /\ Performed'
  BY <1>1, <1>5
<1>7. QED
  BY <1>2, <1>3, <1>4, <1>6 DEF EarnedInv, CompletionEarned, Performed

(* A complete task has no resume or cancellation under way. *)
LEMMA NobodyWorksOnComplete ==
    ASSUME PlaceInv, EarnedInv, task = "complete", NEW r \in Workers
    PROVE  ~ Works(r)
<1>1. lock = None
  BY DEF EarnedInv
<1>2. pc[r] = "idle"
  BY <1>1, Apart DEF PlaceInv
<1>3. QED
  BY <1>2 DEF Works, ResumeBegin, Check, Ask, Query, Execute, Recorded, TimedOut, Verify, RunGates,
      Judge, Redo, Cancel

LEMMA DecidesEarned ==
    ASSUME TypeOK, PlaceInv, ReplayInv, ApprovedInv, EarnedInv, [Next]_vars,
           NEW o \in Owners, Decides(o)
    PROVE  EarnedInv'
<1>0. o \in Procs /\ pc \in [Procs -> Places] /\ mem \in [Procs -> Memory]
  BY Apart DEF TypeOK
<1>1. \A r \in Workers : pc'[r] = pc[r] /\ mem'[r] = mem[r]
  BY <1>0, Apart DEF Decides, ApproveLoad, Approve, Link, RejectLoad, Reject, Fail, Leave, Goto
<1>2. receipt' = receipt /\ plan' = plan
  BY DEF Decides, ApproveLoad, Approve, Link, RejectLoad, Reject, Fail, store
<1>3. task' = "complete" => task = "complete" /\ lock' = lock /\ decision'.kind = "approved"
  <2> SUFFICES ASSUME task' = "complete"
               PROVE  task = "complete" /\ lock' = lock /\ decision'.kind = "approved"
    OBVIOUS
  <2>1. task = "complete"
    BY DEF Decides, ApproveLoad, Approve, Link, RejectLoad, Reject, Fail, store
  <2>2. lock = None /\ decision.kind = "approved"
    BY <2>1 DEF EarnedInv, CompletionEarned
  <2>3. lock' = lock
    BY <2>2 DEF Decides, ApproveLoad, Approve, Link, RejectLoad, Reject, Fail, Leave
  <2>4. ~ Reject(o)
    BY <2>2 DEF ApprovedInv, Reject
  <2>5. decision'.kind = "approved"
    BY <2>2, <2>4 DEF Decides, ApproveLoad, Approve, Link, RejectLoad, Fail, store
  <2>6. QED
    BY <2>1, <2>3, <2>5
<1>4. QED
  BY <1>1, <1>2, <1>3, EarnedFrame

LEMMA WorksEarned ==
    ASSUME AtMostOneAction, TypeOK, PlaceInv, ReplayInv, ApprovedInv, EarnedInv, [Next]_vars,
           NEW r \in Workers, Works(r)
    PROVE  EarnedInv'
<1>0. /\ r \in Procs /\ pc \in [Procs -> Places] /\ mem \in [Procs -> Memory] /\ task # "complete"
      /\ mem[r] \in Memory /\ mem[r].todo \in 1..(Len(Plan) + 1) /\ Len(Plan) \in Nat
  BY Apart, MemoryParts, PlanFacts, NobodyWorksOnComplete DEF TypeOK
<1> DEFINE Due(q) == pc[q] \in {"gates", "judge"} \/ (pc[q] = "act" /\ mem[q].todo > Len(Plan))
           DueNext(q) == pc'[q] \in {"gates", "judge"} \/ (pc'[q] = "act" /\ mem'[q].todo > Len(Plan))
\* The others stay where they are.
<1>a. ASSUME NEW place, Goto(r, place), \A q \in Procs : q # r => mem'[q] = mem[q],
             place \in {"gates", "judge"} \/ (place = "act" /\ mem'[r].todo > Len(Plan)) => Due(r) \/ Performed,
             receipt' # None => receipt # None \/ Performed,
             task' # "complete"
      PROVE  EarnedInv'
  <2>1. \A q \in Workers : q # r => pc'[q] = pc[q] /\ mem'[q] = mem[q]
    BY <1>0, <1>a, Apart DEF Goto
  <2>2. pc'[r] = place
    BY <1>0, <1>a DEF Goto
  <2>3. \A q \in Workers : DueNext(q) => Due(q) \/ Performed
    BY <1>a, <2>1, <2>2
  <2>4. QED
    BY <1>a, <2>3, EarnedFrame
<1>b. ASSUME Leave(r), receipt' # None => receipt # None \/ Performed,
             task' = "complete" => lock' = None /\ decision'.kind = "approved" /\ plan' = "passed" /\ Performed
      PROVE  EarnedInv'
  <2>1. \A q \in Workers : pc'[q] = "idle" \/ (pc'[q] = pc[q] /\ mem'[q] = mem[q])
    BY <1>0, <1>b, Apart DEF Leave, Goto
  <2>2. \A q \in Workers : DueNext(q) => Due(q) \/ Performed
    BY <2>1
  <2>3. QED
    BY <1>b, <2>2, EarnedFrame
<1>c. ASSUME TakeReceipt(r), mem[r].id \in Ids, ext[mem[r].id].st = "pass"
      PROVE  EarnedInv'
  <2>1. Performed /\ task' = task
    BY <1>c, PassIsPerformed DEF TakeReceipt
  <2>2. CASE repo.commit = mem[r].fp.commit
    <3>1. Goto(r, "act") /\ \A q \in Procs : q # r => mem'[q] = mem[q]
      BY <1>0, <1>c, <2>2 DEF TakeReceipt
    <3>2. QED
      BY <1>0, <1>a, <2>1, <3>1
  <2>3. CASE repo.commit # mem[r].fp.commit
    BY <1>0, <1>b, <1>c, <2>1, <2>3 DEF TakeReceipt
  <2>4. QED
    BY <2>2, <2>3
<1>1. CASE ResumeBegin(r)
  <2>1. \A q \in Procs : q # r => mem'[q] = mem[q]
    BY <1>0, <1>1 DEF ResumeBegin
  <2>2. QED
    BY <1>0, <1>1, <1>a, <2>1 DEF ResumeBegin, store
<1>2. CASE Check(r)
  <2>1. \A q \in Procs : q # r => mem'[q] = mem[q]
    BY <1>0, <1>2 DEF Check
  <2> DEFINE n == IF Plan # <<>> /\ receipt # None THEN Len(Plan) + 1 ELSE 1
  <2>2. mem'[r].todo = n
    <3>1. mem' = [mem EXCEPT ![r] = [mem[r] EXCEPT !.fp = repo, !.bound = decision.id, !.todo = n]]
      BY <1>2 DEF Check
    <3> HIDE DEF n
    <3>2. QED
      BY <1>0, <3>1 DEF Memory
  <2>3. receipt # None => Performed
    BY DEF EarnedInv
  <2>4. mem'[r].todo > Len(Plan) => Performed
    BY <1>0, <2>2, <2>3, NothingIsPerformed
  <2>5. Goto(r, "act") /\ receipt' = receipt /\ task' = task
    BY <1>2 DEF Check, store
  <2>6. QED
    BY <1>0, <1>a, <2>1, <2>4, <2>5
<1>3. CASE Ask(r)
  <2>1. /\ \A q \in Procs : q # r => mem'[q] = mem[q]
        /\ Goto(r, "query") /\ receipt' = receipt /\ task' = task
    BY <1>0, <1>3 DEF Ask, store
  <2>2. QED
    BY <1>0, <1>a, <2>1
<1>4. CASE Query(r)
  <2>1. mem[r].id \in Ids
    BY <1>4 DEF Query, PlaceInv, Executing
  <2>2. CASE ext[mem[r].id].st = "pass" /\ TakeReceipt(r)
    BY <1>c, <2>1, <2>2
  <2>3. CASE Goto(r, "execute") /\ UNCHANGED <<store, mem>>
    BY <1>0, <1>a, <2>3 DEF store
  <2>4. QED
    BY <1>4, <2>2, <2>3 DEF Query
<1>5. CASE Execute(r)
  BY <1>0, <1>5, <1>a DEF Execute, store
<1>6. CASE Recorded(r)
  <2>1. mem[r].id \in Ids
    BY <1>6 DEF Recorded, PlaceInv, Executing
  <2>2. QED
    BY <1>6, <1>c, <2>1 DEF Recorded
<1>7. CASE TimedOut(r)
  BY <1>0, <1>7, <1>b DEF TimedOut, store
<1>8. CASE Verify(r)
  <2>1. Due(r) /\ receipt' = receipt /\ mem' = mem
    BY <1>8 DEF Verify
  <2>2. \/ Goto(r, "gates") /\ task' = "verifying"
        \/ Goto(r, "judge") /\ task' = task
    BY <1>8 DEF Verify
  <2>3. QED
    BY <1>0, <1>a, <2>1, <2>2
<1>9. CASE RunGates(r)
  BY <1>0, <1>9, <1>a DEF RunGates
<1>10. CASE Judge(r)
  <2>1. Performed
    BY <1>10 DEF Judge, EarnedInv
  <2>2. decision.kind = "approved"
    BY <1>10 DEF Judge, ApprovedInv, Acting
  <2>3. lock = r
    BY <1>10 DEF Judge, PlaceInv
  <2>4. task' = "complete" => plan = "passed"
    BY <1>10 DEF Judge, Outcomes
  <2>5. lock' = None /\ plan' = plan /\ receipt' = receipt /\ decision' = decision
    BY <1>10, <2>3 DEF Judge, Leave
  <2>6. QED
    BY <1>10, <1>b, <2>1, <2>2, <2>4, <2>5 DEF Judge
<1>11. CASE Redo(r)
  <2>1. mem[r].task \in {"verifying", "blocked"}
    BY <1>11 DEF Redo, PlaceInv
  <2>2. task' = IF mem[r].task = "verifying" THEN "awaiting_human" ELSE mem[r].task
    BY <1>11 DEF Redo
  <2>3. task' # "complete" /\ receipt' = receipt /\ Leave(r)
    BY <1>11, <2>1, <2>2 DEF Redo
  <2>4. QED
    BY <1>b, <2>3
<1>12. CASE Cancel(r)
  <2>1. receipt' = receipt /\ task' # "complete" /\ pc' = pc /\ mem' = mem
    BY <1>12 DEF Cancel
  <2>2. QED
    BY <2>1, EarnedFrame
<1>13. QED
  BY <1>1, <1>2, <1>3, <1>4, <1>5, <1>6, <1>7, <1>8, <1>9, <1>10, <1>11, <1>12 DEF Works

LEMMA OtherEarned ==
    ASSUME TypeOK, PlaceInv, ReplayInv, EarnedInv, [Next]_vars,
           \/ \E p \in Procs : Abort(p)
           \/ \E d \in Ids : Settle(d) \/ OwnerSigns(d)
           \/ Edit
           \/ UNCHANGED vars
    PROVE  EarnedInv'
<1>0. pc \in [Procs -> Places] /\ mem \in [Procs -> Memory] /\ Workers \subseteq Procs
  BY Apart DEF TypeOK
<1>1. ASSUME NEW p \in Procs, Abort(p) PROVE EarnedInv'
  <2>1. \A q \in Workers : pc'[q] = "idle" \/ (pc'[q] = pc[q] /\ mem'[q] = mem[q])
    BY <1>0, <1>1 DEF Abort, Leave, Goto
  <2>2. UNCHANGED <<receipt, task, plan, decision>> /\ (lock = None => lock' = None)
    BY <1>1 DEF Abort, Leave, store
  <2>3. task = "complete" => lock = None /\ decision.kind = "approved"
    BY DEF EarnedInv, CompletionEarned
  <2>4. QED
    BY <2>1, <2>2, <2>3, EarnedFrame
<1>2. CASE UNCHANGED <<store, pc, mem, lock>>
  <2>1. task = "complete" => decision.kind = "approved"
    BY DEF EarnedInv, CompletionEarned
  <2>2. UNCHANGED <<receipt, task, plan, decision>>
    BY <1>2 DEF store
  <2>3. QED
    BY <1>2, <2>1, <2>2, EarnedFrame
<1>3. QED
  BY <1>1, <1>2 DEF Settle, OwnerSigns, Edit, vars

-----------------------------------------------------------------------------
LEMMA InductiveApproved ==
    ASSUME OneOwner
    PROVE  Spec => []ApprovedInv
<1>1. Init => ApprovedInv
  BY Apart DEF Init, ApprovedInv, Acting, Executing
<1>2. TypeOK /\ PlaceInv /\ ApprovedInv /\ [Next]_vars => ApprovedInv'
  BY DecidesApproved, WorksApproved, OtherApproved DEF Next
<1>3. QED
  BY <1>1, <1>2, Inductive, PTL DEF Spec

(* With one person deciding at a time nothing consequential is started     *)
(* unless the decision on record is an approval and the owner has approved *)
(* that very decision in the executor, whatever is decided, cancelled,     *)
(* killed or restarted meanwhile (resume, execute_decision).               *)
THEOREM NoEffectUnapprovedCorrect ==
    ASSUME OneOwner
    PROVE  Spec => NoEffectUnapproved
<1>1. ASSUME PlaceInv, ApprovedInv, Next, NEW d \in Ids, ran'[d] # ran[d]
      PROVE  decision.kind = "approved"
  <2>1. PICK r \in Workers : Execute(r)
    BY <1>1 DEF Next, Decides, Works, ApproveLoad, Approve, Link, RejectLoad, Reject, Fail,
        ResumeBegin, Check, Ask, Query, TakeReceipt, Recorded, TimedOut, Verify, RunGates,
        Judge, Redo, Cancel, Abort, Settle, OwnerSigns, Edit, executor
  <2>2. QED
    BY <1>1, <2>1 DEF Execute, ApprovedInv, Acting, Executing
<1>2. PlaceInv /\ ApprovedInv /\ [Next]_vars /\ [\A d \in Ids : ran'[d] # ran[d] => d \in signed]_vars
        => [\A d \in Ids : ran'[d] # ran[d] => decision.kind = "approved" /\ d \in signed]_vars
  BY <1>1
<1>3. QED
  BY <1>2, Inductive, InductiveApproved, StartedIsSigned, PTL DEF Spec, SignedFirst, NoEffectUnapproved

(* With one person deciding at a time and one action in the plan, a task   *)
(* that asked its owner is complete only if the decision is an approval,   *)
(* the verification passed and the executor holds a passing record of the  *)
(* action, through crashes, killed executions and receipts taken over from *)
(* an earlier resume.                                                      *)
THEOREM CompletionEarnedCorrect ==
    ASSUME OneOwner, AtMostOneAction
    PROVE  Spec => []CompletionEarned
<1>1. Init => EarnedInv
  <2> SUFFICES ASSUME Init PROVE EarnedInv
    OBVIOUS
  <2>1. ASSUME NEW d \in Ids, ext[d].st # "none" PROVE ext[d].act \in Actions
    <3>1. d = packet /\ Plan # <<>>
      BY <2>1, Apart DEF Init, Absent
    <3>2. Plan[1] \in Actions
      BY <3>1, PlanFacts
    <3>3. QED
      BY <2>1, <3>1, <3>2 DEF Init
  <2>2. QED
    BY <2>1, Apart DEF Init, EarnedInv
<1>2. TypeOK /\ PlaceInv /\ ReplayInv /\ ApprovedInv /\ EarnedInv /\ [Next]_vars => EarnedInv'
  BY DecidesEarned, WorksEarned, OtherEarned DEF Next
<1>3. EarnedInv => CompletionEarned
  BY DEF EarnedInv, CompletionEarned
<1>4. QED
  BY <1>1, <1>2, <1>3, Inductive, InductiveApproved, PTL DEF Spec

-----------------------------------------------------------------------------
(***************************************************************************)
(* The dogfood marathon, for any benchmarks, providers and bounds, with    *)
(* crashes and restarts: a benchmark recorded as done has an accepted      *)
(* product where its record says (BundleInv), the local model keeps to its *)
(* budget (BudgetInv), and the framework is changed only on proof or on    *)
(* the word of the different providers asked for it (ChangeInv).           *)
(***************************************************************************)

Dirs == {"main", "falsify"}
States == [exists : BOOLEAN, scope : SUBSET Benchmarks, ok : SUBSET Benchmarks,
           bundle : [Benchmarks -> Dirs \cup {"none"}], gaps : SUBSET Benchmarks,
           resolved : SUBSET Benchmarks, parked : SUBSET (Benchmarks \X Nat),
           localUsed : Nat, lowRam : BOOLEAN]
Working == {"first", "falsify", "confirm", "unproven", "gap", "engineer", "retry", "result"}
Stages == Working \cup {"down", "loop", "drain", "local", "localWork", "finish"}
Checks == {"none", "build", "health", "records", "restart"}
Signatures == {"capability", "compiler", "repair", "orchestration", "none"} \X Checks
Asked == Clouds \cup {Nobody}
Camps == [pc : Stages, mem : States, todo : SUBSET Benchmarks, iter : Nat, bench : Nat,
          tried : SUBSET Clouds, confirmed : Nat, signature : Signatures, failing : Asked,
          success : BOOLEAN, exhausted : BOOLEAN, dir : Dirs, pending : SUBSET Benchmarks]
Syntheses == [pc : {"idle", "negotiate", "attempt", "repair", "compile", "accept", "review", "done"},
              bench : Nat, dir : Dirs, prefer : Asked, avoid : Asked, left : SUBSET Clouds,
              maker : Asked, repairs : Nat,
              err : {"none", "compiler", "acceptance", "review"}, detail : Checks,
              status : {"none", "PRODUCT_BLOCKED", "PROVIDER_POOL_EXHAUSTED",
                        "REPAIR_BUDGET_EXHAUSTED", "VERIFIED_PRODUCT"}]
Failures == [asked : Asked, by : Asked, as : Signatures]
Ghosts == [faults : Nat, proof : BOOLEAN, failed : SUBSET Failures, ran : SUBSET Clouds,
           local : Nat, lost : Nat]

DogfoodTypeOK ==
    /\ camp \in Camps /\ disk \in States /\ syn \in Syntheses /\ seen \in Ghosts
    /\ dirs \in [Benchmarks \X Dirs -> Capabilities]
    /\ out \in SUBSET Clouds
    /\ camp.pc \in Working \cup {"localWork"} => camp.bench \in Benchmarks
    /\ syn.pc # "idle" => syn.bench \in Benchmarks

----------------------------------------------------------------------------
LEMMA LeastIsMember ==
  ASSUME NEW S, S \subseteq Nat, S # {}
  PROVE  Minimum(S) \in S
<1>1. PICK x \in S : \A y \in S : ~(<<y, x>> \in OpToRel(<, Nat))
  BY NatLessThanWellFounded, WFMin
<1>2. ASSUME NEW y \in S PROVE x <= y
  <2>1. <<y, x>> \in Nat \X Nat /\ <<y, x>>[1] = y /\ <<y, x>>[2] = x
    OBVIOUS
  <2>2. ~(y < x)
    BY <1>1, <2>1 DEF OpToRel
  <2> QED BY <2>2
<1> QED BY <1>2 DEF Minimum

LEMMA RankedIsMember ==
  ASSUME NEW pool \in SUBSET Clouds, pool # {}, NEW prefer, NEW avoid
  PROVE  Ranked(pool, prefer, avoid) \in pool
<1>1. pool \subseteq Nat
  BY SynthesisAssumption
<1>2. CASE pool \ {avoid} # {}
  <2>1. Minimum(pool \ {avoid}) \in pool \ {avoid}
    BY <1>1, <1>2, LeastIsMember
  <2> QED BY <1>2, <2>1 DEF Ranked
<1>3. CASE pool \ {avoid} = {}
  BY <1>3 DEF Ranked
<1> QED BY <1>2, <1>3

LEMMA DomainsDiffer ==
  /\ Benchmarks \subseteq Nat /\ 0 \notin Benchmarks /\ Clouds \subseteq Nat /\ Nobody \notin Clouds
  /\ Nobody \in Asked /\ Clouds \subseteq Asked /\ Avoided \in Asked
BY SynthesisAssumption, DogfoodAssumption DEF Nobody, Asked

LEMMA IdleTyped == Idle \in Syntheses /\ Idle.pc = "idle" /\ Idle.status = "none"
BY DomainsDiffer DEF Idle, Syntheses, Dirs, Checks

LEMMA RequestTyped ==
  ASSUME NEW b \in Benchmarks, NEW d \in Dirs, NEW prefer \in Asked, NEW avoid \in Asked
  PROVE  LET r == Request(b, d, prefer, avoid) IN
         /\ r \in Syntheses /\ r.pc = "negotiate" /\ r.bench = b /\ r.dir = d
         /\ r.prefer = prefer /\ r.status = "none"
BY DomainsDiffer DEF Request, Idle, Syntheses, Checks, Dirs

LEMMA DownTyped ==
  /\ NewState \in States /\ Down \in Camps /\ Down.pc = "down"
<1>1. NewState \in States
  BY DEF NewState, States
<1>2. <<"none", "none">> \in Signatures
  BY DEF Signatures, Checks
<1> QED BY <1>1, <1>2, DomainsDiffer DEF Down, Camps, Stages, Dirs

LEMMA SignatureTyped ==
  ASSUME NEW s \in Syntheses
  PROVE  Signature(s) \in Signatures /\ Success(s) \in BOOLEAN /\ Proof(s) \in BOOLEAN
<1>1. GapType(s) \in {"capability", "compiler", "repair", "orchestration"}
  BY DEF GapType
<1>2. s.detail \in Checks
  BY DEF Syntheses
<1> QED BY <1>1, <1>2 DEF Signature, Signatures, Success, Proof

LEMMA DogfoodTypeInit == DogfoodInit => DogfoodTypeOK
<1> SUFFICES ASSUME DogfoodInit PROVE DogfoodTypeOK
  OBVIOUS
<1>1. camp \in Camps /\ disk \in States /\ camp.pc = "down" /\ syn \in Syntheses /\ syn.pc = "idle"
  BY DownTyped, IdleTyped DEF DogfoodInit
<1>2. seen \in Ghosts
  BY DEF DogfoodInit, Ghosts
<1>3. dirs \in [Benchmarks \X Dirs -> Capabilities] /\ out \in SUBSET Clouds
  BY DEF DogfoodInit, Dirs, Nothing, Capabilities
<1> QED BY <1>1, <1>2, <1>3 DEF DogfoodTypeOK, Working

----------------------------------------------------------------------------
(* A synthesis step works on one product directory, for one request.         *)

Here == <<syn.bench, syn.dir>>
SynthesisFrame ==
    /\ syn.pc \notin {"idle", "done"} /\ syn'.pc # "idle"
    /\ syn' \in Syntheses
    /\ syn'.bench = syn.bench /\ syn'.dir = syn.dir /\ syn'.prefer = syn.prefer
    /\ dirs' \in [Benchmarks \X Dirs -> Capabilities]
    /\ \A k \in Benchmarks \X Dirs : k # Here => dirs'[k] = dirs[k]
    /\ out' \in SUBSET Clouds
    /\ \/ seen' = seen
       \/ seen' = [seen EXCEPT !.faults = @ + 1]
       \/ \E p \in Clouds : seen' = [seen EXCEPT !.faults = @ + 1, !.ran = @ \cup {p}]

\* A stage that leaves files, pool and ghosts alone.
LEMMA StageFrame ==
  ASSUME DogfoodTypeOK, syn.pc \notin {"idle", "done"}, syn' \in Syntheses, syn'.pc # "idle",
         syn'.bench = syn.bench, syn'.dir = syn.dir, syn'.prefer = syn.prefer,
         UNCHANGED <<dirs, out>>, seen' = seen \/ seen' = [seen EXCEPT !.faults = @ + 1]
  PROVE  SynthesisFrame
BY DEF SynthesisFrame, DogfoodTypeOK

\* Every way a stage changes the request keeps what was asked.
Follows(new, old) ==
    /\ new \in Syntheses /\ new.pc # "idle"
    /\ new.bench = old.bench /\ new.dir = old.dir /\ new.prefer = old.prefer

LEMMA EndFollows ==
  ASSUME syn \in Syntheses,
         NEW status \in {"PRODUCT_BLOCKED", "VERIFIED_PRODUCT"}, End(status)
  PROVE  Follows(syn', syn) /\ syn'.pc = "done" /\ syn'.status = status
BY DEF End, Follows, Syntheses

LEMMA ExhaustedFollows ==
  ASSUME syn \in Syntheses, EndExhausted
  PROVE  Follows(syn', syn) /\ syn'.pc = "done" /\ syn'.status = "PROVIDER_POOL_EXHAUSTED"
BY DomainsDiffer DEF EndExhausted, Follows, Syntheses, Checks

LEMMA RepairingFollows ==
  ASSUME syn \in Syntheses, NEW err \in {"compiler", "acceptance", "review"}, NEW detail \in Checks,
         Repairing(err, detail)
  PROVE  /\ Follows(syn', syn)
         /\ \/ syn'.pc = "repair" /\ syn'.status = syn.status
            \/ syn'.pc = "done" /\ syn'.status = "REPAIR_BUDGET_EXHAUSTED"
<1>1. syn.repairs + 1 \in Nat
  BY DEF Syntheses
<1>2. Candidates \in SUBSET Clouds
  BY DEF Candidates
<1>3. CASE syn' = [syn EXCEPT !.pc = "repair", !.repairs = syn.repairs + 1, !.err = err,
                              !.detail = detail, !.left = Candidates]
  BY <1>1, <1>2, <1>3 DEF Follows, Syntheses
<1>4. CASE syn' = [syn EXCEPT !.pc = "done", !.repairs = syn.repairs + 1, !.err = err,
                              !.detail = detail, !.status = "REPAIR_BUDGET_EXHAUSTED"]
  BY <1>1, <1>2, <1>4 DEF Follows, Syntheses
<1> QED BY <1>3, <1>4 DEF Repairing, Counted

LEMMA FirstFailingTyped == \A a : FirstFailing(a) \in Checks
BY DEF FirstFailing, Checks

\* What asking a provider comes to.
LEMMA AskFrame ==
  ASSUME DogfoodTypeOK, NEW after \in {"attempt", "repair"}, syn.pc = after, AskProvider(after)
  PROVE  /\ SynthesisFrame
         /\ syn'.pc # "review"
         /\ syn'.status # "VERIFIED_PRODUCT" \/ syn'.status = syn.status
<1> DEFINE provider == Ranked(syn.left, IF after = "attempt" THEN syn.prefer ELSE syn.maker, syn.avoid)
<1>0. /\ syn \in Syntheses /\ dirs \in [Benchmarks \X Dirs -> Capabilities] /\ out \in SUBSET Clouds
      /\ syn.bench \in Benchmarks /\ syn.pc \notin {"idle", "done"}
  BY DEF DogfoodTypeOK
<1>1. CASE syn.left = {}
  <2>1. EndExhausted /\ UNCHANGED <<dirs, out, seen>>
    BY <1>1 DEF AskProvider
  <2>2. Follows(syn', syn) /\ syn'.pc = "done" /\ syn'.status = "PROVIDER_POOL_EXHAUSTED"
    BY <1>0, <2>1, ExhaustedFollows
  <2> QED BY <1>0, <2>1, <2>2, StageFrame DEF Follows
<1>2. CASE syn.left # {}
  <2>1. provider \in syn.left /\ provider \in Clouds /\ syn.left \in SUBSET Clouds
    <3>1. syn.left \in SUBSET Clouds
      BY <1>0 DEF Syntheses
    <3> QED BY <1>2, <3>1, RankedIsMember
  <2> HIDE DEF provider
  <2>2. \/ /\ \E a \in Artifacts \cup {Artifact} :
                dirs' = [dirs EXCEPT ![<<syn.bench, syn.dir>>] = Initialised(a)]
           /\ syn' = [syn EXCEPT !.pc = "compile", !.maker = provider, !.left = {}]
           /\ UNCHANGED <<out, seen>>
        \/ /\ seen' = [seen EXCEPT !.faults = @ + 1, !.ran = @ \cup {provider}]
           /\ syn' = [syn EXCEPT !.left = @ \ {provider}]
           /\ out' = out \cup {provider}
           /\ UNCHANGED dirs
    BY <1>2 DEF AskProvider, provider
  <2>3. CASE /\ \E a \in Artifacts \cup {Artifact} :
                  dirs' = [dirs EXCEPT ![<<syn.bench, syn.dir>>] = Initialised(a)]
             /\ syn' = [syn EXCEPT !.pc = "compile", !.maker = provider, !.left = {}]
             /\ UNCHANGED <<out, seen>>
    <3>1. PICK a \in Artifacts \cup {Artifact} : dirs' = [dirs EXCEPT ![Here] = Initialised(a)]
      BY <2>3 DEF Here
    <3>2. Here \in Benchmarks \X Dirs
      BY <1>0 DEF Here, Syntheses
    <3>3. Artifact \in Capabilities
      BY <1>0, <3>2 DEF Artifact, Here
    <3>4. Initialised(a) \in Capabilities
      BY <3>3, SynthesisAssumption DEF Initialised
    <3>5. /\ dirs' \in [Benchmarks \X Dirs -> Capabilities]
          /\ \A k \in Benchmarks \X Dirs : k # Here => dirs'[k] = dirs[k]
      BY <1>0, <3>1, <3>2, <3>4
    <3>6. Follows(syn', syn) /\ syn'.pc = "compile" /\ syn'.status = syn.status
      BY <1>0, <2>1, <2>3, DomainsDiffer DEF Follows, Syntheses
    <3> QED BY <1>0, <2>3, <3>5, <3>6 DEF SynthesisFrame, Follows
  <2>4. CASE /\ seen' = [seen EXCEPT !.faults = @ + 1, !.ran = @ \cup {provider}]
             /\ syn' = [syn EXCEPT !.left = @ \ {provider}]
             /\ out' = out \cup {provider}
             /\ UNCHANGED dirs
    <3>1. Follows(syn', syn) /\ syn'.pc = syn.pc /\ syn'.status = syn.status
      BY <1>0, <2>1, <2>4 DEF Follows, Syntheses
    <3>2. out' \in SUBSET Clouds
      BY <1>0, <2>1, <2>4
    <3> QED BY <1>0, <2>1, <2>4, <3>1, <3>2 DEF SynthesisFrame, Follows
  <2> QED BY <2>2, <2>3, <2>4
<1> QED BY <1>1, <1>2

\* A product reaches the reviewers only when it passed every check, and is
\* delivered only from there.
ProductChecked ==
    /\ syn.pc = "review" \/ Success(syn) => AllPassed(Artifact)
    /\ Success(syn) => syn.pc = "done"

LEMMA SynthesisIs ==
  ASSUME DogfoodTypeOK, ProductChecked, SynthesisStep
  PROVE  SynthesisFrame /\ ProductChecked'
<1>0. /\ syn \in Syntheses /\ dirs \in [Benchmarks \X Dirs -> Capabilities] /\ out \in SUBSET Clouds
  BY DEF DogfoodTypeOK
<1>a. ASSUME Follows(syn', syn), dirs' = dirs PROVE Artifact' = Artifact
  BY <1>a DEF Artifact, Follows
<1>1. CASE Negotiate
  <2>1. syn.pc = "negotiate" /\ UNCHANGED <<dirs, out, seen>>
    BY <1>1 DEF Negotiate
  <2>2. ~Success(syn)
    BY <2>1 DEF ProductChecked
  <2>3. Follows(syn', syn) /\ syn'.pc # "review" /\ ~Success(syn')
    <3>1. CASE End("PRODUCT_BLOCKED")
      BY <1>0, <3>1, EndFollows DEF Success
    <3>2. CASE EndExhausted
      BY <1>0, <3>2, ExhaustedFollows DEF Success
    <3>3. CASE syn' = [syn EXCEPT !.pc = "attempt", !.left = Candidates]
      <4>1. Candidates \in SUBSET Clouds
        BY DEF Candidates
      <4> QED BY <1>0, <2>2, <3>3, <4>1 DEF Follows, Syntheses, Success
    <3> QED BY <1>1, <3>1, <3>2, <3>3 DEF Negotiate
  <2>4. SynthesisFrame
    BY <2>1, <2>3, StageFrame DEF Follows
  <2> QED BY <2>3, <2>4 DEF ProductChecked, Success
<1>2. ASSUME NEW after \in {"attempt", "repair"}, syn.pc = after, AskProvider(after)
      PROVE  SynthesisFrame /\ ProductChecked'
  <2>1. ~Success(syn)
    BY <1>2 DEF ProductChecked
  <2>2. SynthesisFrame /\ syn'.pc # "review" /\ ~Success(syn)'
    BY <1>2, <2>1, AskFrame DEF Success
  <2> QED BY <2>2 DEF ProductChecked, Success
<1>3. CASE Compile
  <2>1. syn.pc = "compile" /\ UNCHANGED <<dirs, out, seen>>
    BY <1>3 DEF Compile
  <2>2. ~Success(syn)
    BY <2>1 DEF ProductChecked
  <2>3. Follows(syn', syn) /\ syn'.pc # "review" /\ ~Success(syn')
    <3>1. CASE syn' = [syn EXCEPT !.pc = "accept"]
      BY <1>0, <2>2, <3>1 DEF Follows, Syntheses, Success
    <3>2. CASE Repairing("compiler", "none")
      <4>1. "none" \in Checks
        BY DEF Checks
      <4> QED BY <1>0, <2>2, <3>2, <4>1, RepairingFollows DEF Success
    <3> QED BY <1>3, <3>1, <3>2 DEF Compile
  <2>4. SynthesisFrame
    BY <2>1, <2>3, StageFrame DEF Follows
  <2> QED BY <2>3, <2>4 DEF ProductChecked, Success
<1>4. CASE AcceptProduct
  <2>1. syn.pc = "accept" /\ UNCHANGED <<dirs, out, seen>>
    BY <1>4 DEF AcceptProduct
  <2>2. ~Success(syn)
    BY <2>1 DEF ProductChecked
  <2>3. /\ Follows(syn', syn) /\ ~Success(syn')
        /\ syn'.pc = "review" => AllPassed(Artifact)
    <3>1. CASE Accepted(Artifact) /\ syn' = [syn EXCEPT !.pc = "review"]
      BY <1>0, <2>2, <3>1 DEF Follows, Syntheses, Success, Accepted
    <3>2. CASE Repairing("acceptance", FirstFailing(Artifact))
      BY <1>0, <2>2, <3>2, FirstFailingTyped, RepairingFollows DEF Success
    <3> QED BY <1>4, <3>1, <3>2 DEF AcceptProduct
  <2>4. SynthesisFrame
    BY <2>1, <2>3, StageFrame DEF Follows
  <2>5. Artifact' = Artifact
    BY <1>a, <2>1, <2>3
  <2> QED BY <2>3, <2>4, <2>5 DEF ProductChecked, Success
<1>5. CASE Review
  <2>1. syn.pc = "review" /\ UNCHANGED <<dirs, out>>
    BY <1>5 DEF Review
  <2>2. ~Success(syn) /\ AllPassed(Artifact)
    BY <2>1 DEF ProductChecked
  <2>3. /\ Follows(syn', syn) /\ syn'.pc # "review"
        /\ Success(syn') => syn'.pc = "done"
        /\ seen' = seen \/ seen' = [seen EXCEPT !.faults = @ + 1]
    <3>1. "none" \in Checks
      BY DEF Checks
    <3>2. CASE Fault /\ Repairing("review", "none")
      BY <1>0, <2>2, <3>1, <3>2, RepairingFollows DEF Success, Fault
    <3>3. CASE Repairing("review", "none") /\ UNCHANGED seen
      BY <1>0, <2>2, <3>1, <3>3, RepairingFollows DEF Success
    <3>4. CASE Deliver /\ UNCHANGED seen
      BY <1>0, <3>4, EndFollows DEF Deliver, Success
    <3> QED BY <1>5, <3>2, <3>3, <3>4 DEF Review, ReviewUnfinished, ReviewSettles
  <2>4. SynthesisFrame
    BY <2>1, <2>3, StageFrame DEF Follows
  <2>5. Artifact' = Artifact
    BY <1>a, <2>1, <2>3
  <2> QED BY <2>2, <2>3, <2>4, <2>5 DEF ProductChecked, Success
<1> QED BY <1>1, <1>2, <1>3, <1>4, <1>5 DEF SynthesisStep, Attempt, Repair

----------------------------------------------------------------------------
(* Type correctness.                                                         *)

\* A step of the loop: what it leaves, by part.
LEMMA PartsTyped ==
  ASSUME camp' \in Camps, disk' \in States, syn' \in Syntheses, seen' \in Ghosts,
         dirs' \in [Benchmarks \X Dirs -> Capabilities], out' \in SUBSET Clouds,
         camp'.pc \in Working \cup {"localWork"} => camp'.bench \in Benchmarks,
         syn'.pc # "idle" => syn'.bench \in Benchmarks
  PROVE  DogfoodTypeOK'
BY DEF DogfoodTypeOK

LEMMA CampParts ==
  ASSUME DogfoodTypeOK
  PROVE  /\ camp.mem \in States /\ camp.todo \in SUBSET Benchmarks /\ camp.iter \in Nat
         /\ camp.tried \in SUBSET Clouds /\ camp.confirmed \in Nat /\ camp.success \in BOOLEAN
         /\ camp.dir \in Dirs /\ camp.pending \in SUBSET Benchmarks /\ camp.failing \in Asked
         /\ camp.exhausted \in BOOLEAN /\ camp.signature \in Signatures
         /\ syn.maker \in Asked /\ syn.prefer \in Asked /\ syn.dir \in Dirs
         /\ Signature(syn) \in Signatures
         /\ Success(syn) \in BOOLEAN /\ Proof(syn) \in BOOLEAN
<1>1. camp \in Camps /\ syn \in Syntheses
  BY DEF DogfoodTypeOK
<1>2. /\ camp.mem \in States /\ camp.todo \in SUBSET Benchmarks /\ camp.iter \in Nat
      /\ camp.tried \in SUBSET Clouds /\ camp.confirmed \in Nat /\ camp.success \in BOOLEAN
      /\ camp.dir \in Dirs /\ camp.pending \in SUBSET Benchmarks /\ camp.failing \in Asked
      /\ camp.exhausted \in BOOLEAN /\ camp.signature \in Signatures
  BY <1>1 DEF Camps
<1>3. syn.maker \in Asked /\ syn.prefer \in Asked /\ syn.dir \in Dirs
  BY <1>1 DEF Syntheses
<1> QED BY <1>1, <1>2, <1>3, SignatureTyped

LEMMA StateParts ==
  ASSUME NEW m \in States
  PROVE  /\ m.scope \in SUBSET Benchmarks /\ m.ok \in SUBSET Benchmarks /\ m.gaps \in SUBSET Benchmarks
         /\ m.resolved \in SUBSET Benchmarks /\ m.parked \in SUBSET (Benchmarks \X Nat)
         /\ m.localUsed \in Nat /\ m.lowRam \in BOOLEAN
         /\ m.bundle \in [Benchmarks -> Dirs \cup {"none"}]
BY DEF States

LEMMA GhostsTyped ==
  ASSUME NEW g \in Ghosts
  PROVE  /\ [g EXCEPT !.faults = @ + 1] \in Ghosts
         /\ [g EXCEPT !.local = 0, !.lost = 0] \in Ghosts
         /\ \A p \in Clouds : [g EXCEPT !.faults = @ + 1, !.ran = @ \cup {p}] \in Ghosts
         /\ \A n \in {0, 1} : [g EXCEPT !.faults = @ + 1, !.lost = @ + n] \in Ghosts
<1>1. g.faults + 1 \in Nat /\ 0 \in Nat /\ \A n \in {0, 1} : g.lost + n \in Nat
  BY DEF Ghosts
<1>2. [g EXCEPT !.faults = g.faults + 1] \in Ghosts
  BY <1>1 DEF Ghosts
<1>3. [g EXCEPT !.local = 0, !.lost = 0] \in Ghosts
  BY <1>1 DEF Ghosts
<1>4. ASSUME NEW n \in {0, 1}
      PROVE  [g EXCEPT !.faults = g.faults + 1, !.lost = g.lost + n] \in Ghosts
  BY <1>1 DEF Ghosts
<1>5. ASSUME NEW p \in Clouds
      PROVE  [g EXCEPT !.faults = g.faults + 1, !.ran = g.ran \cup {p}] \in Ghosts
  BY <1>1 DEF Ghosts
<1> QED BY <1>2, <1>3, <1>4, <1>5

LEMMA CampaignTypeStep ==
  ASSUME DogfoodTypeOK, CampaignStep
  PROVE  DogfoodTypeOK'
<1>0. /\ camp \in Camps /\ disk \in States /\ syn \in Syntheses /\ seen \in Ghosts
      /\ dirs \in [Benchmarks \X Dirs -> Capabilities]
      /\ out \in SUBSET Clouds
      /\ camp.pc \in Working \cup {"localWork"} => camp.bench \in Benchmarks
      /\ syn.pc # "idle" => syn.bench \in Benchmarks
  BY DEF DogfoodTypeOK
<1>a. /\ camp.mem \in States /\ camp.todo \in SUBSET Benchmarks /\ camp.iter \in Nat
      /\ camp.tried \in SUBSET Clouds /\ camp.confirmed \in Nat /\ camp.success \in BOOLEAN
      /\ camp.dir \in Dirs /\ camp.pending \in SUBSET Benchmarks /\ camp.failing \in Asked
      /\ camp.exhausted \in BOOLEAN
      /\ syn.maker \in Asked /\ syn.prefer \in Asked /\ syn.dir \in Dirs
      /\ Signature(syn) \in Signatures /\ Success(syn) \in BOOLEAN /\ Proof(syn) \in BOOLEAN
  BY CampParts
<1>b. ASSUME NEW place \in Stages, camp' = [camp EXCEPT !.pc = place]
      PROVE  camp' \in Camps /\ camp'.pc = place /\ camp'.bench = camp.bench
  BY <1>0, <1>b DEF Camps
<1>c. "main" \in Dirs /\ "falsify" \in Dirs /\ Nobody \in Asked /\ Avoided \in Asked
  BY DomainsDiffer DEF Dirs
<1>d. ASSUME camp.bench \in Benchmarks PROVE Request(camp.bench, "main", Nobody, Avoided) \in Syntheses
                                            /\ Request(camp.bench, "main", Nobody, Avoided).bench \in Benchmarks
  BY <1>c, <1>d, RequestTyped
<1>e. Working \subseteq Stages /\ {"down", "loop", "drain", "local", "localWork", "finish"} \subseteq Stages
  BY DEF Stages
<1>f. Idle \in Syntheses /\ Idle.pc = "idle"
  BY IdleTyped
<1>1. CASE NextBenchmark
  <2> DEFINE b == Minimum(camp.todo)
  <2>1. b \in camp.todo /\ b \in Benchmarks
    BY <1>1, <1>a, LeastIsMember, DomainsDiffer DEF NextBenchmark
  <2> HIDE DEF b
  <2>2. PICK place \in {"drain", "first"} :
          camp' = [camp EXCEPT !.pc = place, !.todo = @ \ {b}, !.iter = @ + 1, !.bench = b, !.dir = "main",
                               !.tried = {}, !.confirmed = 0, !.success = FALSE, !.exhausted = FALSE]
    BY <1>1 DEF NextBenchmark, b
  <2>3. place \in Stages
    BY DEF Stages, Working
  <2>a. /\ camp.iter + 1 \in Nat /\ camp.todo \ {b} \in SUBSET Benchmarks
        /\ b \in Nat /\ 0 \in Nat /\ {} \in SUBSET Clouds
    BY <1>a, <2>1, DomainsDiffer
  <2>b. camp' = [camp EXCEPT !.pc = place, !.todo = camp.todo \ {b}, !.iter = camp.iter + 1, !.bench = b,
                             !.dir = "main", !.tried = {}, !.confirmed = 0, !.success = FALSE,
                             !.exhausted = FALSE]
    BY <2>2
  <2>4. camp' \in Camps /\ camp'.bench = b
    BY <1>0, <1>c, <2>3, <2>a, <2>b DEF Camps
  <2>5. syn' \in Syntheses /\ (syn'.pc # "idle" => syn'.bench \in Benchmarks)
    <3>1. syn' = syn \/ syn' = Request(b, "main", Nobody, Avoided)
      BY <1>1 DEF NextBenchmark, b
    <3>2. Request(b, "main", Nobody, Avoided) \in Syntheses /\ Request(b, "main", Nobody, Avoided).bench = b
      BY <1>c, <2>1, RequestTyped
    <3> QED BY <1>0, <2>1, <3>1, <3>2
  <2>6. seen' \in Ghosts
    <3>1. seen' = [seen EXCEPT !.proof = FALSE, !.failed = {}, !.ran = {}]
      BY <1>1 DEF NextBenchmark
    <3> QED BY <1>0, <3>1 DEF Ghosts
  <2> QED BY <1>0, <1>1, <1>a, <2>1, <2>4, <2>5, <2>6, PartsTyped DEF NextBenchmark
<1>2. CASE LoopEnds
  <2>1. camp' = [camp EXCEPT !.pc = "finish"] /\ UNCHANGED <<disk, synVars>> /\ "finish" \notin Working
    BY <1>2 DEF LoopEnds, Advance, Working
  <2> QED BY <1>0, <1>b, <1>e, <2>1, PartsTyped DEF synVars
<1>3. CASE FirstResult
  <2>1. PICK place \in {"result", "gap", "falsify"} :
          camp' = [camp EXCEPT !.pc = place, !.success = Success(syn),
                    !.exhausted = syn.status = "PROVIDER_POOL_EXHAUSTED",
                    !.failing = syn.maker, !.tried = {syn.maker} \ {Nobody}, !.signature = Signature(syn)]
    BY <1>3 DEF FirstResult
  <2>2. camp.pc = "first" /\ syn' = Idle /\ UNCHANGED <<disk, dirs, out>>
    BY <1>3 DEF FirstResult
  <2>3. camp.bench \in Benchmarks
    BY <1>0, <2>2 DEF Working
  <2>4. {syn.maker} \ {Nobody} \in SUBSET Clouds /\ place \in Stages
    BY <1>a DEF Asked, Stages, Working
  <2>5. camp' \in Camps /\ camp'.bench = camp.bench
    BY <1>0, <1>a, <2>1, <2>4 DEF Camps
  <2>6. seen' \in Ghosts
    <3>1. PICK proof \in BOOLEAN, failed \in SUBSET Failures :
            seen' = [seen EXCEPT !.proof = proof, !.failed = failed]
      <4>1. Failure(syn.maker) \in Failures
        BY <1>a DEF Failure, Failures
      <4>2. seen.proof \in BOOLEAN /\ seen.failed \in SUBSET Failures
        BY <1>0 DEF Ghosts
      <4> QED BY <1>3, <4>1, <4>2 DEF FirstResult
    <3> QED BY <1>0, <3>1 DEF Ghosts
  <2> QED BY <1>0, <1>f, <2>2, <2>3, <2>5, <2>6, PartsTyped
<1>4. CASE Falsify
  <2>0. camp.pc = "falsify" /\ UNCHANGED <<disk, dirs, out, seen>> /\ camp.bench \in Benchmarks
    BY <1>4, <1>0 DEF Falsify, Working
  <2>1. CASE UNCHANGED syn /\ \E place \in {"gap", "unproven"} : camp' = [camp EXCEPT !.pc = place]
    <3>1. PICK place \in {"gap", "unproven"} : camp' = [camp EXCEPT !.pc = place]
      BY <2>1
    <3>2. place \in Stages
      BY DEF Stages, Working
    <3> QED BY <1>0, <1>b, <2>0, <2>1, <3>1, <3>2, PartsTyped
  <2>2. CASE /\ Independent # {}
             /\ LET provider == Ranked(Independent, Nobody, Nobody) IN
                /\ camp' = [camp EXCEPT !.pc = "confirm", !.tried = @ \cup {provider}]
                /\ syn' = Request(camp.bench, "falsify", provider, camp.failing)
    <3> DEFINE provider == Ranked(Independent, Nobody, Nobody)
    <3>1. provider \in Clouds /\ provider \in Asked
      <4>1. Independent \in SUBSET Clouds
        BY DEF Independent, Candidates
      <4> QED BY <2>2, <4>1, RankedIsMember, DomainsDiffer
    <3> HIDE DEF provider
    <3>2. /\ camp' = [camp EXCEPT !.pc = "confirm", !.tried = @ \cup {provider}]
          /\ syn' = Request(camp.bench, "falsify", provider, camp.failing)
      BY <2>2 DEF provider
    <3>3. camp' \in Camps /\ camp'.bench = camp.bench
      BY <1>0, <3>1, <3>2 DEF Camps, Stages, Working
    <3>4. syn' \in Syntheses /\ syn'.bench = camp.bench
      BY <1>a, <1>c, <2>0, <3>1, <3>2, RequestTyped
    <3> QED BY <1>0, <2>0, <3>3, <3>4, PartsTyped
  <2> QED BY <1>4, <2>1, <2>2 DEF Falsify, Advance
<1>5. CASE Confirm
  <2>0. camp.pc = "confirm" /\ syn' = Idle /\ UNCHANGED <<disk, dirs, out>> /\ camp.bench \in Benchmarks
    BY <1>5, <1>0 DEF Confirm, Working
  <2>1. \/ camp' = [camp EXCEPT !.pc = "result", !.success = TRUE, !.exhausted = FALSE, !.dir = BundleDir]
        \/ camp' = [camp EXCEPT !.pc = "gap"]
        \/ camp' = [camp EXCEPT !.pc = "falsify", !.confirmed = @ + 1]
        \/ camp' = [camp EXCEPT !.pc = "unproven"]
    BY <1>5, Zenon DEF Confirm
  <2>2. camp' \in Camps /\ camp'.bench = camp.bench
    <3>1. CASE camp' = [camp EXCEPT !.pc = "result", !.success = TRUE, !.exhausted = FALSE, !.dir = BundleDir]
      BY <1>0, <1>a, <3>1 DEF Camps, Stages, Working, BundleDir
    <3>2. CASE camp' = [camp EXCEPT !.pc = "gap"] \/ camp' = [camp EXCEPT !.pc = "unproven"]
      BY <1>0, <3>2 DEF Camps, Stages, Working
    <3>3. CASE camp' = [camp EXCEPT !.pc = "falsify", !.confirmed = @ + 1]
      <4>1. camp.confirmed + 1 \in Nat
        BY <1>a
      <4>2. camp' = [camp EXCEPT !.pc = "falsify", !.confirmed = camp.confirmed + 1]
        BY <3>3
      <4> QED BY <1>0, <4>1, <4>2 DEF Camps, Stages, Working
    <3> QED BY <2>1, <3>1, <3>2, <3>3
  <2>3. seen' \in Ghosts
    <3>1. PICK proof \in BOOLEAN, failed \in SUBSET Failures :
            seen' = [seen EXCEPT !.proof = proof, !.failed = failed]
      <4>1. Failure(syn.prefer) \in Failures
        BY <1>a DEF Failure, Failures
      <4>2. seen.proof \in BOOLEAN /\ seen.failed \in SUBSET Failures
        BY <1>0 DEF Ghosts
      <4> QED BY <1>5, <4>1, <4>2 DEF Confirm
    <3> QED BY <1>0, <3>1 DEF Ghosts
  <2> QED BY <1>0, <1>f, <2>0, <2>2, <2>3, PartsTyped
<1>6. CASE RecordUnproven
  <2>1. /\ camp.pc = "unproven" /\ camp' = [camp EXCEPT !.pc = "result"]
        /\ disk' = camp.mem /\ UNCHANGED synVars /\ camp.bench \in Benchmarks
    BY <1>6, <1>0 DEF RecordUnproven, Advance, Working
  <2>2. "result" \in Stages
    BY DEF Stages, Working
  <2> QED BY <1>0, <1>a, <1>b, <2>1, <2>2, PartsTyped DEF synVars
<1>7. CASE RecordGap
  <2> DEFINE kept == [camp.mem EXCEPT !.gaps = @ \cup {camp.bench}]
  <2>0. camp.pc = "gap" /\ UNCHANGED <<syn, dirs, out, seen>> /\ camp.bench \in Benchmarks
    BY <1>7, <1>0 DEF RecordGap, Working, synVars
  <2>1. kept \in States
    BY <1>a, <2>0 DEF States
  <2>2. \/ disk' = kept /\ camp' = [camp EXCEPT !.pc = "loop", !.mem = kept]
        \/ camp' = [camp EXCEPT !.pc = "engineer", !.mem = kept] /\ UNCHANGED disk
    BY <1>7 DEF RecordGap
  <2> HIDE DEF kept
  <2>3. camp' \in Camps /\ camp'.bench = camp.bench /\ disk' \in States
    BY <1>0, <2>1, <2>2 DEF Camps, Stages, Working
  <2> QED BY <1>0, <2>0, <2>3, PartsTyped
<1>8. CASE Engineer
  <2> DEFINE kept == [camp.mem EXCEPT !.parked = @ \cup {Task(camp.bench, camp.iter)}]
  <2>0. camp.pc = "engineer" /\ UNCHANGED <<dirs, out, seen>> /\ camp.bench \in Benchmarks
    BY <1>8, <1>0 DEF Engineer, Working
  <2>1. kept \in States
    <3>1. Task(camp.bench, camp.iter) \in Benchmarks \X Nat
      BY <1>a, <2>0 DEF Task
    <3> QED BY <1>a, <3>1 DEF States
  <2>2. \/ /\ disk' = camp.mem /\ camp' = [camp EXCEPT !.pc = "retry"]
           /\ syn' = Request(camp.bench, "main", Nobody, Avoided)
        \/ /\ disk' = kept
           /\ \E place \in {"finish", "result"} : camp' = [camp EXCEPT !.pc = place, !.mem = kept]
           /\ UNCHANGED syn
        \/ disk' = camp.mem /\ camp' = [camp EXCEPT !.pc = "result"] /\ UNCHANGED syn
    BY <1>8 DEF Engineer, Advance
  <2> HIDE DEF kept
  <2>3. camp' \in Camps /\ camp'.bench = camp.bench /\ disk' \in States
    <3>1. CASE disk' = camp.mem /\ \E place \in {"retry", "result"} : camp' = [camp EXCEPT !.pc = place]
      <4>1. PICK place \in {"retry", "result"} : camp' = [camp EXCEPT !.pc = place]
        BY <3>1
      <4>2. place \in Stages
        BY DEF Stages, Working
      <4> QED BY <1>a, <1>b, <3>1, <4>1, <4>2
    <3>2. CASE disk' = kept /\ \E place \in {"finish", "result"} : camp' = [camp EXCEPT !.pc = place, !.mem = kept]
      <4>1. PICK place \in {"finish", "result"} : camp' = [camp EXCEPT !.pc = place, !.mem = kept]
        BY <3>2
      <4>2. place \in Stages
        BY DEF Stages, Working
      <4> QED BY <1>0, <2>1, <3>2, <4>1, <4>2 DEF Camps
    <3> QED BY <2>2, <3>1, <3>2
  <2>4. syn' \in Syntheses /\ (syn'.pc # "idle" => syn'.bench \in Benchmarks)
    BY <1>0, <1>d, <2>0, <2>2
  <2> QED BY <1>0, <2>0, <2>3, <2>4, PartsTyped
<1>9. CASE RetryResult
  <2>1. /\ camp.pc = "retry" /\ syn' = Idle /\ UNCHANGED <<disk, dirs, out, seen>> /\ camp.bench \in Benchmarks
        /\ camp' = [camp EXCEPT !.pc = "result", !.success = Success(syn),
                          !.exhausted = @ /\ ~Success(syn), !.dir = "main"]
    BY <1>9, <1>0 DEF RetryResult, Working
  <2>2. PICK e \in BOOLEAN : camp' = [camp EXCEPT !.pc = "result", !.success = Success(syn),
                          !.exhausted = e, !.dir = "main"]
    BY <1>a, <2>1
  <2>3. camp' \in Camps /\ camp'.bench = camp.bench
    BY <1>0, <1>a, <1>c, <2>2 DEF Camps, Stages, Working
  <2> QED BY <1>0, <1>f, <2>1, <2>3, PartsTyped
<1>10. CASE RecordResult
  <2> DEFINE kept == [camp.mem EXCEPT !.ok = IF camp.success THEN @ \cup {camp.bench} ELSE @,
                   !.bundle[camp.bench] = IF camp.success THEN camp.dir ELSE @]
  <2>0. /\ camp.pc = "result" /\ UNCHANGED <<syn, dirs, out, seen>> /\ camp.bench \in Benchmarks /\ disk' = kept
        /\ camp' = [Down EXCEPT !.pc = IF camp.exhausted THEN "drain" ELSE "loop", !.mem = kept,
                             !.todo = camp.todo, !.iter = camp.iter]
    BY <1>10, <1>0 DEF RecordResult, Working, synVars
  <2>1. kept \in States
    <3>1. camp.mem.bundle \in [Benchmarks -> Dirs \cup {"none"}] /\ camp.mem.ok \in SUBSET Benchmarks
      BY <1>a, StateParts
    <3>2. PICK ok \in SUBSET Benchmarks, d \in Dirs \cup {"none"} :
            kept = [camp.mem EXCEPT !.ok = ok, !.bundle[camp.bench] = d]
      <4>1. CASE camp.success
        BY <1>a, <2>0, <3>1, <4>1
      <4>2. CASE ~camp.success
        BY <1>a, <2>0, <3>1, <4>2
      <4> QED BY <4>1, <4>2
    <3> QED BY <1>a, <2>0, <3>1, <3>2 DEF States
  <2> HIDE DEF kept
  <2>2. PICK place \in {"drain", "loop"} :
          camp' = [Down EXCEPT !.pc = place, !.mem = kept, !.todo = camp.todo, !.iter = camp.iter]
    BY <2>0
  <2>3. camp' \in Camps /\ camp'.pc \notin Working \cup {"localWork"}
    BY <1>a, <2>1, <2>2, DownTyped DEF Camps, Stages, Working
  <2> QED BY <1>0, <2>0, <2>1, <2>3, PartsTyped
<1>11. CASE Drain
  <2>1. /\ UNCHANGED <<disk, synVars>>
        /\ \/ camp' = [camp EXCEPT !.pc = "local", !.pending = PendingGaps]
           \/ camp' = [camp EXCEPT !.pc = "finish"]
    BY <1>11 DEF Drain, Advance
  <2>2. PendingGaps \in SUBSET Benchmarks
    BY <1>a, StateParts DEF PendingGaps
  <2>3. camp' \in Camps /\ camp'.pc \notin Working \cup {"localWork"}
    BY <1>0, <2>1, <2>2 DEF Camps, Stages, Working
  <2> QED BY <1>0, <2>1, <2>3, PartsTyped DEF synVars
<1>12. CASE LocalEnds
  <2>1. camp' = [camp EXCEPT !.pc = "finish"] /\ disk' = camp.mem /\ UNCHANGED synVars
    BY <1>12 DEF LocalEnds, Advance
  <2>2. camp' \in Camps /\ camp'.pc \notin Working \cup {"localWork"}
    BY <1>0, <2>1 DEF Camps, Stages, Working
  <2> QED BY <1>0, <1>a, <2>1, <2>2, PartsTyped DEF synVars
<1>13. CASE LocalBegin
  <2> DEFINE gap == Minimum(camp.pending)
  <2>1. gap \in Benchmarks /\ gap \in Nat
    BY <1>13, <1>a, LeastIsMember, DomainsDiffer DEF LocalBegin
  <2> HIDE DEF gap
  <2>2. /\ camp.pc = "local" /\ UNCHANGED <<disk, syn, dirs, out>>
        /\ \/ camp' = [camp EXCEPT !.pending = @ \ {gap}] /\ UNCHANGED seen
           \/ /\ camp' = [camp EXCEPT !.pc = "localWork", !.bench = gap, !.pending = @ \ {gap},
                                  !.mem.localUsed = @ + 1]
              /\ seen' = [seen EXCEPT !.local = @ + 1]
    BY <1>13 DEF LocalBegin, gap
  <2>3. CASE camp' = [camp EXCEPT !.pending = @ \ {gap}] /\ UNCHANGED seen
    <3>1. camp' \in Camps /\ camp'.pc = "local"
      BY <1>0, <2>2, <2>3 DEF Camps
    <3> QED BY <1>0, <2>2, <2>3, <3>1, PartsTyped DEF Working
  <2>4. CASE /\ camp' = [camp EXCEPT !.pc = "localWork", !.bench = gap, !.pending = @ \ {gap},
                                  !.mem.localUsed = @ + 1]
             /\ seen' = [seen EXCEPT !.local = @ + 1]
    <3>1. [camp.mem EXCEPT !.localUsed = @ + 1] \in States
      BY <1>a DEF States
    <3>2. camp' = [camp EXCEPT !.pc = "localWork", !.bench = gap, !.pending = @ \ {gap},
                               !.mem = [camp.mem EXCEPT !.localUsed = @ + 1]]
      BY <1>0, <2>4
    <3>3. camp' \in Camps /\ camp'.bench = gap
      BY <1>0, <2>1, <3>1, <3>2 DEF Camps, Stages, Working
    <3>4. seen' \in Ghosts
      BY <1>0, <2>4 DEF Ghosts
    <3> QED BY <1>0, <2>1, <2>2, <3>3, <3>4, PartsTyped
  <2> QED BY <2>2, <2>3, <2>4
<1>14. CASE LocalResult
  <2>0. camp.pc = "localWork" /\ UNCHANGED <<syn, dirs, out>> /\ camp.bench \in Benchmarks
    BY <1>14, <1>0 DEF LocalResult, Working
  <2>1. PICK lowRam \in BOOLEAN :
          LET kept == [camp.mem EXCEPT !.lowRam = lowRam] IN
          \/ Saved([kept EXCEPT !.resolved = @ \cup {camp.bench}]) /\ UNCHANGED seen
          \/ Saved([kept EXCEPT !.localUsed = 0]) /\ seen' = [seen EXCEPT !.local = 0, !.lost = 0]
          \/ Saved([kept EXCEPT !.parked = @ \cup {Task(camp.bench, 0)}]) /\ UNCHANGED seen
          \/ Saved(kept) /\ UNCHANGED seen
    <3>1. {camp.mem.lowRam, TRUE} \subseteq BOOLEAN
      BY <1>a, StateParts
    <3> QED BY <1>14, <3>1 DEF LocalResult
  <2> DEFINE kept == [camp.mem EXCEPT !.lowRam = lowRam]
  <2>2. kept \in States
    BY <1>a DEF States
  <2> HIDE DEF kept
  <2>3. /\ [kept EXCEPT !.resolved = @ \cup {camp.bench}] \in States
        /\ [kept EXCEPT !.localUsed = 0] \in States
        /\ [kept EXCEPT !.parked = @ \cup {Task(camp.bench, 0)}] \in States
    BY <2>0, <2>2 DEF States, Task
  <2>4. PICK m \in States : Saved(m)
    BY <2>1, <2>2, <2>3 DEF kept
  <2>5. disk' = m /\ camp' = [camp EXCEPT !.pc = "local", !.mem = m, !.bench = 0]
    BY <2>4 DEF Saved
  <2>6. camp' \in Camps /\ camp'.pc \notin Working \cup {"localWork"}
    BY <1>0, <2>5 DEF Camps, Stages, Working
  <2>7. seen' \in Ghosts
    <3>1. seen' = seen \/ seen' = [seen EXCEPT !.local = 0, !.lost = 0]
      BY <2>1
    <3> QED BY <1>0, <3>1, GhostsTyped
  <2> QED BY <1>0, <2>0, <2>5, <2>6, <2>7, PartsTyped
<1>15. CASE Finish
  <2>1. camp' = Down /\ disk' = camp.mem /\ UNCHANGED synVars
    BY <1>15 DEF Finish
  <2> QED BY <1>0, <1>a, <2>1, DownTyped, PartsTyped DEF synVars, Working
<1> QED BY <1>1, <1>2, <1>3, <1>4, <1>5, <1>6, <1>7, <1>8, <1>9, <1>10, <1>11, <1>12, <1>13, <1>14,
           <1>15 DEF CampaignStep

LEMMA DogfoodTypeStep ==
  ASSUME DogfoodTypeOK, ProductChecked, [DogfoodNext]_dogVars
  PROVE  DogfoodTypeOK'
<1>0. /\ camp \in Camps /\ disk \in States /\ syn \in Syntheses /\ seen \in Ghosts
      /\ dirs \in [Benchmarks \X Dirs -> Capabilities]
      /\ out \in SUBSET Clouds
      /\ camp.pc \in Working \cup {"localWork"} => camp.bench \in Benchmarks
      /\ syn.pc # "idle" => syn.bench \in Benchmarks
  BY DEF DogfoodTypeOK
<1>1. CASE Start
  <2>1. PICK named \in SUBSET Benchmarks :
          LET scope == Extended(disk.scope, named) IN
          camp' = [Down EXCEPT !.pc = "loop", !.mem = [disk EXCEPT !.exists = TRUE, !.scope = scope],
                               !.todo = Remaining(scope)]
    BY <1>1 DEF Start
  <2> DEFINE scope == Extended(disk.scope, named)
             kept == [disk EXCEPT !.exists = TRUE, !.scope = scope]
  <2>2. scope \in SUBSET Benchmarks /\ Remaining(scope) \in SUBSET Benchmarks
    BY <1>0, StateParts DEF Extended, Remaining
  <2> HIDE DEF scope
  <2>3. kept \in States
    BY <1>0, <2>2 DEF States
  <2>4. camp' = [Down EXCEPT !.pc = "loop", !.mem = kept, !.todo = Remaining(scope)]
    BY <2>1 DEF scope
  <2> HIDE DEF kept
  <2>5. camp' \in Camps /\ camp'.pc \notin Working \cup {"localWork"}
    BY <2>2, <2>3, <2>4, DownTyped DEF Camps, Stages, Working
  <2>6. UNCHANGED <<disk, syn, dirs, seen>> /\ out' \in SUBSET Clouds
    BY <1>0, <1>1 DEF Start
  <2> QED BY <1>0, <2>5, <2>6, PartsTyped
<1>2. CASE CampaignStep
  BY <1>2, CampaignTypeStep
<1>3. CASE SynthesisStep /\ UNCHANGED <<camp, disk>>
  <2>1. SynthesisFrame
    BY <1>3, SynthesisIs
  <2>2. seen' \in Ghosts
    BY <1>0, <2>1, GhostsTyped DEF SynthesisFrame
  <2> QED BY <1>0, <1>3, <2>1, <2>2, PartsTyped DEF SynthesisFrame
<1>4. CASE Crash
  <2>1. camp' = Down /\ syn' = Idle /\ UNCHANGED <<disk, dirs, out>>
    BY <1>4 DEF Crash
  <2>2. seen' \in Ghosts
    <3>1. PICK n \in {0, 1} : seen' = [seen EXCEPT !.faults = @ + 1, !.lost = @ + n]
      BY <1>4 DEF Crash
    <3> QED BY <1>0, <3>1, GhostsTyped
  <2> QED BY <1>0, <2>1, <2>2, DownTyped, IdleTyped, PartsTyped DEF Working
<1>5. CASE Recovers
  <2>1. UNCHANGED <<camp, disk, syn, dirs, seen>> /\ out' \in SUBSET Clouds
    BY <1>0, <1>5 DEF Recovers
  <2> QED BY <1>0, <2>1, PartsTyped
<1>6. CASE UNCHANGED dogVars
  BY <1>6 DEF DogfoodTypeOK, dogVars, synVars
<1> QED BY <1>1, <1>2, <1>3, <1>4, <1>5, <1>6 DEF DogfoodNext, Step

----------------------------------------------------------------------------
(* What is on record as succeeded is where the record says.                  *)

\* What the loop holds in memory of the results is what is saved; the benchmark
\* at work has none on record; the synthesis under way is of that benchmark.
\* What the loop holds in memory is what is on disk; it works on one benchmark that is not
\* done and not to come; a synthesis under way is of that benchmark, in its own directory or
\* the one for falsification; a success is of a product that is there.
Book ==
    /\ camp.pc # "down" => camp.mem.ok = disk.ok /\ camp.mem.bundle = disk.bundle
    /\ camp.todo \cap disk.ok = {}
    /\ camp.pc \in Working => camp.bench \notin disk.ok /\ camp.bench \notin camp.todo /\ camp.bench \notin camp.todo
    /\ syn.pc # "idle" => /\ camp.pc \in {"first", "confirm", "retry"} /\ syn.bench = camp.bench
                          /\ camp.pc # "confirm" => syn.dir = "main"
    /\ camp.pc = "first" => camp.dir = "main"
    /\ camp.pc \in Working /\ camp.success =>
         camp.pc = "result" /\ AllPassed(dirs[<<camp.bench, camp.dir>>])

BundleInv == Book /\ ProductChecked /\ BundleIsAccepted

LEMMA BundleInit == DogfoodInit => BundleInv
<1> SUFFICES ASSUME DogfoodInit PROVE BundleInv
  OBVIOUS
<1>1. /\ camp.pc = "down" /\ camp.todo = {} /\ disk.ok = {} /\ syn = Idle
  BY DEF DogfoodInit, Down, NewState
<1>2. ProductChecked
  BY <1>1, IdleTyped DEF ProductChecked, Success
<1>3. BundleIsAccepted
  BY <1>1 DEF BundleIsAccepted
<1>4. Book
  BY <1>1, IdleTyped DEF Book, Working
<1> QED BY <1>2, <1>3, <1>4 DEF BundleInv

\* No result is recorded, and no product written.
Results(d) == <<d.ok, d.bundle>>
NoResult ==
    /\ UNCHANGED dirs /\ Results(disk') = Results(disk)
    /\ camp'.pc # "down" => Results(camp'.mem) = Results(disk)
    /\ camp'.todo \subseteq camp.todo

\* The loop is away from any benchmark, and no synthesis is under way.
Away == camp.pc \notin Working /\ syn.pc = "idle"

LEMMA BundleKept ==
  ASSUME BundleIsAccepted, UNCHANGED dirs, Results(disk') = Results(disk)
  PROVE  BundleIsAccepted'
BY DEF BundleIsAccepted, Results

LEMMA IdleChecked == syn'.pc = "idle" /\ syn'.status = "none" => ProductChecked'
BY DEF ProductChecked, Success

LEMMA RequestChecked == syn'.pc = "negotiate" /\ syn'.status = "none" => ProductChecked'
BY DEF ProductChecked, Success

LEMMA SameChecked == ProductChecked /\ UNCHANGED <<syn, dirs>> => ProductChecked'
BY DEF ProductChecked, Artifact

LEMMA AwayKeeps ==
  ASSUME BundleInv, NoResult, Away', ProductChecked'
  PROVE  BundleInv'
<1>1. BundleIsAccepted'
  BY BundleKept DEF BundleInv, NoResult
<1>2. Book'
  BY DEF Book, BundleInv, NoResult, Results, Away, Working
<1> QED BY <1>1, <1>2 DEF BundleInv

\* The loop goes on with the benchmark it has, without a success.
LEMMA UnfinishedKeeps ==
  ASSUME BundleInv, NoResult, camp'.pc \in Working, camp'.bench \notin disk.ok, camp'.bench \notin camp'.todo, ~camp'.success,
         ProductChecked', camp'.pc = "first" => camp'.dir = "main",
         syn'.pc # "idle" => /\ camp'.pc \in {"first", "confirm", "retry"} /\ syn'.bench = camp'.bench
                             /\ camp'.pc # "confirm" => syn'.dir = "main"
  PROVE  BundleInv'
<1>1. BundleIsAccepted'
  BY BundleKept DEF BundleInv, NoResult
<1>2. Book'
  BY DEF Book, BundleInv, NoResult, Results, Working
<1> QED BY <1>1, <1>2 DEF BundleInv

\* A synthesis of its benchmark has ended well.
LEMMA SucceededKeeps ==
  ASSUME BundleInv, NoResult, camp'.pc = "result", camp'.bench \notin disk.ok, camp'.bench \notin camp'.todo, camp'.success,
         syn'.pc = "idle", syn'.status = "none",
         AllPassed(dirs[<<camp'.bench, camp'.dir>>])
  PROVE  BundleInv'
<1>1. BundleIsAccepted'
  BY BundleKept DEF BundleInv, NoResult
<1>2. Book'
  BY DEF Book, BundleInv, NoResult, Results, Working
<1>3. ProductChecked'
  BY IdleChecked
<1> QED BY <1>1, <1>2, <1>3 DEF BundleInv

LEMMA CampaignBundleStep ==
  ASSUME DogfoodTypeOK, BundleInv, CampaignStep
  PROVE  BundleInv'
<1>0. /\ camp \in Camps /\ disk \in States /\ syn \in Syntheses /\ camp.mem \in States
      /\ camp.todo \in SUBSET Benchmarks
  BY CampParts DEF DogfoodTypeOK
<1>a. /\ camp.pc # "down" => camp.mem.ok = disk.ok /\ camp.mem.bundle = disk.bundle
      /\ camp.todo \cap disk.ok = {}
      /\ camp.pc \in Working => camp.bench \notin disk.ok /\ camp.bench \notin camp.todo /\ camp.bench \notin camp.todo
      /\ syn.pc # "idle" => /\ camp.pc \in {"first", "confirm", "retry"} /\ syn.bench = camp.bench
                            /\ camp.pc # "confirm" => syn.dir = "main"
      /\ camp.pc = "first" => camp.dir = "main"
      /\ camp.pc \in Working /\ camp.success =>
           camp.pc = "result" /\ AllPassed(dirs[<<camp.bench, camp.dir>>])
      /\ ProductChecked
  BY DEF BundleInv, Book
<1>b. camp.pc # "down" => Results(camp.mem) = Results(disk)
  BY <1>a DEF Results
<1>c. camp.pc \notin {"first", "confirm", "retry"} => syn.pc = "idle"
  BY <1>a
<1>d. Idle.pc = "idle" /\ Idle.status = "none" /\ "main" \in Dirs /\ "falsify" \in Dirs
      /\ Nobody \in Asked /\ Avoided \in Asked
  BY IdleTyped, DomainsDiffer DEF Dirs
<1>e. Down.todo = {} /\ Down.pc = "down"
  BY DEF Down
<1>f. Success(syn) => AllPassed(dirs[<<syn.bench, syn.dir>>]) /\ syn.pc = "done"
  BY <1>a DEF ProductChecked, Artifact
<1>1. CASE NextBenchmark
  <2> DEFINE b == Minimum(camp.todo)
  <2>1. b \in camp.todo /\ b \in Benchmarks
    BY <1>1, <1>0, LeastIsMember, DomainsDiffer DEF NextBenchmark
  <2>2. camp.pc = "loop" /\ syn.pc = "idle"
    BY <1>1, <1>c DEF NextBenchmark
  <2> HIDE DEF b
  <2>3. /\ camp'.mem = camp.mem /\ camp'.todo = camp.todo \ {b} /\ camp'.bench = b /\ camp'.dir = "main"
        /\ camp'.success = FALSE
        /\ \/ camp'.pc = "drain" /\ syn' = syn
           \/ camp'.pc = "first" /\ syn' = Request(b, "main", Nobody, Avoided)
        /\ disk' = camp.mem /\ dirs' = dirs
    BY <1>1, <1>0 DEF NextBenchmark, Camps, b
  <2>4. NoResult
    BY <1>b, <2>2, <2>3 DEF NoResult
  <2>5. CASE camp'.pc = "drain" /\ syn' = syn
    <3>1. ProductChecked'
      BY <1>a, <2>3, <2>5, SameChecked
    <3> QED BY <2>2, <2>4, <2>5, <3>1, AwayKeeps DEF Away, Working
  <2>6. CASE camp'.pc = "first" /\ syn' = Request(b, "main", Nobody, Avoided)
    <3>1. syn'.pc = "negotiate" /\ syn'.status = "none" /\ syn'.bench = b /\ syn'.dir = "main"
      BY <1>d, <2>1, <2>6, RequestTyped
    <3>2. b \notin disk.ok
      BY <1>a, <2>1
    <3> QED BY <2>3, <2>4, <2>6, <3>1, <3>2, RequestChecked, UnfinishedKeeps DEF Working
  <2> QED BY <2>3, <2>5, <2>6
<1>2. CASE LoopEnds \/ Drain \/ LocalEnds
  <2>1. /\ camp.pc \in {"loop", "drain", "local"} /\ camp'.pc \in {"finish", "local"}
        /\ camp'.mem = camp.mem /\ camp'.todo = camp.todo
        /\ UNCHANGED synVars /\ disk' \in {disk, camp.mem}
    BY <1>2, <1>0 DEF LoopEnds, Drain, LocalEnds, Advance, Camps
  <2>2. NoResult
    BY <1>b, <2>1 DEF NoResult, synVars
  <2>3. ProductChecked'
    BY <1>a, <2>1, SameChecked DEF synVars
  <2> QED BY <1>c, <2>1, <2>2, <2>3, AwayKeeps DEF Away, synVars, Working
<1>3. CASE FirstResult
  <2>1. /\ camp.pc = "first" /\ syn.pc = "done" /\ syn' = Idle /\ UNCHANGED <<disk, dirs>>
        /\ camp'.mem = camp.mem /\ camp'.todo = camp.todo /\ camp'.bench = camp.bench
        /\ camp'.dir = camp.dir /\ camp'.success = Success(syn)
        /\ camp'.pc = IF Success(syn) THEN "result" ELSE IF Proof(syn) THEN "gap" ELSE "falsify"
    BY <1>3, <1>0 DEF FirstResult, Camps
  <2>2. NoResult
    BY <1>b, <2>1 DEF NoResult
  <2>3. camp.bench \notin disk.ok /\ camp.bench \notin camp.todo /\ camp.dir = "main" /\ syn.bench = camp.bench /\ syn.dir = "main"
    BY <1>a, <2>1 DEF Working
  <2>4. CASE Success(syn)
    BY <1>d, <1>f, <2>1, <2>2, <2>3, <2>4, SucceededKeeps
  <2>5. CASE ~Success(syn)
    BY <1>d, <2>1, <2>2, <2>3, <2>5, IdleChecked, UnfinishedKeeps DEF Working
  <2> QED BY <2>4, <2>5
<1>4. CASE Falsify
  <2>1. /\ camp.pc = "falsify" /\ UNCHANGED <<disk, dirs>> /\ camp'.mem = camp.mem
        /\ camp'.todo = camp.todo /\ camp'.bench = camp.bench /\ camp'.success = camp.success
        /\ \/ camp'.pc \in {"gap", "unproven"} /\ syn' = syn
           \/ /\ camp'.pc = "confirm" /\ Independent # {}
              /\ syn' = Request(camp.bench, "falsify", Ranked(Independent, Nobody, Nobody), camp.failing)
    BY <1>4, <1>0 DEF Falsify, Advance, Camps
  <2>2. NoResult
    BY <1>b, <2>1 DEF NoResult
  <2>3. camp.bench \notin disk.ok /\ camp.bench \notin camp.todo /\ ~camp.success /\ syn.pc = "idle"
    BY <1>a, <1>c, <2>1 DEF Working
  <2>4. CASE camp'.pc \in {"gap", "unproven"} /\ syn' = syn
    <3>1. ProductChecked'
      BY <1>a, <2>1, <2>4, SameChecked
    <3> QED BY <2>1, <2>2, <2>3, <2>4, <3>1, UnfinishedKeeps DEF Working
  <2>5. CASE /\ camp'.pc = "confirm" /\ Independent # {}
             /\ syn' = Request(camp.bench, "falsify", Ranked(Independent, Nobody, Nobody), camp.failing)
    <3>1. Ranked(Independent, Nobody, Nobody) \in Asked
      <4>1. Independent \in SUBSET Clouds
        BY DEF Independent, Candidates
      <4> QED BY <2>5, <4>1, RankedIsMember, DomainsDiffer
    <3>2. camp.bench \in Benchmarks /\ camp.failing \in Asked
      BY <2>1, CampParts DEF DogfoodTypeOK, Working
    <3>3. syn'.pc = "negotiate" /\ syn'.status = "none" /\ syn'.bench = camp.bench
      BY <1>d, <2>5, <3>1, <3>2, RequestTyped
    <3> QED BY <2>1, <2>2, <2>3, <2>5, <3>3, RequestChecked, UnfinishedKeeps DEF Working
  <2> QED BY <2>1, <2>4, <2>5
<1>5. CASE Confirm
  <2>0. camp.pc = "confirm" /\ syn.pc = "done" /\ syn' = Idle /\ UNCHANGED <<disk, dirs>>
    BY <1>5 DEF Confirm
  <2>1. \/ /\ Success(syn)
           /\ camp' = [camp EXCEPT !.pc = "result", !.success = TRUE, !.exhausted = FALSE, !.dir = BundleDir]
        \/ camp' = [camp EXCEPT !.pc = "gap"]
        \/ camp' = [camp EXCEPT !.pc = "falsify", !.confirmed = @ + 1]
        \/ camp' = [camp EXCEPT !.pc = "unproven"]
    BY <1>5, Zenon DEF Confirm
  <2>2. /\ camp'.mem = camp.mem /\ camp'.todo = camp.todo /\ camp'.bench = camp.bench
        /\ \/ Success(syn) /\ camp'.pc = "result" /\ camp'.success = TRUE /\ camp'.dir = syn.dir
           \/ camp'.pc \in {"gap", "falsify", "unproven"} /\ camp'.success = camp.success
    BY <1>0, <2>1 DEF Camps, BundleDir
  <2>3. NoResult
    BY <1>b, <2>0, <2>2 DEF NoResult
  <2>4. camp.bench \notin disk.ok /\ camp.bench \notin camp.todo /\ ~camp.success /\ syn.bench = camp.bench
    BY <1>a, <2>0 DEF Working
  <2>5. CASE Success(syn) /\ camp'.pc = "result" /\ camp'.success = TRUE /\ camp'.dir = syn.dir
    BY <1>d, <1>f, <2>0, <2>2, <2>3, <2>4, <2>5, SucceededKeeps
  <2>6. CASE camp'.pc \in {"gap", "falsify", "unproven"} /\ camp'.success = camp.success
    BY <1>d, <2>0, <2>2, <2>3, <2>4, <2>6, IdleChecked, UnfinishedKeeps DEF Working
  <2> QED BY <2>2, <2>5, <2>6
<1>6. CASE RecordUnproven
  <2>1. /\ camp.pc = "unproven" /\ camp'.pc = "result" /\ disk' = camp.mem /\ UNCHANGED synVars
        /\ camp'.mem = camp.mem /\ camp'.todo = camp.todo /\ camp'.bench = camp.bench
        /\ camp'.success = camp.success
    BY <1>6, <1>0 DEF RecordUnproven, Advance, Camps
  <2>2. NoResult
    BY <1>b, <2>1 DEF NoResult, synVars
  <2>3. camp.bench \notin disk.ok /\ camp.bench \notin camp.todo /\ ~camp.success /\ syn.pc = "idle"
    BY <1>a, <1>c, <2>1 DEF Working
  <2>4. ProductChecked'
    BY <1>a, <2>1, SameChecked DEF synVars
  <2> QED BY <2>1, <2>2, <2>3, <2>4, UnfinishedKeeps DEF Working, synVars
<1>7. CASE RecordGap
  <2> DEFINE kept == [camp.mem EXCEPT !.gaps = @ \cup {camp.bench}]
  <2>1. kept.ok = camp.mem.ok /\ kept.bundle = camp.mem.bundle
    BY <1>0 DEF States
  <2>2. /\ camp.pc = "gap" /\ UNCHANGED <<syn, dirs>>
        /\ camp'.mem = kept /\ camp'.todo = camp.todo /\ camp'.bench = camp.bench
        /\ camp'.success = camp.success /\ camp'.pc \in {"loop", "engineer"} /\ disk' \in {disk, kept}
    BY <1>7, <1>0 DEF RecordGap, Camps, synVars
  <2> HIDE DEF kept
  <2>3. NoResult
    BY <1>b, <2>1, <2>2 DEF NoResult, Results
  <2>4. camp.bench \notin disk.ok /\ camp.bench \notin camp.todo /\ ~camp.success /\ syn.pc = "idle"
    BY <1>a, <1>c, <2>2 DEF Working
  <2>5. ProductChecked'
    BY <1>a, <2>2, SameChecked
  <2>6. CASE camp'.pc = "loop"
    BY <2>2, <2>3, <2>4, <2>5, <2>6, AwayKeeps DEF Away, Working
  <2>7. CASE camp'.pc = "engineer"
    BY <2>2, <2>3, <2>4, <2>5, <2>7, UnfinishedKeeps DEF Working
  <2> QED BY <2>2, <2>6, <2>7
<1>8. CASE Engineer
  <2> DEFINE kept == [camp.mem EXCEPT !.parked = @ \cup {Task(camp.bench, camp.iter)}]
  <2>1. kept.ok = camp.mem.ok /\ kept.bundle = camp.mem.bundle
    BY <1>0 DEF States
  <2>2. /\ camp.pc = "engineer" /\ UNCHANGED dirs
        /\ camp'.todo = camp.todo /\ camp'.bench = camp.bench /\ camp'.success = camp.success
        /\ camp'.mem \in {camp.mem, kept} /\ disk' \in {camp.mem, kept}
        /\ \/ camp'.pc = "retry" /\ syn' = Request(camp.bench, "main", Nobody, Avoided)
           \/ camp'.pc \in {"finish", "result"} /\ syn' = syn
    BY <1>8, <1>0 DEF Engineer, Advance, Camps
  <2> HIDE DEF kept
  <2>3. NoResult
    BY <1>b, <2>1, <2>2 DEF NoResult, Results
  <2>4. camp.bench \notin disk.ok /\ camp.bench \notin camp.todo /\ ~camp.success /\ syn.pc = "idle"
    BY <1>a, <1>c, <2>2 DEF Working
  <2>5. CASE camp'.pc = "retry" /\ syn' = Request(camp.bench, "main", Nobody, Avoided)
    <3>1. camp.bench \in Benchmarks
      BY <2>2 DEF DogfoodTypeOK, Working
    <3>2. syn'.pc = "negotiate" /\ syn'.status = "none" /\ syn'.bench = camp.bench /\ syn'.dir = "main"
      BY <1>d, <2>5, <3>1, RequestTyped
    <3> QED BY <2>2, <2>3, <2>4, <2>5, <3>2, RequestChecked, UnfinishedKeeps DEF Working
  <2>6. CASE camp'.pc \in {"finish", "result"} /\ syn' = syn
    <3>1. ProductChecked'
      BY <1>a, <2>2, <2>6, SameChecked
    <3>2. CASE camp'.pc = "finish"
      BY <2>3, <2>4, <2>6, <3>1, <3>2, AwayKeeps DEF Away, Working
    <3>3. CASE camp'.pc = "result"
      BY <2>2, <2>3, <2>4, <2>6, <3>1, <3>3, UnfinishedKeeps DEF Working
    <3> QED BY <2>6, <3>2, <3>3
  <2> QED BY <2>2, <2>5, <2>6
<1>9. CASE RetryResult
  <2>1. /\ camp.pc = "retry" /\ syn.pc = "done" /\ syn' = Idle /\ UNCHANGED <<disk, dirs>>
        /\ camp'.mem = camp.mem /\ camp'.todo = camp.todo /\ camp'.bench = camp.bench
        /\ camp'.pc = "result" /\ camp'.dir = "main" /\ camp'.success = Success(syn)
    BY <1>9, <1>0 DEF RetryResult, Camps
  <2>2. NoResult
    BY <1>b, <2>1 DEF NoResult
  <2>3. camp.bench \notin disk.ok /\ camp.bench \notin camp.todo /\ syn.bench = camp.bench /\ syn.dir = "main"
    BY <1>a, <2>1 DEF Working
  <2>4. CASE Success(syn)
    BY <1>d, <1>f, <2>1, <2>2, <2>3, <2>4, SucceededKeeps
  <2>5. CASE ~Success(syn)
    BY <1>d, <2>1, <2>2, <2>3, <2>5, IdleChecked, UnfinishedKeeps DEF Working
  <2> QED BY <2>4, <2>5
<1>10. CASE RecordResult
  <2> DEFINE kept == [camp.mem EXCEPT !.ok = IF camp.success THEN @ \cup {camp.bench} ELSE @,
                   !.bundle[camp.bench] = IF camp.success THEN camp.dir ELSE @]
  <2>0. /\ camp.pc = "result" /\ UNCHANGED <<syn, dirs>> /\ disk' = kept
        /\ camp' = [Down EXCEPT !.pc = IF camp.exhausted THEN "drain" ELSE "loop", !.mem = kept,
                             !.todo = camp.todo, !.iter = camp.iter]
    BY <1>10 DEF RecordResult, synVars
  <2>1. /\ camp'.mem = kept /\ camp'.todo = camp.todo /\ camp'.pc \in {"drain", "loop"}
    BY <2>0, DownTyped DEF Camps
  <2>2. camp.bench \in Benchmarks /\ camp.bench \notin disk.ok /\ camp.bench \notin camp.todo /\ syn.pc = "idle" /\ camp.dir \in Dirs
    BY <1>a, <1>c, <2>0, CampParts DEF Working, DogfoodTypeOK
  <2>3. camp.mem.bundle \in [Benchmarks -> Dirs \cup {"none"}] /\ camp.mem.ok \in SUBSET Benchmarks
    BY <1>0, StateParts
  <2>4. ProductChecked'
    BY <1>a, <2>0, SameChecked
  <2>5. CASE ~camp.success
    <3>1. kept.ok = camp.mem.ok /\ kept.bundle = camp.mem.bundle
      BY <1>0, <2>3, <2>5 DEF States
    <3> HIDE DEF kept
    <3>2. NoResult
      BY <1>b, <2>0, <2>1, <3>1 DEF NoResult, Results
    <3> QED BY <2>0, <2>1, <2>2, <2>4, <3>2, AwayKeeps DEF Away, Working
  <2>6. CASE camp.success
    <3>1. /\ kept.ok = disk.ok \cup {camp.bench}
          /\ kept.bundle = [disk.bundle EXCEPT ![camp.bench] = camp.dir]
      BY <1>0, <1>a, <2>0, <2>3, <2>6 DEF States
    <3> HIDE DEF kept
    <3>2. AllPassed(dirs[<<camp.bench, camp.dir>>]) /\ camp.dir # "none"
      BY <1>a, <2>0, <2>2, <2>6 DEF Working, Dirs
    <3>3. BundleIsAccepted'
      <4>1. disk'.ok = disk.ok \cup {camp.bench} /\ disk'.bundle = [disk.bundle EXCEPT ![camp.bench] = camp.dir]
        BY <2>0, <3>1
      <4>2. disk.bundle \in [Benchmarks -> Dirs \cup {"none"}] /\ disk.ok \in SUBSET Benchmarks
        BY <1>0, StateParts
      <4>3. ASSUME NEW b \in disk'.ok
            PROVE  disk'.bundle[b] # "none" /\ AllPassed(dirs[<<b, disk'.bundle[b]>>])
        <5>1. CASE b = camp.bench
          BY <2>2, <3>2, <4>1, <4>2, <5>1
        <5>2. CASE b # camp.bench
          <6>1. b \in disk.ok /\ disk'.bundle[b] = disk.bundle[b]
            BY <4>1, <4>2, <5>2
          <6> QED BY <6>1 DEF BundleInv, BundleIsAccepted
        <5> QED BY <5>1, <5>2
      <4> QED BY <2>0, <4>3 DEF BundleIsAccepted
    <3>4. Book'
      <4>1. camp'.todo \cap disk'.ok = {}
        BY <1>a, <2>0, <2>1, <2>2, <3>1
      <4> QED BY <2>0, <2>1, <2>2, <3>1, <4>1 DEF Book, Working
    <3> QED BY <2>4, <3>3, <3>4 DEF BundleInv
  <2> QED BY <2>5, <2>6
<1>11. CASE LocalBegin
  <2>1. /\ camp.pc = "local" /\ camp'.pc \in {"local", "localWork"} /\ UNCHANGED <<disk, syn, dirs>>
        /\ camp'.todo = camp.todo
        /\ camp'.mem.ok = camp.mem.ok /\ camp'.mem.bundle = camp.mem.bundle
    <3>1. /\ camp.pc = "local" /\ UNCHANGED <<disk, syn, dirs>>
          /\ \/ camp' = [camp EXCEPT !.pending = @ \ {Minimum(camp.pending)}]
             \/ camp' = [camp EXCEPT !.pc = "localWork", !.bench = Minimum(camp.pending),
                                     !.pending = @ \ {Minimum(camp.pending)},
                                     !.mem = [camp.mem EXCEPT !.localUsed = @ + 1]]
      BY <1>11 DEF LocalBegin
    <3>2. /\ [camp.mem EXCEPT !.localUsed = @ + 1].ok = camp.mem.ok
          /\ [camp.mem EXCEPT !.localUsed = @ + 1].bundle = camp.mem.bundle
      BY <1>0 DEF States
    <3> QED BY <1>0, <3>1, <3>2 DEF Camps
  <2>2. NoResult
    BY <1>b, <2>1 DEF NoResult, Results
  <2>3. ProductChecked'
    BY <1>a, <2>1, SameChecked
  <2> QED BY <1>c, <2>1, <2>2, <2>3, AwayKeeps DEF Away, Working
<1>12. CASE LocalResult
  <2>1. PICK lowRam \in {camp.mem.lowRam, TRUE} :
          LET kept == [camp.mem EXCEPT !.lowRam = lowRam] IN
          \/ Saved([kept EXCEPT !.resolved = @ \cup {camp.bench}])
          \/ Saved([kept EXCEPT !.localUsed = 0])
          \/ Saved([kept EXCEPT !.parked = @ \cup {Task(camp.bench, 0)}])
          \/ Saved(kept)
    BY <1>12 DEF LocalResult
  <2>2. PICK m : Saved(m) /\ m.ok = camp.mem.ok /\ m.bundle = camp.mem.bundle
    <3> DEFINE kept == [camp.mem EXCEPT !.lowRam = lowRam]
               Same(m) == m.ok = camp.mem.ok /\ m.bundle = camp.mem.bundle
    <3>1. Same(kept)
      BY <1>0 DEF States
    <3>2. /\ Same([kept EXCEPT !.resolved = @ \cup {camp.bench}])
          /\ Same([kept EXCEPT !.localUsed = 0])
          /\ Same([kept EXCEPT !.parked = @ \cup {Task(camp.bench, 0)}])
      BY <1>0 DEF States
    <3>3. \E m : Saved(m) /\ Same(m)
      <4> HIDE DEF Same
      <4> QED BY <2>1, <3>1, <3>2
    <3> QED BY <3>3
  <2>3. /\ camp.pc = "localWork" /\ camp'.pc = "local" /\ disk' = m /\ UNCHANGED <<syn, dirs>>
        /\ camp'.todo = camp.todo /\ camp'.mem = m
    BY <1>12, <1>0, <2>2 DEF LocalResult, Saved, Camps
  <2>4. NoResult
    BY <1>b, <2>2, <2>3 DEF NoResult, Results
  <2>5. ProductChecked'
    BY <1>a, <2>3, SameChecked
  <2> QED BY <1>c, <2>3, <2>4, <2>5, AwayKeeps DEF Away, Working
<1>13. CASE Finish
  <2>1. camp.pc = "finish" /\ camp' = Down /\ disk' = camp.mem /\ UNCHANGED synVars
    BY <1>13 DEF Finish
  <2>2. NoResult
    BY <1>b, <1>e, <2>1 DEF NoResult, synVars
  <2>3. ProductChecked'
    BY <1>a, <2>1, SameChecked DEF synVars
  <2> QED BY <1>c, <1>e, <2>1, <2>2, <2>3, AwayKeeps DEF Away, Working, synVars
<1> QED BY <1>1, <1>2, <1>3, <1>4, <1>5, <1>6, <1>7, <1>8, <1>9, <1>10, <1>11, <1>12, <1>13 DEF CampaignStep

LEMMA BundleStep ==
  ASSUME DogfoodTypeOK, BundleInv, [DogfoodNext]_dogVars
  PROVE  BundleInv'
<1>0. /\ camp \in Camps /\ disk \in States /\ syn \in Syntheses
      /\ Book /\ ProductChecked /\ BundleIsAccepted
  BY DEF DogfoodTypeOK, BundleInv
<1>1. CASE Start
  <2>1. PICK scope :
          /\ camp' = [Down EXCEPT !.pc = "loop", !.mem = [disk EXCEPT !.exists = TRUE, !.scope = scope],
                               !.todo = Remaining(scope)]
          /\ camp.pc = "down" /\ UNCHANGED <<disk, syn, dirs>>
    BY <1>1 DEF Start
  <2>2. /\ camp'.pc = "loop" /\ camp'.mem.ok = disk.ok /\ camp'.mem.bundle = disk.bundle
        /\ camp'.todo \cap disk.ok = {}
    BY <1>0, <2>1 DEF Down, States, Remaining
  <2>3. syn.pc = "idle"
    BY <1>0, <2>1 DEF Book
  <2>4. BundleIsAccepted' /\ ProductChecked'
    BY <1>0, <2>1, SameChecked, BundleKept DEF Results
  <2>5. Book'
    BY <2>1, <2>2, <2>3 DEF Book, Working
  <2> QED BY <2>4, <2>5 DEF BundleInv
<1>2. CASE CampaignStep
  BY <1>2, CampaignBundleStep
<1>3. CASE SynthesisStep /\ UNCHANGED <<camp, disk>>
  <2>1. SynthesisFrame /\ ProductChecked'
    BY <1>0, <1>3, SynthesisIs
  <2>2. /\ syn.pc \notin {"idle", "done"} /\ syn'.bench = syn.bench /\ syn'.dir = syn.dir
        /\ \A k \in Benchmarks \X Dirs : k # Here => dirs'[k] = dirs[k]
    BY <2>1 DEF SynthesisFrame
  <2>3. /\ camp.pc \in {"first", "confirm", "retry"} /\ syn.bench = camp.bench
        /\ camp.bench \notin disk.ok /\ camp.bench \notin camp.todo /\ ~camp.success
        /\ camp.pc # "confirm" => syn.dir = "main"
    BY <1>0, <2>2 DEF Book, Working
  <2>4. BundleIsAccepted'
    <3>1. ASSUME NEW b \in disk.ok
          PROVE  disk.bundle[b] # "none" /\ AllPassed(dirs'[<<b, disk.bundle[b]>>])
      <4>1. disk.bundle[b] # "none" /\ AllPassed(dirs[<<b, disk.bundle[b]>>])
        BY <1>0 DEF BundleIsAccepted
      <4>2. b \in Benchmarks /\ disk.bundle[b] \in Dirs
        BY <1>0, <4>1, StateParts
      <4>3. <<b, disk.bundle[b]>> # Here
        BY <2>3 DEF Here
      <4>4. dirs'[<<b, disk.bundle[b]>>] = dirs[<<b, disk.bundle[b]>>]
        BY <2>2, <4>2, <4>3
      <4> QED BY <4>1, <4>4
    <3> QED BY <1>3, <3>1 DEF BundleIsAccepted
  <2>5. Book'
    BY <1>0, <1>3, <2>2, <2>3 DEF Book
  <2> QED BY <2>1, <2>4, <2>5 DEF BundleInv
<1>4. CASE Crash
  <2>1. camp' = Down /\ syn' = Idle /\ UNCHANGED <<disk, dirs>>
    BY <1>4 DEF Crash
  <2>2. camp'.pc = "down" /\ camp'.todo = {} /\ syn'.pc = "idle" /\ syn'.status = "none"
    BY <2>1, IdleTyped DEF Down
  <2>3. Book'
    BY <2>2 DEF Book, Working
  <2>4. BundleIsAccepted' /\ ProductChecked'
    BY <1>0, <2>1, <2>2, IdleChecked, BundleKept DEF Results
  <2> QED BY <2>3, <2>4 DEF BundleInv
<1>5. CASE Recovers \/ UNCHANGED dogVars
  <2>1. UNCHANGED <<camp, disk, syn, dirs>>
    BY <1>5 DEF Recovers, dogVars, synVars
  <2> QED BY <1>0, <2>1, SameChecked, BundleKept DEF Results, Book, BundleInv
<1> QED BY <1>1, <1>2, <1>3, <1>4, <1>5 DEF DogfoodNext, Step

LEMMA DogfoodSound == DogfoodSpec => [](DogfoodTypeOK /\ BundleInv)
<1>1. DogfoodInit => DogfoodTypeOK /\ BundleInv
  BY DogfoodTypeInit, BundleInit
<1>2. DogfoodTypeOK /\ BundleInv /\ [DogfoodNext]_dogVars => (DogfoodTypeOK /\ BundleInv)'
  BY DogfoodTypeStep, BundleStep DEF BundleInv
<1> QED BY <1>1, <1>2, PTL DEF DogfoodSpec

\* Each benchmark on record as succeeded has, where its record says, a product that passed
\* every check: nothing written later is written there, because it is never taken again.
THEOREM BundleIsAcceptedCorrect == DogfoodSpec => []BundleIsAccepted
<1>1. BundleInv => BundleIsAccepted
  BY DEF BundleInv
<1> QED BY <1>1, DogfoodSound, PTL

-----------------------------------------------------------------------------
(* The local model's budget. *)

Underway == IF camp.pc = "localWork" THEN 1 ELSE 0

\* The count is saved with every result, so that the record lags by the attempt under way,
\* and what was attempted by that one and those a crash made it forget.
BudgetInv ==
  /\ camp.mem.localUsed <= LocalLimit /\ disk.localUsed <= LocalLimit
  /\ camp.pc # "down" => camp.mem.localUsed = disk.localUsed + Underway
  /\ seen.local <= disk.localUsed + seen.lost + Underway

LEMMA BudgetInit == DogfoodInit => BudgetInv
<1> SUFFICES ASSUME DogfoodInit PROVE BudgetInv
  OBVIOUS
<1>1. /\ camp.pc = "down" /\ camp.mem.localUsed = 0 /\ disk.localUsed = 0
      /\ seen.local = 0 /\ seen.lost = 0
  BY DEF DogfoodInit, Down, NewState
<1> QED BY <1>1, DogfoodAssumption DEF BudgetInv, Underway

\* The count is untouched: no attempt of the local model begins or ends.
Steady ==
  /\ camp.pc # "localWork" /\ camp'.pc # "localWork"
  /\ camp.pc # "down"
  /\ camp'.mem.localUsed = camp.mem.localUsed
  /\ disk'.localUsed = disk.localUsed \/ disk'.localUsed = camp.mem.localUsed
  /\ seen'.local = seen.local /\ seen'.lost = seen.lost

LEMMA SteadyKeeps ==
  ASSUME DogfoodTypeOK, BudgetInv, Steady
  PROVE  BudgetInv'
<1>1. /\ camp.mem.localUsed \in Nat /\ disk.localUsed \in Nat /\ seen.local \in Nat /\ seen.lost \in Nat
  <2>1. camp.mem \in States /\ disk \in States /\ seen \in Ghosts
    BY CampParts DEF DogfoodTypeOK
  <2>2. seen.local \in Nat /\ seen.lost \in Nat
    BY <2>1 DEF Ghosts
  <2> QED BY <2>1, <2>2, StateParts
<1>2. /\ camp.mem.localUsed = disk.localUsed /\ disk.localUsed <= LocalLimit
      /\ seen.local <= disk.localUsed + seen.lost
  BY <1>1 DEF BudgetInv, Steady, Underway
<1>3. disk'.localUsed = disk.localUsed /\ camp'.mem.localUsed = disk.localUsed
      /\ seen'.local = seen.local /\ seen'.lost = seen.lost /\ Underway' = 0
  BY <1>2 DEF Steady, Underway
<1> QED BY <1>1, <1>2, <1>3 DEF BudgetInv

LEMMA BudgetStep ==
  ASSUME DogfoodTypeOK, ProductChecked, BudgetInv, [DogfoodNext]_dogVars
  PROVE  BudgetInv'
<1>0. /\ camp \in Camps /\ disk \in States /\ seen \in Ghosts /\ camp.mem \in States
  BY CampParts DEF DogfoodTypeOK
<1>a. /\ camp.mem.localUsed \in Nat /\ disk.localUsed \in Nat /\ seen.local \in Nat /\ seen.lost \in Nat
  BY <1>0, StateParts DEF Ghosts
<1>b. /\ camp.mem.localUsed <= LocalLimit /\ disk.localUsed <= LocalLimit
      /\ camp.pc # "down" => camp.mem.localUsed = disk.localUsed + Underway
      /\ seen.local <= disk.localUsed + seen.lost + Underway
  BY DEF BudgetInv
<1>c. Down.pc = "down" /\ Down.mem.localUsed = 0 /\ LocalLimit \in Nat
  BY DogfoodAssumption DEF Down, NewState
<1>1. CASE Start
  <2>1. PICK scope :
          camp' = [Down EXCEPT !.pc = "loop", !.mem = [disk EXCEPT !.exists = TRUE, !.scope = scope],
                               !.todo = Remaining(scope)]
    BY <1>1 DEF Start
  <2>2. camp.pc = "down" /\ disk' = disk /\ seen' = seen
    BY <1>1 DEF Start
  <2>3. camp'.pc = "loop" /\ camp'.mem.localUsed = disk.localUsed
    BY <1>0, <2>1 DEF Down, States
  <2> QED BY <1>a, <1>b, <2>2, <2>3 DEF BudgetInv, Underway
<1>2. CASE NextBenchmark \/ LoopEnds \/ FirstResult \/ Falsify \/ RecordUnproven \/ RetryResult
           \/ Drain \/ LocalEnds
  <2>1. /\ camp.pc \in Stages \ {"localWork", "down"} /\ camp'.pc \in Stages \ {"localWork"}
        /\ camp'.mem = camp.mem /\ disk' \in {disk, camp.mem}
    <3>1. CASE NextBenchmark
      BY <3>1, <1>0 DEF NextBenchmark, Camps, Stages, Working
    <3>2. CASE LoopEnds \/ FirstResult \/ Falsify \/ RecordUnproven \/ RetryResult \/ Drain \/ LocalEnds
      BY <3>2, <1>0 DEF LoopEnds, FirstResult, Falsify, RecordUnproven, RetryResult,
                        Drain, LocalEnds, Advance, synVars, Camps, Stages, Working
    <3> QED BY <1>2, <3>1, <3>2
  <2>2. seen'.local = seen.local /\ seen'.lost = seen.lost
    BY <1>2, <1>0 DEF NextBenchmark, LoopEnds, FirstResult, Falsify, RecordUnproven, RetryResult,
                      Drain, LocalEnds, synVars, Ghosts
  <2> QED BY <2>1, <2>2, SteadyKeeps DEF Steady
<1>3. CASE Confirm
  <2>1. \/ camp' = [camp EXCEPT !.pc = "result", !.success = TRUE, !.exhausted = FALSE, !.dir = BundleDir]
        \/ camp' = [camp EXCEPT !.pc = "gap"]
        \/ camp' = [camp EXCEPT !.pc = "falsify", !.confirmed = @ + 1]
        \/ camp' = [camp EXCEPT !.pc = "unproven"]
    BY <1>3, Zenon DEF Confirm
  <2>2. camp.pc = "confirm" /\ camp'.pc # "localWork" /\ camp'.mem = camp.mem /\ disk' = disk
    BY <1>3, <1>0, <2>1 DEF Confirm, Camps
  <2>3. seen'.local = seen.local /\ seen'.lost = seen.lost
    BY <1>3, <1>0 DEF Confirm, Ghosts
  <2> QED BY <2>2, <2>3, SteadyKeeps DEF Steady
<1>4. CASE RecordGap \/ Engineer
  <2>1. \E kept \in {[camp.mem EXCEPT !.gaps = @ \cup {camp.bench}],
                    [camp.mem EXCEPT !.parked = @ \cup {Task(camp.bench, camp.iter)}], camp.mem} :
          /\ camp.pc \in {"gap", "engineer"} /\ camp'.pc \in Stages \ {"localWork"}
          /\ camp'.mem = kept /\ disk' \in {disk, kept}
    BY <1>4, <1>0 DEF RecordGap, Engineer, Advance, Camps, Stages, Working
  <2>2. /\ [camp.mem EXCEPT !.gaps = @ \cup {camp.bench}].localUsed = camp.mem.localUsed
        /\ [camp.mem EXCEPT !.parked = @ \cup {Task(camp.bench, camp.iter)}].localUsed = camp.mem.localUsed
    BY <1>0 DEF States
  <2>3. seen'.local = seen.local /\ seen'.lost = seen.lost
    BY <1>4, <1>0 DEF RecordGap, Engineer, Ghosts, synVars
  <2> QED BY <2>1, <2>2, <2>3, SteadyKeeps DEF Steady
<1>5. CASE RecordResult
  <2> DEFINE kept == [camp.mem EXCEPT !.ok = IF camp.success THEN @ \cup {camp.bench} ELSE @,
                   !.bundle[camp.bench] = IF camp.success THEN camp.dir ELSE @]
  <2>1. kept.localUsed = camp.mem.localUsed
    BY <1>0 DEF States
  <2>2. /\ camp.pc = "result" /\ disk' = kept
        /\ camp' = [Down EXCEPT !.pc = IF camp.exhausted THEN "drain" ELSE "loop", !.mem = kept,
                             !.todo = camp.todo, !.iter = camp.iter]
        /\ seen' = seen
    BY <1>5 DEF RecordResult, synVars
  <2> HIDE DEF kept
  <2>3. camp'.mem = kept /\ camp'.pc \in {"drain", "loop"}
    BY <2>2, DownTyped DEF Camps
  <2>4. seen'.local = seen.local /\ seen'.lost = seen.lost
    BY <1>0, <2>2 DEF Ghosts
  <2> QED BY <2>1, <2>2, <2>3, <2>4, SteadyKeeps DEF Steady
<1>6. CASE LocalBegin
  <2>1. /\ camp.pc = "local" /\ disk' = disk /\ camp.mem.localUsed < LocalLimit
        /\ \/ camp' = [camp EXCEPT !.pending = @ \ {Minimum(camp.pending)}] /\ seen' = seen
           \/ /\ camp' = [camp EXCEPT !.pc = "localWork", !.bench = Minimum(camp.pending),
                                  !.pending = @ \ {Minimum(camp.pending)},
                                  !.mem = [camp.mem EXCEPT !.localUsed = @ + 1]]
              /\ seen' = [seen EXCEPT !.local = @ + 1]
    BY <1>6, <1>a, <1>c DEF LocalBegin, LocalBudgetReached
  <2>2. CASE camp'.pc = "localWork" /\ camp'.mem = [camp.mem EXCEPT !.localUsed = @ + 1]
             /\ seen' = [seen EXCEPT !.local = @ + 1]
    <3>1. /\ camp'.mem.localUsed = camp.mem.localUsed + 1
          /\ seen'.local = seen.local + 1 /\ seen'.lost = seen.lost
      BY <1>0, <2>2 DEF States, Ghosts
    <3>2. Underway = 0 /\ Underway' = 1
      BY <2>1, <2>2 DEF Underway
    <3> QED BY <1>a, <1>b, <1>c, <2>1, <3>1, <3>2 DEF BudgetInv
  <2>3. CASE camp'.pc = camp.pc /\ camp'.mem = camp.mem /\ seen' = seen
    BY <1>b, <2>1, <2>3 DEF BudgetInv, Underway
  <2> QED BY <1>0, <2>1, <2>2, <2>3 DEF Camps
<1>7. CASE LocalResult
  <2>1. PICK lowRam \in {camp.mem.lowRam, TRUE} :
          LET kept == [camp.mem EXCEPT !.lowRam = lowRam] IN
          \/ Saved([kept EXCEPT !.resolved = @ \cup {camp.bench}]) /\ UNCHANGED seen
          \/ Saved([kept EXCEPT !.localUsed = 0]) /\ seen' = [seen EXCEPT !.local = 0, !.lost = 0]
          \/ Saved([kept EXCEPT !.parked = @ \cup {Task(camp.bench, 0)}]) /\ UNCHANGED seen
          \/ Saved(kept) /\ UNCHANGED seen
    BY <1>7 DEF LocalResult
  <2> DEFINE kept == [camp.mem EXCEPT !.lowRam = lowRam]
  <2>2. /\ kept.localUsed = camp.mem.localUsed
        /\ [kept EXCEPT !.resolved = @ \cup {camp.bench}].localUsed = camp.mem.localUsed
        /\ [kept EXCEPT !.parked = @ \cup {Task(camp.bench, 0)}].localUsed = camp.mem.localUsed
        /\ [kept EXCEPT !.localUsed = 0].localUsed = 0
    BY <1>0 DEF States
  <2>3. \E m : /\ Saved(m)
               /\ \/ m.localUsed = camp.mem.localUsed /\ seen' = seen
                  \/ m.localUsed = 0 /\ seen' = [seen EXCEPT !.local = 0, !.lost = 0]
    <3> HIDE DEF kept
    <3> QED BY <2>1, <2>2 DEF kept
  <2>4. PICK m : /\ Saved(m)
                 /\ \/ m.localUsed = camp.mem.localUsed /\ seen' = seen
                    \/ m.localUsed = 0 /\ seen' = [seen EXCEPT !.local = 0, !.lost = 0]
    BY <2>3
  <2>5. camp.pc = "localWork" /\ camp'.pc = "local" /\ camp'.mem = m /\ disk' = m
    BY <1>7, <1>0, <2>4 DEF LocalResult, Saved, Camps
  <2>6. Underway = 1 /\ Underway' = 0
    BY <2>5 DEF Underway
  <2>7. CASE m.localUsed = camp.mem.localUsed /\ seen' = seen
    BY <1>a, <1>b, <2>5, <2>6, <2>7 DEF BudgetInv
  <2>8. CASE m.localUsed = 0 /\ seen' = [seen EXCEPT !.local = 0, !.lost = 0]
    <3>1. seen'.local = 0 /\ seen'.lost = 0
      BY <1>0, <2>8 DEF Ghosts
    <3> QED BY <1>c, <2>5, <2>6, <2>8, <3>1 DEF BudgetInv
  <2> QED BY <2>4, <2>7, <2>8
<1>8. CASE Finish
  <2>1. camp.pc = "finish" /\ camp' = Down /\ disk' = camp.mem /\ seen' = seen
    BY <1>8 DEF Finish, synVars
  <2> QED BY <1>a, <1>b, <1>c, <2>1 DEF BudgetInv, Underway
<1>9. CASE SynthesisStep /\ UNCHANGED <<camp, disk>>
  <2>1. SynthesisFrame
    BY <1>9, SynthesisIs
  <2>2. seen'.local = seen.local /\ seen'.lost = seen.lost
    BY <1>0, <2>1 DEF SynthesisFrame, Ghosts
  <2> QED BY <1>b, <1>9, <2>2 DEF BudgetInv, Underway
<1>10. CASE Crash
  <2>1. /\ camp.pc # "down" /\ camp' = Down /\ disk' = disk
        /\ seen' = [seen EXCEPT !.faults = @ + 1, !.lost = @ + Underway]
    BY <1>10 DEF Crash, Underway
  <2>2. seen'.local = seen.local /\ seen'.lost = seen.lost + Underway
    BY <1>0, <2>1 DEF Ghosts
  <2>3. Underway \in Nat /\ Underway' = 0
    BY <1>c, <2>1 DEF Underway
  <2> QED BY <1>a, <1>b, <1>c, <2>1, <2>2, <2>3 DEF BudgetInv
<1>11. CASE Recovers \/ UNCHANGED dogVars
  <2>1. UNCHANGED <<camp, disk, seen>>
    BY <1>11 DEF Recovers, dogVars, synVars
  <2> QED BY <1>b, <2>1 DEF BudgetInv, Underway
<1> QED BY <1>1, <1>2, <1>3, <1>4, <1>5, <1>6, <1>7, <1>8, <1>9, <1>10, <1>11
        DEF DogfoodNext, Step, CampaignStep

\* The local model's consecutive attempts on record stay within its budget, across restarts:
\* all that can be beyond it is what crashes made the record forget.
THEOREM LocalBudgetCorrect == DogfoodSpec => []LocalBudgetHolds
<1>1. DogfoodInit => BudgetInv
  BY BudgetInit
<1>2. (DogfoodTypeOK /\ BundleInv) /\ BudgetInv /\ [DogfoodNext]_dogVars => BudgetInv'
  BY BudgetStep DEF BundleInv
<1>3. DogfoodTypeOK /\ BudgetInv => LocalBudgetHolds
  <2> SUFFICES ASSUME DogfoodTypeOK, BudgetInv PROVE LocalBudgetHolds
    OBVIOUS
  <2>1. camp \in Camps /\ camp.mem \in States /\ disk \in States /\ seen \in Ghosts
    BY CampParts DEF DogfoodTypeOK
  <2>2. /\ camp.mem.localUsed \in Nat /\ disk.localUsed \in Nat /\ seen.local \in Nat /\ seen.lost \in Nat
    BY <2>1, StateParts DEF Ghosts
  <2>3. disk.localUsed + Underway <= LocalLimit
    BY <2>2, DogfoodAssumption DEF BudgetInv, Underway
  <2>4. Underway \in Nat
    BY DEF Underway
  <2> QED BY <2>2, <2>3, <2>4, DogfoodAssumption DEF BudgetInv, LocalBudgetHolds
<1> QED BY <1>1, <1>2, <1>3, DogfoodSound, PTL DEF DogfoodSpec

-----------------------------------------------------------------------------
(* A change to the framework is earned. *)

\* Who gave a failure, by its signature; nobody counts for none.
Makers(failed, sign) == {f.by : f \in {g \in failed : g.as = sign}} \ {Nobody}
Lost == \E f \in seen.failed : CutShort(f)

\* The failure under examination is on record, each time by another provider, all of
\* them among those asked so far.
Examined ==
  /\ camp.signature \in {f.as : f \in seen.failed}
  /\ IsFiniteSet(Makers(seen.failed, camp.signature))
  /\ Cardinality(Makers(seen.failed, camp.signature)) = camp.confirmed + 1
  /\ Makers(seen.failed, camp.signature) \subseteq camp.tried

\* Whoever is asked and does not run out answers itself, or nobody does.
AnswersItself ==
  /\ syn.prefer \in Clouds
  /\ syn.prefer \notin seen.ran =>
       /\ syn.prefer \notin out
       /\ syn.pc = "negotiate" => syn.maker = Nobody
       /\ syn.pc \in {"attempt", "repair"} => syn.prefer \in syn.left
       /\ syn.pc \in {"compile", "accept", "review", "repair"} => syn.maker = syn.prefer
       /\ syn.pc = "done" => syn.maker \in {syn.prefer, Nobody}

ChangeInv ==
  /\ camp.pc = "first" => camp.confirmed = 0
  /\ camp.pc \in {"falsify", "confirm"} => Examined \/ Lost
  /\ camp.pc = "confirm" =>
       /\ AnswersItself /\ syn.pc # "idle"
       /\ syn.prefer \in camp.tried
       /\ Lost \/ syn.prefer \notin Makers(seen.failed, camp.signature)
  /\ camp.pc \in {"gap", "engineer"} => seen.proof \/ Reproduced \/ Lost

LEMMA ElsewhereChange ==
  ASSUME camp'.pc \notin {"first", "falsify", "confirm", "gap", "engineer"}
  PROVE  ChangeInv'
BY DEF ChangeInv

\* A failure more, with nothing forgotten, leaves what was lost lost.
LEMMA LostStays ==
  ASSUME Lost, seen.failed \subseteq seen'.failed, seen.ran \subseteq seen'.ran
  PROVE  Lost'
BY DEF Lost, CutShort

LEMMA AskedAnswers ==
  ASSUME DogfoodTypeOK, AnswersItself, NEW after \in {"attempt", "repair"}, syn.pc = after,
         AskProvider(after)
  PROVE  AnswersItself'
<1> DEFINE provider == Ranked(syn.left, IF after = "attempt" THEN syn.prefer ELSE syn.maker, syn.avoid)
<1>0. syn \in Syntheses /\ seen \in Ghosts /\ syn.prefer \in Clouds
  BY DEF DogfoodTypeOK, AnswersItself
<1>1. CASE syn.left = {}
  <2>1. EndExhausted /\ UNCHANGED <<dirs, out, seen>>
    BY <1>1 DEF AskProvider
  <2>2. syn'.pc = "done" /\ syn'.maker = Nobody /\ syn'.prefer = syn.prefer
    BY <1>0, <2>1 DEF EndExhausted, Syntheses
  <2> QED BY <1>0, <2>1, <2>2 DEF AnswersItself
<1>2. CASE syn.left # {}
  <2>1. ASSUME syn.prefer \notin seen.ran PROVE provider = syn.prefer
    <3>1. syn.prefer \in syn.left /\ (after = "repair" => syn.maker = syn.prefer)
      BY <1>2, <2>1 DEF AnswersItself
    <3> QED BY <3>1 DEF Ranked
  <2> HIDE DEF provider
  <2>2. \/ /\ syn' = [syn EXCEPT !.pc = "compile", !.maker = provider, !.left = {}]
           /\ UNCHANGED <<out, seen>>
        \/ /\ seen' = [seen EXCEPT !.faults = @ + 1, !.ran = @ \cup {provider}]
           /\ syn' = [syn EXCEPT !.left = @ \ {provider}]
           /\ out' = out \cup {provider}
    BY <1>2 DEF AskProvider, provider
  <2>3. CASE /\ syn' = [syn EXCEPT !.pc = "compile", !.maker = provider, !.left = {}]
             /\ UNCHANGED <<out, seen>>
    <3>1. syn'.pc = "compile" /\ syn'.maker = provider /\ syn'.prefer = syn.prefer
      BY <1>0, <2>3 DEF Syntheses
    <3> QED BY <1>0, <2>1, <2>3, <3>1 DEF AnswersItself
  <2>4. CASE /\ seen' = [seen EXCEPT !.faults = @ + 1, !.ran = @ \cup {provider}]
             /\ syn' = [syn EXCEPT !.left = @ \ {provider}]
             /\ out' = out \cup {provider}
    <3>1. syn'.prefer = syn.prefer /\ seen'.ran = seen.ran \cup {provider}
      BY <1>0, <2>4 DEF Syntheses, Ghosts
    <3>2. CASE syn.prefer \in seen'.ran
      BY <1>0, <3>1, <3>2 DEF AnswersItself
    <3>3. CASE syn.prefer \notin seen'.ran
      BY <2>1, <3>1, <3>3
    <3> QED BY <3>2, <3>3
  <2> QED BY <2>2, <2>3, <2>4
<1> QED BY <1>1, <1>2

LEMMA SynthesisAnswers ==
  ASSUME DogfoodTypeOK, AnswersItself, SynthesisStep
  PROVE  AnswersItself'
<1>0. syn \in Syntheses /\ seen \in Ghosts /\ syn.prefer \in Clouds
  BY DEF DogfoodTypeOK, AnswersItself
<1>1. ASSUME NEW err, NEW detail, Repairing(err, detail), UNCHANGED out, seen'.ran = seen.ran,
             syn.pc \in {"compile", "accept", "review"}
      PROVE  AnswersItself'
  <2>1. \/ syn'.pc = "repair" /\ syn'.left = Candidates
        \/ syn'.pc = "done"
    BY <1>0, <1>1 DEF Repairing, Syntheses
  <2>2. syn'.maker = syn.maker /\ syn'.prefer = syn.prefer
    BY <1>0, <1>1 DEF Repairing, Syntheses
  <2> QED BY <1>0, <1>1, <2>1, <2>2 DEF AnswersItself, Candidates
<1>2. CASE Negotiate
  <2>0. syn.pc = "negotiate" /\ UNCHANGED <<out, seen>>
    BY <1>2 DEF Negotiate
  <2>1. \/ syn'.pc = "done" /\ syn'.maker \in {syn.maker, Nobody} /\ syn'.prefer = syn.prefer
        \/ syn'.pc = "attempt" /\ syn'.left = Candidates /\ syn'.prefer = syn.prefer
    BY <1>0, <1>2 DEF Negotiate, End, EndExhausted, Syntheses
  <2> QED BY <1>0, <2>0, <2>1 DEF AnswersItself, Candidates
<1>3. CASE Attempt \/ Repair
  BY <1>3, AskedAnswers DEF Attempt, Repair
<1>4. CASE Compile \/ AcceptProduct
  <2>0. syn.pc \in {"compile", "accept"} /\ UNCHANGED <<out, seen>>
    BY <1>4 DEF Compile, AcceptProduct
  <2>1. CASE \E place \in {"accept", "review"} : syn' = [syn EXCEPT !.pc = place]
    <3>1. syn'.pc \in {"accept", "review"} /\ syn'.maker = syn.maker /\ syn'.prefer = syn.prefer
      BY <1>0, <2>1 DEF Syntheses
    <3> QED BY <1>0, <2>0, <3>1 DEF AnswersItself
  <2>2. CASE \E err, detail : Repairing(err, detail)
    BY <1>1, <2>0, <2>2
  <2> QED BY <1>4, <2>1, <2>2 DEF Compile, AcceptProduct
<1>5. CASE Review
  <2>0. syn.pc = "review" /\ UNCHANGED out
    BY <1>5 DEF Review
  <2>1. seen'.ran = seen.ran
    BY <1>0, <1>5 DEF Review, ReviewUnfinished, ReviewSettles, Fault, Ghosts
  <2>2. CASE Repairing("review", "none")
    BY <1>1, <2>0, <2>1, <2>2
  <2>3. CASE Deliver
    <3>1. syn'.pc = "done" /\ syn'.maker = syn.maker /\ syn'.prefer = syn.prefer
      BY <1>0, <2>3 DEF Deliver, End, Syntheses
    <3> QED BY <1>0, <2>0, <2>1, <3>1 DEF AnswersItself
  <2> QED BY <1>5, <2>2, <2>3 DEF Review, ReviewUnfinished, ReviewSettles
<1> QED BY <1>2, <1>3, <1>4, <1>5 DEF SynthesisStep

\* The confirming answer is in: the provider asked gave it, or the evidence is lost.
LEMMA ConfirmedChange ==
  ASSUME DogfoodTypeOK, ChangeInv, camp.pc = "confirm", syn.pc = "done",
         Signature(syn) = camp.signature,
         seen'.failed = seen.failed \cup {Failure(syn.prefer)}, seen'.ran = seen.ran,
         camp'.signature = camp.signature, camp'.tried = camp.tried,
         camp'.confirmed = camp.confirmed + 1
  PROVE  Examined' \/ Lost'
<1> DEFINE g == Failure(syn.prefer)
           S == Makers(seen.failed, camp.signature)
<1>1. g.asked = syn.prefer /\ g.by = syn.maker /\ g.as = camp.signature /\ g \in seen'.failed
  BY DEF Failure
<1>2. CASE Lost
  BY <1>2, LostStays
<1>3. CASE syn.maker = Nobody \/ syn.maker # syn.prefer
  <2>1. syn.maker # Nobody => syn.prefer \in seen.ran
    BY <1>3 DEF ChangeInv, AnswersItself
  <2> HIDE DEF g
  <2> QED BY <1>1, <1>3, <2>1 DEF Lost, CutShort
<1>4. CASE ~Lost /\ syn.maker # Nobody /\ syn.maker = syn.prefer
  <2>1. /\ Examined /\ syn.prefer \notin S /\ syn.prefer \in camp.tried
    BY <1>4 DEF ChangeInv
  <2>2. Makers(seen'.failed, camp'.signature) = S \cup {syn.prefer}
    <3> HIDE DEF g
    <3>1. seen'.failed = seen.failed \cup {g}
      BY DEF g
    <3> QED BY <1>1, <1>4, <3>1, DomainsDiffer DEF Makers
  <2>3. /\ IsFiniteSet(S \cup {syn.prefer})
        /\ Cardinality(S \cup {syn.prefer}) = Cardinality(S) + 1
    BY <2>1, FS_AddElement DEF Examined
  <2>5. camp.signature \in {f.as : f \in seen'.failed} /\ S \subseteq camp.tried
        /\ Cardinality(S) = camp.confirmed + 1
    BY <1>1, <2>1 DEF Examined
  <2>6. camp'.signature \in {f.as : f \in seen'.failed}
    BY <2>5
  <2>7. S \cup {syn.prefer} \subseteq camp'.tried
    BY <1>4, <2>5 DEF ChangeInv
  <2> HIDE DEF S
  <2> QED BY <2>2, <2>3, <2>5, <2>6, <2>7 DEF Examined
<1> QED BY <1>2, <1>3, <1>4

LEMMA ChangeStep ==
  ASSUME DogfoodTypeOK, BundleInv, ChangeInv, [DogfoodNext]_dogVars
  PROVE  ChangeInv'
<1>0. /\ camp \in Camps /\ syn \in Syntheses /\ seen \in Ghosts
      /\ camp.tried \in SUBSET Clouds /\ camp.confirmed \in Nat
      /\ syn.pc # "idle" => camp.pc \in {"first", "confirm", "retry"}
  BY CampParts DEF DogfoodTypeOK, BundleInv, Book
<1>a. /\ Nobody \notin Clouds /\ Confirmations \in Nat
  BY DomainsDiffer, DogfoodAssumption
<1>1. CASE Start \/ Finish \/ Crash
  BY <1>1, DownTyped, ElsewhereChange DEF Start, Finish, Crash, Camps
<1>b. /\ camp.pc = "first" => camp.confirmed = 0
      /\ camp.pc \in {"falsify", "confirm"} => Examined \/ Lost
      /\ camp.pc = "confirm" =>
           /\ AnswersItself /\ syn.pc # "idle"
           /\ syn.prefer \in camp.tried
           /\ Lost \/ syn.prefer \notin Makers(seen.failed, camp.signature)
      /\ camp.pc \in {"gap", "engineer"} => seen.proof \/ Reproduced \/ Lost
  BY DEF ChangeInv
<1>2. CASE LoopEnds \/ RecordUnproven \/ RetryResult \/ Drain \/ LocalEnds
           \/ LocalBegin \/ LocalResult
  <2>1. camp'.pc \in {"result", "finish", "local", "localWork"}
    BY <1>2, <1>0 DEF LoopEnds, RecordUnproven, RetryResult, Drain, LocalEnds,
                      LocalBegin, LocalResult, Saved, Advance, Camps
  <2> QED BY <2>1, ElsewhereChange
<1>3. CASE NextBenchmark
  <2>1. camp'.pc \in {"drain", "first"} /\ camp'.confirmed = 0
    BY <1>0, <1>3 DEF NextBenchmark, Camps
  <2> QED BY <2>1 DEF ChangeInv
<1>4. CASE RecordResult
  <2>1. camp'.pc \in {"drain", "loop"}
    BY <1>4, DownTyped DEF RecordResult, Camps
  <2> QED BY <2>1, ElsewhereChange
<1>5. CASE FirstResult
  <2> DEFINE f == Failure(syn.maker)
  <2>1. CASE Success(syn)
    <3>1. camp'.pc = "result"
      BY <1>0, <1>5, <2>1 DEF FirstResult, Camps
    <3> QED BY <3>1, ElsewhereChange
  <2>2. CASE ~Success(syn) /\ Proof(syn)
    <3>1. camp'.pc = "gap" /\ seen'.proof
      BY <1>0, <1>5, <2>2 DEF FirstResult, Camps, Ghosts
    <3> QED BY <3>1 DEF ChangeInv
  <2>3. CASE ~Success(syn) /\ ~Proof(syn)
    <3>1. /\ camp'.pc = "falsify" /\ camp'.tried = {syn.maker} \ {Nobody}
          /\ camp'.signature = Signature(syn) /\ camp'.confirmed = 0
          /\ seen'.failed = {f}
      BY <1>0, <1>b, <1>5, <2>3 DEF FirstResult, Camps, Ghosts
    <3>2. f.by = syn.maker /\ f.as = Signature(syn)
      BY DEF Failure
    <3> HIDE DEF f
    <3>3. CASE syn.maker = Nobody
      <4>1. Lost'
        BY <3>1, <3>2, <3>3 DEF Lost, CutShort
      <4> QED BY <3>1, <4>1 DEF ChangeInv
    <3>4. CASE syn.maker # Nobody
      <4>1. Makers(seen'.failed, camp'.signature) = {syn.maker}
        BY <3>1, <3>2, <3>4 DEF Makers
      <4>2. IsFiniteSet({syn.maker}) /\ Cardinality({syn.maker}) = 1
        BY FS_Singleton
      <4>3. camp'.signature \in {g.as : g \in seen'.failed}
        BY <3>1, <3>2
      <4>4. Examined'
        BY <3>1, <3>4, <4>1, <4>2, <4>3 DEF Examined
      <4> QED BY <3>1, <4>4 DEF ChangeInv
    <3> QED BY <3>3, <3>4
  <2> QED BY <2>1, <2>2, <2>3
<1>6. CASE Falsify
  <2>0. camp.pc = "falsify" /\ UNCHANGED <<out, seen>>
    BY <1>0, <1>6 DEF Falsify
  <2>1. CASE camp.confirmed >= Confirmations
    <3>1. camp'.pc = "gap"
      BY <1>0, <1>6, <2>1 DEF Falsify, Advance, Camps
    <3>2. Examined => Reproduced
      <4> SUFFICES ASSUME Examined PROVE Reproduced
        OBVIOUS
      <4>1. Cardinality(Makers(seen.failed, camp.signature)) > Confirmations
        BY <1>0, <1>a, <2>1 DEF Examined
      <4> QED BY <4>1 DEF Examined, Reproduced, Makers
    <3>3. Reproduced \/ Lost
      BY <1>b, <2>0, <3>2
    <3>4. Reproduced' \/ Lost'
      BY <2>0, <3>3, LostStays DEF Reproduced
    <3> QED BY <3>1, <3>4 DEF ChangeInv
  <2>2. CASE ~(camp.confirmed >= Confirmations) /\ Independent = {}
    <3>1. camp'.pc = "unproven"
      BY <1>0, <1>6, <2>2 DEF Falsify, Advance, Camps
    <3> QED BY <3>1, ElsewhereChange
  <2>3. CASE ~(camp.confirmed >= Confirmations) /\ Independent # {}
    <3> DEFINE provider == Ranked(Independent, Nobody, Nobody)
    <3>1. provider \in Independent /\ Independent \in SUBSET Clouds
      <4>1. Independent \in SUBSET Clouds
        BY DEF Independent, Candidates
      <4> QED BY <2>3, <4>1, RankedIsMember
    <3>2. /\ camp' = [camp EXCEPT !.pc = "confirm", !.tried = @ \cup {provider}]
          /\ syn' = Request(camp.bench, "falsify", provider, camp.failing)
      BY <1>6, <2>3 DEF Falsify
    <3> HIDE DEF provider
    <3>3. /\ camp'.pc = "confirm" /\ camp'.tried = camp.tried \cup {provider}
          /\ camp'.signature = camp.signature /\ camp'.confirmed = camp.confirmed
          /\ syn'.prefer = provider /\ syn'.maker = Nobody /\ syn'.pc = "negotiate"
      BY <1>0, <3>2 DEF Camps, Request, Idle
    <3>4. provider \in Clouds /\ provider \notin out /\ provider \notin camp.tried
      BY <3>1 DEF Independent, Candidates
    <3>5. AnswersItself'
      BY <2>0, <3>3, <3>4 DEF AnswersItself
    <3>6. CASE Lost
      <4>1. Lost'
        BY <2>0, <3>6, LostStays
      <4> QED BY <3>3, <3>5, <4>1 DEF ChangeInv
    <3>7. CASE Examined
      <4>1. Makers(seen'.failed, camp'.signature) = Makers(seen.failed, camp.signature)
        BY <2>0, <3>3 DEF Makers
      <4>2. Examined'
        BY <2>0, <3>3, <3>7, <4>1 DEF Examined
      <4>3. provider \notin Makers(seen'.failed, camp'.signature)
        BY <3>4, <3>7, <4>1 DEF Examined
      <4> QED BY <3>3, <3>5, <4>2, <4>3 DEF ChangeInv
    <3> QED BY <1>b, <2>0, <3>6, <3>7
  <2> QED BY <2>1, <2>2, <2>3
<1>7. CASE Confirm
  <2>0. camp.pc = "confirm" /\ syn.pc = "done"
    BY <1>7 DEF Confirm
  <2>1. CASE Success(syn)
    <3>1. camp'.pc = "result"
      BY <1>0, <1>7, <2>1 DEF Confirm, Camps
    <3> QED BY <3>1, ElsewhereChange
  <2>2. CASE ~Success(syn) /\ Proof(syn)
    <3>1. camp'.pc = "gap" /\ seen'.proof
      BY <1>0, <1>7, <2>2 DEF Confirm, Camps, Ghosts
    <3> QED BY <3>1 DEF ChangeInv
  <2>3. CASE ~Success(syn) /\ ~Proof(syn) /\ SameSymptom(Signature(syn))
    <3>1. camp' = [camp EXCEPT !.pc = "falsify", !.confirmed = @ + 1]
      BY <1>0, <1>7, <2>3 DEF Confirm
    <3>2. seen'.failed = seen.failed \cup {Failure(syn.prefer)} /\ seen'.ran = seen.ran
      BY <1>0, <1>7, <2>3 DEF Confirm, Ghosts
    <3>3. /\ camp'.pc = "falsify" /\ camp'.tried = camp.tried /\ camp'.signature = camp.signature
          /\ camp'.confirmed = camp.confirmed + 1
      BY <1>0, <3>1 DEF Camps
    <3>4. Signature(syn) = camp.signature
      BY <2>3 DEF SameSymptom
    <3>5. Examined' \/ Lost'
      BY <2>0, <3>2, <3>3, <3>4, ConfirmedChange
    <3> QED BY <3>3, <3>5 DEF ChangeInv
  <2>4. CASE ~Success(syn) /\ ~Proof(syn) /\ ~SameSymptom(Signature(syn))
    <3>1. camp'.pc = "unproven"
      BY <1>0, <1>7, <2>4 DEF Confirm, Camps
    <3> QED BY <3>1, ElsewhereChange
  <2> QED BY <2>1, <2>2, <2>3, <2>4
<1>8. CASE RecordGap
  <2>1. camp.pc = "gap" /\ camp'.pc \in {"loop", "engineer"} /\ seen' = seen
    BY <1>0, <1>8 DEF RecordGap, Camps, synVars
  <2>2. seen'.proof \/ Reproduced' \/ Lost'
    BY <1>b, <2>1, LostStays DEF Reproduced
  <2> QED BY <2>1, <2>2 DEF ChangeInv
<1>9. CASE Engineer
  <2>1. camp'.pc \in {"retry", "finish", "result"}
    BY <1>0, <1>9 DEF Engineer, Advance, Camps
  <2> QED BY <2>1, ElsewhereChange
<1>10. CASE SynthesisStep /\ UNCHANGED <<camp, disk>>
  <2>1. SynthesisFrame
    BY <1>10, SynthesisIs DEF BundleInv
  <2>2. syn'.prefer = syn.prefer /\ syn.pc # "idle" /\ syn'.pc # "idle" /\ camp' = camp
    BY <1>10, <2>1 DEF SynthesisFrame
  <2>3. seen'.failed = seen.failed /\ seen.ran \subseteq seen'.ran
    BY <1>0, <2>1 DEF SynthesisFrame, Ghosts
  <2>4. Lost => Lost'
    BY <2>3, LostStays
  <2>5. Makers(seen'.failed, camp'.signature) = Makers(seen.failed, camp.signature)
    BY <2>2, <2>3 DEF Makers
  <2>6. Examined => Examined'
    BY <2>2, <2>3, <2>5 DEF Examined
  <2>7. camp.pc \in {"first", "confirm", "retry"}
    BY <1>0, <2>2
  <2>8. camp.pc = "confirm" => AnswersItself'
    BY <1>b, <1>10, SynthesisAnswers
  <2> QED BY <1>b, <2>2, <2>4, <2>5, <2>6, <2>7, <2>8 DEF ChangeInv
<1>11. CASE Recovers \/ UNCHANGED dogVars
  <2>1. UNCHANGED <<camp, syn, seen>> /\ out' \subseteq out
    BY <1>11 DEF Recovers, dogVars, synVars
  <2>2. AnswersItself => AnswersItself'
    BY <2>1 DEF AnswersItself
  <2>3. Makers(seen'.failed, camp'.signature) = Makers(seen.failed, camp.signature)
    BY <2>1 DEF Makers
  <2>4. (Examined => Examined') /\ (Lost => Lost') /\ (Reproduced => Reproduced')
    BY <2>1, <2>3, LostStays DEF Examined, Reproduced
  <2> QED BY <1>b, <2>1, <2>2, <2>3, <2>4 DEF ChangeInv
<1> QED BY <1>1, <1>2, <1>3, <1>4, <1>5, <1>6, <1>7, <1>8, <1>9, <1>10, <1>11
        DEF DogfoodNext, Step, CampaignStep

\* For any benchmarks, providers and number of confirmations, through outages, recoveries,
\* crashes and restarts: a task against the framework begins only on deterministic proof or
\* when as many other providers as asked for have themselves failed the same way, unless the
\* one asked ran out or nobody was left to answer.
THEOREM SelfModificationCorrect == DogfoodSpec => []SelfModificationEarned
<1>1. DogfoodInit => ChangeInv
  BY DownTyped DEF DogfoodInit, ChangeInv
<1>2. (DogfoodTypeOK /\ BundleInv) /\ ChangeInv /\ [DogfoodNext]_dogVars => ChangeInv'
  BY ChangeStep
<1>3. ChangeInv => SelfModificationEarned
  BY DEF ChangeInv, SelfModificationEarned, Lost
<1> QED BY <1>1, <1>2, <1>3, DogfoodSound, PTL DEF DogfoodSpec
=============================================================================
