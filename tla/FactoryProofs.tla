--------------------------- MODULE FactoryProofs ---------------------------
(* Proofs about Factory, for any processes, items, evidence, budget and      *)
(* bounds: first its types, the seriality of its work and how a signalled    *)
(* supervisor ends, however reads and saves interleave (Spec), then, when no *)
(* read-modify-write overlaps another step (QuietSpec), the budget, the      *)
(* record of a running dispatch, what lets an item start and the lifecycle   *)
(* of WorkItemLifecycle.                                                     *)
EXTENDS Factory, TLAPS

\* Where a process holds the lock, and where it carries a selected item.
Inside   == {"loop", "tick", "recon", "requeue", "ingest", "select", "dispatch",
             "commit", "call", "running", "settle", "after"}
Carrying == {"dispatch", "commit", "call", "running", "settle"}

\* A process that dispatches has an item to dispatch.
PickKnown == \A p \in Procs : pc[p] \in Carrying => mem[p].pick \in Items

TypeInv == TypeOK /\ PickKnown

-----------------------------------------------------------------------------
(* Types of the operators                                                    *)

\* Every operator on the supervisor record returns one.
LEMMA RecordOperators ==
    /\ NewRecord \in Records
    /\ \A r \in Records :
          /\ Reconciled(r) \in Records /\ Stopped(r) \in Records
          /\ Idled(r) \in Records /\ BoundedStop(r) \in Records
          /\ \A s, f \in SupervisorStates : MoveOr(r, s, f) \in Records
          /\ r.state \in SupervisorStates
          /\ [r EXCEPT !.cur = None] \in Records
          /\ \A i \in Items, n \in Nat :
                [r EXCEPT !.state = "dispatching", !.cur = i, !.count = n] \in Records
          /\ r.count \in Nat
  BY ZenonT(60) DEF NewRecord, Records, Reconciled, Stopped, Idled, BoundedStop, MoveOr,
         SupervisorStates

\* Every operator on a work item returns one.
LEMMA ItemOperators ==
    /\ NewItem \in ItemRecords
    /\ \A it \in ItemRecords :
          /\ \A e \in Evidence : Admitted(it, e) \in ItemRecords
          /\ \A c \in BOOLEAN : Requeued(it, c) \in ItemRecords
          /\ \A s \in SUBSET Items : Unblocked(it, s) \in ItemRecords
          /\ \A s \in ItemStates : [it EXCEPT !.st = s] \in ItemRecords
          /\ it.due = "later" => [it EXCEPT !.due = "due"] \in ItemRecords
  <1>1. NewItem \in ItemRecords
    BY DEF NewItem, ItemRecords, ItemStates
  <1>2. ASSUME NEW it \in ItemRecords
        PROVE  /\ \A e \in Evidence : Admitted(it, e) \in ItemRecords
               /\ \A c \in BOOLEAN : Requeued(it, c) \in ItemRecords
               /\ \A s \in SUBSET Items : Unblocked(it, s) \in ItemRecords
               /\ \A s \in ItemStates : [it EXCEPT !.st = s] \in ItemRecords
               /\ it.due = "later" => [it EXCEPT !.due = "due"] \in ItemRecords
    <2>1. ASSUME NEW e \in Evidence PROVE Admitted(it, e) \in ItemRecords
      <3>1. e.refs \subseteq AllRefs /\ e.fps \subseteq AllFps
        BY DEF AllRefs, AllFps
      <3>2. AdmissionState(e) \in ItemStates
        BY DEF AdmissionState, ItemStates
      <3> QED
        BY <3>1, <3>2 DEF Admitted, ItemRecords
    <2>2. ASSUME NEW c \in BOOLEAN PROVE Requeued(it, c) \in ItemRecords
      BY DEF Requeued, ItemRecords, ItemStates
    <2>3. ASSUME NEW s \in SUBSET Items PROVE Unblocked(it, s) \in ItemRecords
      BY DEF Unblocked, ItemRecords, ItemStates
    <2>4. \A s \in ItemStates : [it EXCEPT !.st = s] \in ItemRecords
      BY DEF ItemRecords
    <2>5. it.due = "later" => [it EXCEPT !.due = "due"] \in ItemRecords
      BY DEF ItemRecords
    <2> QED
      BY <2>1, <2>2, <2>3, <2>4, <2>5
  <1> QED
    BY <1>1, <1>2

\* A process's memory stays typed when its record is replaced or it is cleared.
LEMMA MemoryOperators ==
    /\ Blank \in Memory
    /\ \A m \in Memory :
          /\ m.rec \in Records /\ m.stop \in BOOLEAN /\ m.item \in ItemRecords
          /\ m.todo \subseteq Evidence /\ m.next \in SupervisorStates
          /\ \A r \in Records :
                /\ [m EXCEPT !.rec = r] \in Memory
                /\ [Blank EXCEPT !.rec = r, !.stop = m.stop] \in Memory
  BY RecordOperators, ItemOperators DEF Blank, Memory, SupervisorStates

\* One observation is taken off the list and remembered.
LEMMA HearOperator ==
    ASSUME NEW m \in Memory, NEW e \in Evidence
    PROVE  [m EXCEPT !.todo = @ \ {e}, !.rec.seen = @ \cup {DecisionKey(e)}] \in Memory
  <1>1. [m.rec EXCEPT !.seen = @ \cup {DecisionKey(e)}] \in Records
    BY DEF Records, Memory
  <1>2. m.todo \ {e} \subseteq Evidence
    BY DEF Memory
  <1> QED
    BY <1>1, <1>2 DEF Memory

\* Parking, refreshing and a dispatch's outcome keep the items typed.
LEMMA ItemsOperators ==
    ASSUME TypeOK
    PROVE  /\ Parked(items) \in [Items -> ItemRecords]
           /\ \A c \in BOOLEAN : Refreshed(items, c) \in [Items -> ItemRecords]
  <1>1. items \in [Items -> ItemRecords]
    BY DEF TypeOK
  <1>2. \A i \in Items : Parked(items)[i] \in ItemRecords
    BY <1>1 DEF Parked, ItemRecords, ItemStates
  <1>3. Shipped(items) \subseteq Items
    BY DEF Shipped
  <1>4. \A c \in BOOLEAN : \A i \in Items :
           Unblocked(Requeued(items[i], c), Shipped(items)) \in ItemRecords
    BY <1>1, <1>3, ItemOperators
  <1>5. Parked(items) \in [Items -> ItemRecords]
    BY <1>2 DEF Parked
  <1>6. \A c \in BOOLEAN : Refreshed(items, c) \in [Items -> ItemRecords]
    BY <1>4 DEF Refreshed
  <1> QED
    BY <1>5, <1>6

\* The item a run leaves is typed, whatever its outcome.
LEMMA OutcomeOperators ==
    ASSUME NEW it \in ItemRecords, NEW i \in Items, NEW o \in Outcomes,
           NEW bs \in BlockersOf(o, i), NEW due \in RetriesOf(o, it.due)
    PROVE  /\ [it EXCEPT !.st = ItemAfter(o), !.due = due, !.blockers = @ \cup bs]
                 \in ItemRecords
           /\ SupervisorAfter(o) \in SupervisorStates
           /\ ItemAfter(o) # "in_progress"
  <1>1. ItemAfter(o) \in ItemStates \ {"in_progress"}
    BY DEF ItemAfter, ItemStates
  <1>2. SupervisorAfter(o) \in SupervisorStates
    BY DEF SupervisorAfter, SupervisorStates
  <1>3. bs \subseteq Items \cup {Unknown}
    BY DEF BlockersOf
  <1>4. due \in {"none", "later", "due"}
    BY DEF RetriesOf, ItemRecords
  <1> QED
    BY <1>1, <1>2, <1>3, <1>4 DEF ItemRecords

-----------------------------------------------------------------------------
(* TypeInv, one step per action                                              *)

LEMMA InitTypeInv == Init => TypeInv
  <1> SUFFICES ASSUME Init PROVE TypeInv
    OBVIOUS
  <1>1. rec \in Records /\ items \in [Items -> ItemRecords] /\ mem \in [Procs -> Memory]
    BY RecordOperators, ItemOperators, MemoryOperators DEF Init
  <1>2. pc \in [Procs -> Locations] /\ PickKnown
    BY DEF Init, Locations, PickKnown, Carrying
  <1>3. /\ cli \in [pc : {"idle", "stop", "signal", "resume"}, copy : Records]
        /\ owner \in [item : Items \cup {None}, copy : ItemRecords]
    BY RecordOperators, ItemOperators DEF Init
  <1>4. holder = None /\ runs = 0 /\ cleared = {} /\ faults = 0 /\ commands = 0
    BY DEF Init
  <1> QED
    BY <1>1, <1>2, <1>3, <1>4 DEF TypeInv, TypeOK

\* A step of one process that only replaces its record, and perhaps saves it.
LEMMA RecordStep ==
    ASSUME TypeInv, NEW p \in Procs, NEW r \in Records,
           NEW l \in Locations, GoTo(p, l), l \in Carrying => pc[p] \in Carrying,
           mem' = [mem EXCEPT ![p].rec = r],
           rec' \in Records, holder' \in Procs \cup {None},
           UNCHANGED <<items, outside>>
    PROVE  TypeInv'
  <1>1. mem' \in [Procs -> Memory]
    BY MemoryOperators DEF TypeInv, TypeOK
  <1>2. pc' \in [Procs -> Locations]
    BY DEF TypeInv, TypeOK, GoTo
  <1>3. PickKnown'
    BY DEF TypeInv, TypeOK, PickKnown, GoTo, Memory
  <1> QED
    BY <1>1, <1>2, <1>3 DEF TypeInv, TypeOK, outside, operators, history

\* A process that leaves keeps everything typed.
LEMMA LeaveStep ==
    ASSUME TypeInv, NEW p \in Procs, Leave(p)
    PROVE  /\ pc' \in [Procs -> Locations] /\ mem' \in [Procs -> Memory]
           /\ holder' \in Procs \cup {None} /\ PickKnown'
  <1>1. mem' \in [Procs -> Memory]
    BY MemoryOperators DEF TypeInv, TypeOK, Leave
  <1>2. pc' \in [Procs -> Locations]
    BY DEF TypeInv, TypeOK, Leave, GoTo, Locations
  <1>3. PickKnown'
    BY DEF TypeInv, TypeOK, PickKnown, Leave, GoTo, Carrying
  <1> QED
    BY <1>1, <1>2, <1>3 DEF TypeInv, TypeOK, Leave

LEMMA StartType ==
    ASSUME TypeInv, NEW p \in Procs, Start(p)
    PROVE  TypeInv'
  <1>1. rec \in Records /\ mem[p].rec \in Records /\ Reconciled(rec) \in Records
        /\ Idled(rec) \in Records
    BY RecordOperators, MemoryOperators DEF TypeInv, TypeOK
  <1>2. holder \in Procs \cup {None}
    BY DEF TypeInv, TypeOK
  <1>3. CASE Build(p)
    BY <1>1, <1>2, <1>3, RecordStep
    DEF Build, Keep, At, outside, operators, history, Carrying, Locations
  <1>4. CASE SaveTarget(p)
    BY <1>1, <1>2, <1>4, RecordStep
    DEF SaveTarget, Save, At, outside, operators, history, Carrying, Locations
  <1>5. CASE Construct(p)
    BY <1>1, <1>2, <1>5, RecordStep
    DEF Construct, Keep, At, outside, operators, history, Carrying, Locations
  <1>6. CASE PersistBound(p)
    BY <1>1, <1>2, <1>6, RecordStep
    DEF PersistBound, Save, At, outside, operators, history, Carrying, Locations
  <1>7. CASE Enter(p)
    BY <1>1, <1>2, <1>7
    DEF Enter, At, GoTo, outside, operators, history, Carrying, Locations, TypeInv,
        TypeOK, PickKnown
  <1>8. CASE EnterResuming(p)
    <2>1. CASE rec.state = "stopped"
      BY <1>1, <1>2, <1>8, <2>1, RecordStep
      DEF EnterResuming, Save, At, outside, operators, history, Carrying, Locations
    <2>2. CASE rec.state # "stopped"
      BY <1>1, <1>2, <1>8, <2>2, RecordStep
      DEF EnterResuming, Keep, At, outside, operators, history, Carrying, Locations
    <2> QED
      BY <2>1, <2>2
  <1>9. CASE Rejected(p)
    BY <1>9, LeaveStep DEF Rejected, TypeInv, TypeOK, outside, operators, history
  <1> QED
    BY <1>3, <1>4, <1>5, <1>6, <1>7, <1>8, <1>9 DEF Start

LEMMA TurnType ==
    ASSUME TypeInv, NEW p \in Procs, Turn(p)
    PROVE  TypeInv'
  <1>1. /\ rec \in Records /\ mem[p].rec \in Records /\ Reconciled(rec) \in Records
        /\ Stopped(rec) \in Records /\ BoundedStop(rec) \in Records
        /\ Stopped(mem[p].rec) \in Records
    BY RecordOperators, MemoryOperators DEF TypeInv, TypeOK
  <1>2. holder \in Procs \cup {None}
    BY DEF TypeInv, TypeOK
  <1>3. CASE LeaveStopped(p) \/ LeaveBounded(p) \/ LeaveSignalled(p) \/ Return(p)
    BY <1>1, <1>3, LeaveStep
    DEF LeaveStopped, LeaveBounded, LeaveSignalled, Return, TypeInv, TypeOK,
        outside, operators, history
  <1>4. CASE BeginTick(p)
    BY <1>1, <1>2, <1>4, RecordStep
    DEF BeginTick, Keep, At, outside, operators, history, Carrying, Locations
  <1>5. CASE Wake(p)
    BY <1>1, <1>2, <1>5, RecordStep
    DEF Wake, Save, At, outside, operators, history, Carrying, Locations
  <1>6. CASE WakeToStop(p)
    <2>1. CASE rec.state = "stopped"
      BY <1>1, <1>2, <1>6, <2>1, RecordStep
      DEF WakeToStop, Keep, At, outside, operators, history, Carrying, Locations
    <2>2. CASE rec.state # "stopped"
      BY <1>1, <1>2, <1>6, <2>2, RecordStep
      DEF WakeToStop, Save, At, outside, operators, history, Carrying, Locations
    <2> QED
      BY <2>1, <2>2
  <1>7. CASE Again(p)
    BY <1>1, <1>2, <1>7, MemoryOperators
    DEF Again, At, GoTo, TypeInv, TypeOK, PickKnown, Carrying, Locations,
        outside, operators, history
  <1> QED
    BY <1>3, <1>4, <1>5, <1>6, <1>7 DEF Turn

LEMMA WorkType ==
    ASSUME TypeInv, NEW p \in Procs, Work(p) \/ Observe(p)
    PROVE  TypeInv'
  <1>1. /\ rec \in Records /\ mem[p] \in Memory /\ mem[p].rec \in Records
        /\ Stopped(mem[p].rec) \in Records /\ [mem[p].rec EXCEPT !.cur = None] \in Records
        /\ \A s, f \in SupervisorStates : MoveOr(mem[p].rec, s, f) \in Records
        /\ mem[p].rec.state \in SupervisorStates
    BY RecordOperators, MemoryOperators DEF TypeInv, TypeOK
  <1>2. /\ holder \in Procs \cup {None} /\ items \in [Items -> ItemRecords]
        /\ pc \in [Procs -> Locations] /\ mem \in [Procs -> Memory]
        /\ cleared \subseteq Items /\ runs \in Nat
    BY DEF TypeInv, TypeOK
  <1>3. CASE Reconcile(p)
    <2> DEFINE r == [mem[p].rec EXCEPT !.cur = IF mem[p].rec.state = "backoff"
                                               THEN None ELSE @]
    <2>1. mem' = [mem EXCEPT ![p].rec = r] /\ r \in Records
      BY <1>1, <1>3 DEF Reconcile, Keep, Records
    <2>2. mem' \in [Procs -> Memory]
      BY <2>1, <1>2, MemoryOperators
    <2>3. items' \in [Items -> ItemRecords]
      BY <1>3, ItemsOperators DEF Reconcile, TypeInv
    <2>4. PickKnown' /\ pc' \in [Procs -> Locations]
      BY <1>3, <1>2, <2>1
      DEF Reconcile, TypeInv, PickKnown, GoTo, Carrying, Locations, Memory
    <2> QED
      BY <1>1, <1>2, <1>3, <2>2, <2>3, <2>4
      DEF Reconcile, Keep, TypeInv, TypeOK, outside, operators, history
  <1>4. CASE Refresh(p)
    <2>1. PICK found \in SUBSET Evidence : mem' = [mem EXCEPT ![p].todo = found]
      BY <1>4 DEF Refresh
    <2>2. mem' \in [Procs -> Memory]
      BY <2>1, <1>2 DEF Memory
    <2>3. items' \in [Items -> ItemRecords]
      BY <1>4, ItemsOperators DEF Refresh, TypeInv
    <2>4. PickKnown' /\ pc' \in [Procs -> Locations]
      BY <1>4, <1>2, <2>1
      DEF Refresh, TypeInv, PickKnown, GoTo, Carrying, Locations, Memory
    <2> QED
      BY <1>2, <1>4, <2>2, <2>3, <2>4
      DEF Refresh, TypeInv, TypeOK, outside, operators, history
  <1>5. CASE Ingest(p)
    <2>1. PICK e \in mem[p].todo :
             /\ mem' = [mem EXCEPT ![p] = [mem[p] EXCEPT
                          !.todo = @ \ {e}, !.rec.seen = @ \cup {DecisionKey(e)}]]
             /\ \/ items' = items
                \/ items' = [items EXCEPT ![e.item] = Admitted(items[e.item], e)]
             /\ cleared' \in {cleared, cleared \cup {e.item}, cleared \ {e.item}}
      <3>1. PICK e \in mem[p].todo :
               LET i      == e.item
                   heard  == DecisionKey(e) \in mem[p].rec.seen
                   admits == ~heard /\ IsNews(items[i], e)
               IN  /\ mem' = [mem EXCEPT ![p] = [mem[p] EXCEPT
                                !.todo = @ \ {e}, !.rec.seen = @ \cup {DecisionKey(e)}]]
                   /\ items' = [items EXCEPT ![i] = IF admits THEN Admitted(@, e) ELSE @]
                   /\ cleared' = IF ~admits THEN cleared
                                 ELSE IF Origin[i] = "auto"
                                         \/ (Origin[i] = "owner" /\ e.trusted)
                                      THEN cleared \cup {i} ELSE cleared \ {i}
        BY <1>5 DEF Ingest
      <3>2. \/ items' = [items EXCEPT ![e.item] = items[e.item]]
            \/ items' = [items EXCEPT ![e.item] = Admitted(items[e.item], e)]
        BY <3>1
      <3>3. [items EXCEPT ![e.item] = items[e.item]] = items
        BY <1>2
      <3> QED
        BY <3>1, <3>2, <3>3
    <2>2. e \in Evidence /\ e.item \in Items
      BY <2>1, <1>1, EvidenceNamesItems DEF Memory
    <2>3. mem' \in [Procs -> Memory]
      BY <2>1, <2>2, <1>2, HearOperator
    <2>4. items' \in [Items -> ItemRecords]
      <3>1. Admitted(items[e.item], e) \in ItemRecords
        BY <2>2, <1>2, ItemOperators
      <3> QED
        BY <2>1, <2>2, <1>2, <3>1
    <2>5. PickKnown'
      BY <1>5, <2>1, <1>2 DEF Ingest, TypeInv, PickKnown, Carrying, At, Memory
    <2>6. cleared' \subseteq Items
      BY <2>1, <2>2, <1>2
    <2> QED
      BY <1>2, <1>5, <2>3, <2>4, <2>5, <2>6
      DEF Ingest, TypeInv, TypeOK, operators
  <1>6. CASE Ingested(p)
    <2>1. CASE mem[p].stop
      BY <1>1, <1>2, <1>6, <2>1, RecordStep
      DEF Ingested, Save, At, outside, operators, history, Carrying, Locations
    <2>2. CASE ~mem[p].stop
      BY <1>1, <1>2, <1>6, <2>2, RecordStep
      DEF Ingested, Keep, At, outside, operators, history, Carrying, Locations
    <2> QED
      BY <2>1, <2>2
  <1>7. CASE Select(p)
    <2>1. PICK i \in Items : mem' = [mem EXCEPT ![p].pick = i]
      BY <1>7 DEF Select, Candidates
    <2>2. mem' \in [Procs -> Memory]
      BY <2>1, <1>2 DEF Memory
    <2>3. PickKnown' /\ pc' \in [Procs -> Locations]
      BY <1>7, <1>2, <2>1 DEF Select, TypeInv, PickKnown, GoTo, Carrying, Locations, Memory
    <2> QED
      BY <1>7, <2>2, <2>3 DEF Select, TypeInv, TypeOK, outside, operators, history
  <1>8. CASE Idle(p)
    <2>1. PICK r \in Records : Save(p, r)
      BY <1>1, <1>8 DEF Idle, SupervisorStates
    <2> QED
      BY <1>2, <1>8, <2>1, RecordStep
      DEF Idle, Save, At, outside, operators, history, Carrying, Locations
  <1>9. CASE Dispatch(p)
    <2> DEFINE i == mem[p].pick
    <2>1. i \in Items
      BY <1>9 DEF Dispatch, At, TypeInv, PickKnown, Carrying
    <2>2. items' \in [Items -> ItemRecords]
      BY <1>9, <1>2, <2>1, ItemOperators DEF Dispatch, ItemStates
    <2>3. mem' = [mem EXCEPT ![p].item = items'[i]]
      BY <1>9 DEF Dispatch
    <2>4. mem' \in [Procs -> Memory]
      BY <2>1, <2>2, <2>3, <1>2 DEF Memory
    <2>5. PickKnown' /\ pc' \in [Procs -> Locations]
      BY <1>9, <1>2, <2>1, <2>3
      DEF Dispatch, TypeInv, PickKnown, GoTo, Carrying, Locations, Memory
    <2> QED
      BY <1>9, <2>2, <2>4, <2>5 DEF Dispatch, TypeInv, TypeOK, outside, operators, history
  <1>10. CASE Refused(p)
    <2>1. PICK r \in Records : EndTick(p, r)
      BY <1>1, <1>10 DEF Refused, GiveUp, SupervisorStates
    <2>2. mem' \in [Procs -> Memory]
      BY <2>1, <1>2, MemoryOperators DEF EndTick
    <2>3. PickKnown' /\ pc' \in [Procs -> Locations]
      BY <1>10, <1>2, <2>1
      DEF Refused, GiveUp, EndTick, TypeInv, PickKnown, GoTo, Carrying, Locations
    <2> QED
      BY <1>10, <2>2, <2>3
      DEF Refused, GiveUp, TypeInv, TypeOK, outside, operators, history
  <1>11. CASE Commit(p)
    <2>1. mem[p].pick \in Items
      BY <1>11 DEF Commit, At, TypeInv, PickKnown, Carrying
    <2> DEFINE r == [mem[p].rec EXCEPT !.state = "dispatching", !.cur = mem[p].pick,
                       !.count = IF Budget > 0 THEN @ + 1 ELSE @]
    <2>2. Save(p, r)
      BY <1>11 DEF Commit
    <2>3. r \in Records
      <3> DEFINE n == IF Budget > 0 THEN mem[p].rec.count + 1 ELSE mem[p].rec.count
      <3>1. n \in Nat
        BY <1>1 DEF Records
      <3> QED
        <4> HIDE DEF n
        <4>1. [mem[p].rec EXCEPT !.state = "dispatching", !.cur = mem[p].pick, !.count = n]
                 \in Records
          BY <1>1, <2>1, <3>1, RecordOperators
        <4> QED
          BY <4>1 DEF n
    <2> HIDE DEF r
    <2> QED
      BY ZenonT(60), <1>2, <1>11, <2>2, <2>3, RecordStep
      DEF Commit, Save, At, outside, operators, history, Carrying, Locations
  <1>12. CASE Call(p)
    BY <1>12, <1>2
    DEF Call, At, GoTo, TypeInv, TypeOK, PickKnown, Carrying, Locations, operators
  <1>13. CASE Observe(p)
    BY <1>13, <1>1, <1>2, MemoryOperators
    DEF Observe, Save, At, TypeInv, TypeOK, PickKnown, outside, operators, history, Memory
  <1>14. CASE Finish(p)
    <2>1. mem[p].pick \in Items /\ mem[p].item \in ItemRecords
      BY <1>14, <1>1 DEF Finish, At, TypeInv, PickKnown, Carrying, Memory
    <2>2. PICK it \in ItemRecords, s \in SupervisorStates :
             /\ items' = [items EXCEPT ![mem[p].pick] = it]
             /\ mem' = [mem EXCEPT ![p].next = s]
             /\ cleared' \in {cleared, cleared \ {mem[p].pick}}
      BY <1>14, <2>1, OutcomeOperators DEF Finish
    <2>3. items' \in [Items -> ItemRecords]
      BY <2>1, <2>2, <1>2
    <2>4. mem' \in [Procs -> Memory]
      BY <2>2, <1>2 DEF Memory
    <2>5. PickKnown' /\ pc' \in [Procs -> Locations]
      BY <1>14, <1>2, <2>1, <2>2
      DEF Finish, At, TypeInv, PickKnown, GoTo, Carrying, Locations, Memory
    <2>6. cleared' \subseteq Items
      BY <2>2, <1>2
    <2> QED
      BY <1>14, <2>3, <2>4, <2>5, <2>6 DEF Finish, TypeInv, TypeOK, operators
  <1>15. CASE Settle(p)
    <2>1. rec' \in Records
      <3> DEFINE r == [mem[p].rec EXCEPT !.cur = None]
      <3>1. r \in Records /\ mem[p].next \in SupervisorStates
        BY <1>1, MemoryOperators
      <3>2. BoundedStop(r) \in Records /\ MoveOr(r, mem[p].next, "backoff") \in Records
        BY <3>1, RecordOperators DEF SupervisorStates
      <3> QED
        BY <1>15, <3>2 DEF Settle
    <2>2. EndTick(p, rec') /\ mem' \in [Procs -> Memory]
      BY <1>15, <2>1, <1>2, MemoryOperators DEF EndTick, Settle
    <2>3. PickKnown' /\ pc' \in [Procs -> Locations]
      BY <1>15, <1>2, <2>2
      DEF Settle, EndTick, TypeInv, PickKnown, GoTo, Carrying, Locations
    <2> QED
      BY <1>15, <2>1, <2>2, <2>3 DEF Settle, TypeInv, TypeOK, outside, operators, history
  <1> QED
    BY <1>3, <1>4, <1>5, <1>6, <1>7, <1>8, <1>9, <1>10, <1>11, <1>12, <1>13, <1>14, <1>15
    DEF Work

LEMMA FaultType ==
    ASSUME TypeInv, NEW p \in Procs, Fault(p)
    PROVE  TypeInv'
  <1>1. CASE TickError(p)
    <2>1. mem[p].rec \in Records /\ mem \in [Procs -> Memory] /\ pc \in [Procs -> Locations]
          /\ mem[p].rec.state \in SupervisorStates
      BY RecordOperators, MemoryOperators DEF TypeInv, TypeOK
    <2>2. PICK r \in Records : EndTick(p, r)
      BY <1>1, <2>1, RecordOperators DEF TickError, GiveUp, SupervisorStates
    <2>3. mem' \in [Procs -> Memory]
      BY <2>1, <2>2, MemoryOperators DEF EndTick
    <2>4. PickKnown' /\ pc' \in [Procs -> Locations]
      BY <1>1, <2>1, <2>2
      DEF TickError, GiveUp, EndTick, TypeInv, PickKnown, GoTo, Carrying, Locations
    <2> QED
      BY <1>1, <2>3, <2>4 DEF TickError, GiveUp, TypeInv, TypeOK, operators
  <1>2. CASE Crash(p)
    BY <1>2, LeaveStep DEF Crash, TypeInv, TypeOK, operators
  <1> QED
    BY <1>1, <1>2 DEF Fault

LEMMA CommandType ==
    ASSUME TypeInv, Command \/ ComesDue
    PROVE  TypeInv'
  <1>1. /\ rec \in Records /\ Reconciled(rec) \in Records
        /\ cli.copy \in Records /\ Stopped(cli.copy) \in Records
        /\ Idled(cli.copy) \in Records /\ NewRecord \in Records
    BY RecordOperators DEF TypeInv, TypeOK
  <1>2. /\ items \in [Items -> ItemRecords] /\ owner.copy \in ItemRecords
        /\ owner.item \in Items \cup {None} /\ NewItem \in ItemRecords
        /\ commands \in Nat
    BY ItemOperators DEF TypeInv, TypeOK
  <1>3. CASE StopLoad
    BY <1>1, <1>2, <1>3 DEF StopLoad, supervisors, history, TypeInv, TypeOK, PickKnown
  <1>4. CASE StopSave
    BY <1>1, <1>2, <1>4 DEF StopSave, supervisors, history, TypeInv, TypeOK, PickKnown
  <1>5. CASE SignalNobody
    BY <1>1, <1>5 DEF SignalNobody, supervisors, history, TypeInv, TypeOK, PickKnown
  <1>6. ASSUME NEW p \in Procs, Signal(p) PROVE TypeInv'
    <2>1. cli' \in [pc : {"idle", "stop", "signal", "resume"}, copy : Records]
      BY <1>6 DEF Signal, TypeInv, TypeOK
    <2>2. CASE pc[p] \in Building
      BY <1>6, <2>1, <2>2, LeaveStep DEF Signal, history, TypeInv, TypeOK
    <2>3. CASE pc[p] \notin Building
      <3>1. mem' = [mem EXCEPT ![p].stop = TRUE] /\ UNCHANGED <<pc, holder>>
        BY <1>6, <2>3 DEF Signal
      <3>2. mem' \in [Procs -> Memory] /\ PickKnown'
        BY ZenonT(60), <3>1 DEF TypeInv, TypeOK, PickKnown, Memory
      <3> QED
        BY <1>6, <2>1, <3>1, <3>2 DEF Signal, history, TypeInv, TypeOK
    <2> QED
      BY <2>2, <2>3
  <1>7. CASE ResumeLoad \/ ResumeSave
    BY <1>1, <1>2, <1>7
    DEF ResumeLoad, ResumeSave, supervisors, history, TypeInv, TypeOK, PickKnown
  <1>8. CASE DecideLoad
    BY <1>2, <1>8 DEF DecideLoad, history, TypeInv, TypeOK, PickKnown
  <1>9. CASE Approve \/ Reject
    <2>1. owner.item \in Items
      BY <1>9, <1>2 DEF Approve, Reject
    <2>2. PICK s \in {"ready", "rejected"} :
             items' = [items EXCEPT ![owner.item] = [owner.copy EXCEPT !.st = s]]
      BY <1>9 DEF Approve, Reject
    <2>3. [owner.copy EXCEPT !.st = s] \in ItemRecords
      BY <1>2, ItemOperators DEF ItemStates
    <2>4. items' \in [Items -> ItemRecords] /\ cleared' \subseteq Items
      BY <1>2, <1>9, <2>1, <2>2, <2>3 DEF Approve, Reject, TypeInv, TypeOK
    <2> QED
      BY <1>2, <1>9, <2>4 DEF Approve, Reject, TypeInv, TypeOK, PickKnown
  <1>10. CASE ComesDue
    <2>1. PICK i \in Items : items[i].due = "later"
                             /\ items' = [items EXCEPT ![i].due = "due"]
      BY <1>10 DEF ComesDue
    <2>2. items' \in [Items -> ItemRecords]
      BY <1>2, <2>1, ItemOperators
    <2> QED
      BY <1>10, <2>2
      DEF ComesDue, outside, operators, history, TypeInv, TypeOK, PickKnown
  <1> QED
    BY <1>3, <1>4, <1>5, <1>6, <1>7, <1>8, <1>9, <1>10 DEF Command

LEMMA TypeStep == TypeInv /\ [Next]_vars => TypeInv'
  <1> SUFFICES ASSUME TypeInv, [Next]_vars PROVE TypeInv'
    OBVIOUS
  <1>1. CASE UNCHANGED vars
    BY <1>1 DEF vars, TypeInv, TypeOK, PickKnown
  <1> QED
    BY <1>1, StartType, TurnType, WorkType, FaultType, CommandType DEF Next

\* Every reachable state of the factory is well typed, whatever interleaves.
THEOREM TypeCorrect == Spec => []TypeOK
  BY InitTypeInv, TypeStep, PTL DEF Spec, TypeInv

-----------------------------------------------------------------------------
(* One item at a time                                                        *)

\* A step of a process, its own or a signal it receives; and all the others.
StepOf(p) == Start(p) \/ Turn(p) \/ Work(p) \/ Observe(p) \/ Fault(p) \/ Signal(p)
Elsewhere == \/ ComesDue \/ StopLoad \/ StopSave \/ SignalNobody \/ ResumeLoad
             \/ ResumeSave \/ DecideLoad \/ Approve \/ Reject

LEMMA NextCases ==
    ASSUME [Next]_vars
    PROVE  (\E p \in Procs : StepOf(p)) \/ Elsewhere \/ UNCHANGED vars
  BY DEF Next, Command, StepOf, Elsewhere

\* What happens elsewhere moves no process and touches no memory.
LEMMA ElsewhereFrame ==
    ASSUME Elsewhere \/ UNCHANGED vars
    PROVE  UNCHANGED <<pc, mem, holder, runs>>
  BY DEF Elsewhere, ComesDue, StopLoad, StopSave, SignalNobody, ResumeLoad, ResumeSave,
         DecideLoad, Approve, Reject, supervisors, outside, operators, history, vars

\* A step of one process moves no other.
LEMMA StepFrame ==
    ASSUME TypeOK, NEW p \in Procs, StepOf(p), NEW q \in Procs, q # p
    PROVE  pc'[q] = pc[q] /\ mem'[q] = mem[q]
  <1>1. pc \in [Procs -> Locations] /\ mem \in [Procs -> Memory]
    BY DEF TypeOK
  <1>2. CASE Start(p)
    BY <1>1, <1>2
    DEF Start, Build, SaveTarget, Construct, PersistBound, Enter, EnterResuming, Rejected,
        Keep, Save, GoTo, Leave
  <1>3. CASE Turn(p)
    BY <1>1, <1>3
    DEF Turn, LeaveStopped, LeaveBounded, LeaveSignalled, BeginTick, Wake, WakeToStop,
        Return, Again, Keep, Save, GoTo, Leave
  <1>4. CASE Work(p)
    BY <1>1, <1>4
    DEF Work, Reconcile, Refresh, Ingest, Ingested, Select, Idle, Dispatch, Refused,
        Commit, Call, Finish, Settle, GiveUp, EndTick, Keep, Save, GoTo
  <1>5. CASE Observe(p) \/ Fault(p) \/ Signal(p)
    BY <1>1, <1>5
    DEF Observe, Fault, TickError, Crash, Signal, GiveUp, EndTick, Save, GoTo, Leave
  <1> QED
    BY <1>2, <1>3, <1>4, <1>5 DEF StepOf

\* Whoever is inside the loop holds the lock, and the holder is inside.
HolderInside == \A p \in Procs : pc[p] \in Inside <=> holder = p

LEMMA HolderInsideStep ==
    ASSUME TypeOK, HolderInside, [Next]_vars
    PROVE  HolderInside'
  <1>1. CASE Elsewhere \/ UNCHANGED vars
    BY <1>1, ElsewhereFrame DEF HolderInside
  <1>2. ASSUME NEW p \in Procs, StepOf(p) PROVE HolderInside'
    <2>1. pc \in [Procs -> Locations] /\ \A q \in Procs \ {p} : pc'[q] = pc[q]
      BY <1>2, StepFrame DEF TypeOK
    <2>2. \/ holder' = holder /\ (pc'[p] \in Inside <=> pc[p] \in Inside)
          \/ holder = None /\ holder' = p /\ pc'[p] \in Inside
          \/ Leave(p)
      <3>1. CASE Start(p)
        BY <2>1, <3>1
        DEF Start, Build, SaveTarget, Construct, PersistBound, Enter, EnterResuming,
            Rejected, GoTo, At, Inside
      <3>2. CASE Turn(p)
        BY <2>1, <3>2
        DEF Turn, LeaveStopped, LeaveBounded, LeaveSignalled, BeginTick, Wake, WakeToStop,
            Return, Again, GoTo, At, Inside
      <3>3. CASE Work(p)
        BY <2>1, <3>3
        DEF Work, Reconcile, Refresh, Ingest, Ingested, Select, Idle, Dispatch, Refused,
            Commit, Call, Finish, Settle, GiveUp, GoTo, At, Inside
      <3>4. CASE Observe(p) \/ Fault(p) \/ Signal(p)
        BY <2>1, <3>4
        DEF Observe, Fault, TickError, Crash, Signal, GiveUp, GoTo, At, Inside, Fallible
      <3> QED
        BY <1>2, <3>1, <3>2, <3>3, <3>4 DEF StepOf
    <2>3. CASE holder' = holder /\ (pc'[p] \in Inside <=> pc[p] \in Inside)
      BY <2>1, <2>3 DEF HolderInside
    <2>4. CASE holder = None /\ holder' = p /\ pc'[p] \in Inside
      BY <2>1, <2>4, NamesDiffer DEF HolderInside
    <2>5. CASE Leave(p)
      BY <2>1, <2>5, NamesDiffer DEF HolderInside, Leave, GoTo, Inside
    <2> QED
      BY <2>2, <2>3, <2>4, <2>5
  <1> QED
    BY <1>1, <1>2, NextCases

\* Only a dispatch puts an item in progress.
LEMMA OnlyDispatchStarts ==
    ASSUME TypeInv, [Next]_vars, \A p \in Procs : ~Dispatch(p)
    PROVE  Running' \subseteq Running
  <1>1. items \in [Items -> ItemRecords]
    BY DEF TypeInv, TypeOK
  <1>2. CASE Elsewhere \/ UNCHANGED vars
    BY <1>1, <1>2
    DEF Elsewhere, ComesDue, StopLoad, StopSave, SignalNobody, ResumeLoad, ResumeSave,
        DecideLoad, Approve, Reject, supervisors, vars, Running, ItemRecords, TypeInv, TypeOK
  <1>3. ASSUME NEW p \in Procs, StepOf(p) PROVE Running' \subseteq Running
    <2>1. CASE Start(p)
      BY <2>1
      DEF Start, Build, SaveTarget, Construct, PersistBound, Enter, EnterResuming,
          Rejected, Running
    <2>2. CASE Turn(p)
      BY <2>2
      DEF Turn, LeaveStopped, LeaveBounded, LeaveSignalled, BeginTick, Wake, WakeToStop,
          Return, Again, Running
    <2>3. CASE Reconcile(p)
      BY <2>3, <1>1 DEF Reconcile, Parked, Running, ItemRecords
    <2>4. CASE Refresh(p)
      BY ZenonT(60), <2>4, <1>1 DEF Refresh, Refreshed, Requeued, Unblocked, Running, ItemRecords
    <2>5. CASE Ingest(p)
      BY <2>5, <1>1 DEF Ingest, Admitted, AdmissionState, Running, ItemRecords
    <2>6. CASE Finish(p)
      <3>1. mem[p].pick \in Items /\ mem[p].item \in ItemRecords
        BY <2>6, MemoryOperators DEF Finish, At, TypeInv, TypeOK, PickKnown, Carrying
      <3>2. PICK it \in ItemRecords : /\ items' = [items EXCEPT ![mem[p].pick] = it]
                                      /\ it.st # "in_progress"
        <4>1. PICK o \in Outcomes :
                 \E bs \in BlockersOf(o, mem[p].pick) :
                 \E due \in RetriesOf(o, mem[p].item.due) :
                 items' = [items EXCEPT ![mem[p].pick] =
                    [mem[p].item EXCEPT !.st = ItemAfter(o), !.due = due,
                                        !.blockers = @ \cup bs]]
          BY <2>6 DEF Finish
        <4>2. PICK bs \in BlockersOf(o, mem[p].pick) :
                 \E due \in RetriesOf(o, mem[p].item.due) :
                 items' = [items EXCEPT ![mem[p].pick] =
                    [mem[p].item EXCEPT !.st = ItemAfter(o), !.due = due,
                                        !.blockers = @ \cup bs]]
          BY <4>1
        <4>3. PICK due \in RetriesOf(o, mem[p].item.due) :
                 items' = [items EXCEPT ![mem[p].pick] =
                    [mem[p].item EXCEPT !.st = ItemAfter(o), !.due = due,
                                        !.blockers = @ \cup bs]]
          BY <4>2
        <4> DEFINE it == [mem[p].item EXCEPT !.st = ItemAfter(o), !.due = due,
                                             !.blockers = @ \cup bs]
        <4>4. it \in ItemRecords /\ ItemAfter(o) # "in_progress"
          BY <3>1, OutcomeOperators
        <4>5. it.st = ItemAfter(o)
          BY <3>1 DEF ItemRecords
        <4> QED
          BY <4>3, <4>4, <4>5
      <3> QED
        BY <3>1, <3>2, <1>1 DEF Running
    <2>7. CASE \/ Ingested(p) \/ Select(p) \/ Idle(p) \/ Refused(p) \/ Commit(p)
               \/ Call(p) \/ Settle(p) \/ Observe(p) \/ Fault(p) \/ Signal(p)
      BY <2>7
      DEF Ingested, Select, Idle, Refused, Commit, Call, Settle, Observe, Fault,
          TickError, Crash, Signal, Running
    <2> QED
      BY <1>3, <2>1, <2>2, <2>3, <2>4, <2>5, <2>6, <2>7 DEF StepOf, Work
  <1> QED
    BY <1>2, <1>3, NextCases

\* A process that selects or settles sees nothing in progress, one that carries
\* an item into its run at most that item, and nobody ever leaves two.
Clear     == Selecting \cup {"settle"}
Started   == {"commit", "call", "running"}
SerialInv ==
    /\ TypeInv /\ HolderInside
    /\ \A i, j \in Running : i = j
    /\ \A p \in Procs : pc[p] \in Clear => Running = {}
    /\ \A p \in Procs : pc[p] \in Started => Running \subseteq {mem[p].pick}

LEMMA InitSerialInv == Init => SerialInv
  BY InitTypeInv, NamesDiffer
  DEF Init, SerialInv, HolderInside, Running, NewItem, Inside, Clear, Selecting, Started

\* How a process comes to a place where nothing is in progress.
LEMMA ReachClear ==
    ASSUME TypeOK, NEW p \in Procs, StepOf(p), pc'[p] \in Clear
    PROVE  pc[p] \in Clear \/ Reconcile(p) \/ Finish(p)
  <1>1. pc \in [Procs -> Locations]
    BY DEF TypeOK
  <1>2. CASE Start(p)
    BY <1>1, <1>2
    DEF Start, Build, SaveTarget, Construct, PersistBound, Enter, EnterResuming, Rejected,
        GoTo, Leave, Clear, Selecting
  <1>3. CASE Turn(p)
    BY <1>1, <1>3
    DEF Turn, LeaveStopped, LeaveBounded, LeaveSignalled, BeginTick, Wake, WakeToStop,
        Return, Again, GoTo, Leave, Clear, Selecting
  <1>4. CASE Work(p)
    BY <1>1, <1>4
    DEF Work, Refresh, Ingest, Ingested, Select, Idle, Dispatch, Refused, Commit, Call,
        Settle, GiveUp, GoTo, At, Clear, Selecting
  <1>5. CASE Observe(p) \/ Fault(p) \/ Signal(p)
    BY <1>1, <1>5
    DEF Observe, Fault, TickError, Crash, Signal, GiveUp, GoTo, Leave, Clear, Selecting
  <1> QED
    BY <1>2, <1>3, <1>4, <1>5 DEF StepOf

\* How a process comes to run an item, and that it keeps its pick.
LEMMA ReachStarted ==
    ASSUME TypeOK, NEW p \in Procs, StepOf(p), pc'[p] \in Started
    PROVE  \/ Dispatch(p)
           \/ pc[p] \in Started /\ mem'[p].pick = mem[p].pick
  <1>1. pc \in [Procs -> Locations] /\ mem \in [Procs -> Memory]
    BY DEF TypeOK
  <1>2. CASE Start(p)
    BY <1>1, <1>2
    DEF Start, Build, SaveTarget, Construct, PersistBound, Enter, EnterResuming, Rejected,
        GoTo, Leave, Started
  <1>3. CASE Turn(p)
    BY <1>1, <1>3
    DEF Turn, LeaveStopped, LeaveBounded, LeaveSignalled, BeginTick, Wake, WakeToStop,
        Return, Again, GoTo, Leave, Started
  <1>4. CASE Work(p)
    <2>1. CASE Commit(p) \/ Call(p)
      BY <1>1, <2>1 DEF Commit, Call, Save, At, Started, Memory
    <2>2. CASE Ingest(p) \/ Reconcile(p) \/ Refresh(p) \/ Ingested(p) \/ Select(p)
      BY <1>1, <2>2
      DEF Ingest, Reconcile, Refresh, Ingested, Select, GoTo, At, Started
    <2>3. CASE Idle(p) \/ Refused(p) \/ Finish(p) \/ Settle(p)
      BY <1>1, <2>3 DEF Idle, Refused, Finish, Settle, GiveUp, GoTo, Started
    <2> QED
      BY <1>4, <2>1, <2>2, <2>3 DEF Work
  <1>5. CASE Observe(p) \/ Fault(p) \/ Signal(p)
    BY <1>1, <1>5
    DEF Observe, Fault, TickError, Crash, Signal, GiveUp, Save, GoTo, Leave, Started, Memory
  <1> QED
    BY <1>2, <1>3, <1>4, <1>5 DEF StepOf

LEMMA SerialStep == SerialInv /\ [Next]_vars => SerialInv'
  <1> SUFFICES ASSUME SerialInv, [Next]_vars PROVE SerialInv'
    OBVIOUS
  <1>1. TypeInv' /\ HolderInside'
    BY TypeStep, HolderInsideStep DEF SerialInv, TypeInv
  <1>2. TypeInv /\ TypeOK /\ HolderInside /\ items \in [Items -> ItemRecords]
        /\ pc \in [Procs -> Locations] /\ mem \in [Procs -> Memory]
    BY DEF SerialInv, TypeInv, TypeOK
  <1>3. CASE \A p \in Procs : ~Dispatch(p)
    <2>1. Running' \subseteq Running
      BY <1>2, <1>3, OnlyDispatchStarts
    <2>2. \A i, j \in Running' : i = j
      BY <2>1 DEF SerialInv
    <2>3. ASSUME NEW p \in Procs, pc'[p] \in Clear PROVE Running' = {}
      <3>1. CASE pc[p] \in Clear
        BY <2>1, <3>1 DEF SerialInv
      <3>2. CASE Reconcile(p)
        BY <1>2, <3>2 DEF Reconcile, Parked, Running, ItemRecords
      <3>3. CASE Finish(p)
        <4>1. mem[p].pick \in Items /\ mem[p].item \in ItemRecords
              /\ Running \subseteq {mem[p].pick}
          BY <1>2, <3>3, MemoryOperators
          DEF Finish, At, TypeInv, PickKnown, Carrying, SerialInv, Started
        <4>2. \E o \in Outcomes : items'[mem[p].pick].st = ItemAfter(o)
          BY <1>2, <3>3, <4>1 DEF Finish, ItemRecords
        <4>3. mem[p].pick \notin Running'
          BY <4>2 DEF Running, ItemAfter
        <4> QED
          BY <2>1, <4>1, <4>3
      <3>4. CASE pc'[p] = pc[p]
        BY <2>3, <3>1, <3>4
      <3> QED
        BY <1>2, <2>3, <3>1, <3>2, <3>3, <3>4, NextCases, ElsewhereFrame, StepFrame,
           ReachClear
    <2>4. ASSUME NEW p \in Procs, pc'[p] \in Started
          PROVE  Running' \subseteq {mem'[p].pick}
      <3>1. pc[p] \in Started /\ mem'[p].pick = mem[p].pick
        BY <1>2, <1>3, <2>4, NextCases, ElsewhereFrame, StepFrame, ReachStarted
      <3> QED
        BY <2>1, <3>1 DEF SerialInv
    <2> QED
      BY <1>1, <2>2, <2>3, <2>4 DEF SerialInv
  <1>4. ASSUME NEW p \in Procs, Dispatch(p) PROVE SerialInv'
    <2>1. mem[p].pick \in Items /\ Running = {} /\ holder = p
      BY <1>2, <1>4
      DEF Dispatch, At, SerialInv, TypeInv, PickKnown, Carrying, HolderInside, Inside,
          Clear, Selecting
    <2>2. Running' = {mem[p].pick}
      BY <1>2, <1>4, <2>1 DEF Dispatch, Running, ItemRecords
    <2>3. mem'[p].pick = mem[p].pick /\ pc'[p] = "commit"
      BY <1>2, <1>4 DEF Dispatch, GoTo, Memory
    <2>4. \A q \in Procs \ {p} : pc'[q] = pc[q] /\ pc[q] \notin Clear \cup Started
      BY <1>2, <1>4, <2>1, NamesDiffer
      DEF Dispatch, GoTo, HolderInside, Inside, Clear, Selecting, Started
    <2> QED
      BY <1>1, <2>2, <2>3, <2>4 DEF SerialInv, Clear, Selecting
  <1> QED
    BY <1>3, <1>4

\* However reads and saves of any number of processes, operators and owners
\* interleave, and wherever they crash, one item at most is in progress, and
\* none while another is selected.
THEOREM SerialWorkCorrect == Spec => []SerialWork
  <1>1. SerialInv => SerialWork
    BY DEF SerialInv, SerialWork, Clear
  <1> QED
    BY <1>1, InitSerialInv, SerialStep, PTL DEF Spec

-----------------------------------------------------------------------------
(* The budget and the record of a running dispatch                           *)

\* Nobody saves anything over a record but what was read from it: the count
\* and the current item that an operator command or a starting process read,
\* and the count a tick works with, are those on disk; and the item an owner
\* decides on still awaits the owner.
Agrees(r) == r.count = rec.count /\ r.cur = rec.cur
Ticking   == {"recon", "requeue", "ingest", "select", "dispatch", "commit", "call",
              "running", "settle", "after"}
Committing == {"recon", "requeue", "ingest", "select", "dispatch", "commit"}
FreshInv ==
    /\ cli.pc \in {"stop", "resume"} => Agrees(cli.copy)
    /\ \A p \in Procs : pc[p] \in {"built", "bound"} => Agrees(mem[p].rec)
    /\ \A p \in Procs : pc[p] \in Ticking => mem[p].rec.count = rec.count
    /\ \A p \in Procs : pc[p] \in InRun => mem[p].rec.cur = mem[p].pick
    /\ owner.item # None => items[owner.item].st = "awaiting_owner"

\* Every dispatch was counted, on disk, before it was begun, and a tick that
\* may still commit one works below the budget.
CountInv ==
    Budget > 0 => /\ rec.count <= Budget /\ runs <= rec.count
                  /\ \A p \in Procs : pc[p] = "call" => runs < rec.count
                  /\ \A p \in Procs : pc[p] \in Committing => rec.count < Budget

RecordInv ==
    \A p \in Procs :
        /\ pc[p] \in Started => items[mem[p].pick].st = "in_progress"
        /\ pc[p] \in InRun => rec.cur = mem[p].pick

QuietInv == SerialInv /\ FreshInv /\ CountInv /\ RecordInv

\* Nothing but a commit changes the count, and only the end of a dispatch its item.
LEMMA RecordFields ==
    \A r \in Records :
        /\ Reconciled(r).count = r.count /\ Reconciled(r).cur = r.cur
        /\ Stopped(r).count = r.count /\ Stopped(r).cur = r.cur
        /\ Idled(r).count = r.count /\ Idled(r).cur = r.cur
        /\ BoundedStop(r).count = r.count
        /\ \A s, f \in SupervisorStates :
              MoveOr(r, s, f).count = r.count /\ MoveOr(r, s, f).cur = r.cur
  BY DEF Records, Reconciled, Stopped, Idled, BoundedStop, MoveOr

LEMMA MoveOrFields ==
    ASSUME NEW r \in Records, NEW s \in SupervisorStates, NEW f \in SupervisorStates
    PROVE  /\ MoveOr(r, s, f) \in Records
           /\ MoveOr(r, s, f).count = r.count /\ MoveOr(r, s, f).cur = r.cur
  BY RecordOperators, RecordFields

LEMMA InitQuietInv == Init => QuietInv
  <1> SUFFICES ASSUME Init PROVE QuietInv
    OBVIOUS
  <1>1. SerialInv
    BY InitSerialInv
  <1>2. FreshInv /\ RecordInv
    BY DEF Init, FreshInv, RecordInv, Ticking, InRun, Started
  <1>3. CountInv
    BY CountsAreNaturals DEF Init, CountInv, NewRecord, Committing
  <1> QED
    BY <1>1, <1>2, <1>3 DEF QuietInv

\* What one step of a process does to the records it reads and saves, when no
\* command, decision or start is between its read and its save.
Effect(p) ==
    /\ pc'[p] \in {"built", "bound"} =>
          mem'[p].rec.count = rec'.count /\ mem'[p].rec.cur = rec'.cur
    /\ pc'[p] \in Ticking => mem'[p].rec.count = rec'.count
    /\ pc'[p] \in InRun => mem'[p].rec.cur = mem'[p].pick /\ rec'.cur = mem'[p].pick
    /\ pc'[p] \in Started => items'[mem'[p].pick].st = "in_progress"
    /\ Budget > 0 => /\ rec'.count <= Budget /\ runs' <= rec'.count
                     /\ pc'[p] = "call" => runs' < rec'.count
                     /\ pc'[p] \in Committing => rec'.count < Budget
    /\ pc[p] \notin Inside /\ holder # None => UNCHANGED <<rec, items, runs>>

\* A step that keeps the count on disk and the runs, and runs nothing.
LEMMA PlainEffect ==
    ASSUME QuietInv, NEW p \in Procs, rec' \in Records,
           rec'.count = rec.count, runs' = runs,
           pc'[p] \notin InRun \cup Started \cup {"call"},
           pc'[p] \in {"built", "bound"} =>
               mem'[p].rec.count = rec'.count /\ mem'[p].rec.cur = rec'.cur,
           pc'[p] \in Ticking => mem'[p].rec.count = rec'.count,
           pc'[p] \in Committing => pc[p] \in Committing \/ ~LimitReached(rec),
           pc[p] \notin Inside /\ holder # None => UNCHANGED <<rec, items, runs>>
    PROVE  Effect(p)
  <1>1. rec.count \in Nat /\ runs \in Nat /\ Budget \in Nat
    BY CountsAreNaturals DEF QuietInv, SerialInv, TypeInv, TypeOK, Records
  <1> QED
    BY <1>1 DEF Effect, QuietInv, CountInv, LimitReached, InRun, Started

LEMMA StartEffect ==
    ASSUME QuietInv, NEW p \in Procs, Start(p), pc[p] \notin {"built", "bound"}
    PROVE  Effect(p)
  <1>1. /\ rec \in Records /\ Reconciled(rec) \in Records /\ Idled(rec) \in Records
        /\ pc \in [Procs -> Locations] /\ mem \in [Procs -> Memory]
        /\ holder = p => pc[p] \in Inside
    BY RecordOperators DEF QuietInv, SerialInv, HolderInside, TypeInv, TypeOK
  <1>2. runs' = runs /\ items' = items
    BY DEF Start, Build, SaveTarget, Construct, PersistBound, Enter, EnterResuming,
           Rejected, outside, history
  <1>3. CASE Build(p) \/ Construct(p)
    <2>1. rec' = rec /\ mem'[p].rec = Reconciled(rec)
          /\ pc'[p] \in {"built", "bound", "entry"} /\ pc[p] \notin Inside
      BY <1>1, <1>3 DEF Build, Construct, Keep, GoTo, At, Inside, Memory
    <2> QED
      BY <1>1, <1>2, <2>1, RecordFields, PlainEffect DEF InRun, Started, Ticking, Committing
  <1>4. CASE Enter(p) \/ EnterResuming(p)
    <2>1. rec' \in {rec, Idled(rec)} /\ pc'[p] = "loop" /\ holder = None
      BY <1>1, <1>4 DEF Enter, EnterResuming, Save, Keep, GoTo
    <2> QED
      BY <1>1, <1>2, <2>1, RecordFields, PlainEffect DEF InRun, Started, Ticking, Committing
  <1>5. CASE Rejected(p)
    <2>1. rec' = rec /\ pc'[p] = "off"
      BY <1>1, <1>5 DEF Rejected, Leave, GoTo
    <2> QED
      BY <1>1, <1>2, <2>1, PlainEffect DEF InRun, Started, Ticking, Committing
  <1> QED
    BY <1>3, <1>4, <1>5 DEF Start, SaveTarget, PersistBound, At

LEMMA TurnEffect ==
    ASSUME QuietInv, NEW p \in Procs, Turn(p)
    PROVE  Effect(p)
  <1>1. /\ rec \in Records /\ mem[p].rec \in Records
        /\ Reconciled(rec) \in Records /\ Stopped(rec) \in Records
        /\ BoundedStop(rec) \in Records /\ Stopped(mem[p].rec) \in Records
        /\ pc \in [Procs -> Locations] /\ mem \in [Procs -> Memory]
    BY RecordOperators, MemoryOperators DEF QuietInv, SerialInv, TypeInv, TypeOK
  <1>2. runs' = runs /\ items' = items /\ pc[p] \in Inside
    BY DEF Turn, LeaveStopped, LeaveBounded, LeaveSignalled, BeginTick, Wake, WakeToStop,
           Return, Again, outside, history, At, Inside
  <1>3. CASE LeaveStopped(p) \/ LeaveBounded(p) \/ LeaveSignalled(p) \/ Return(p)
    <2>1. pc'[p] = "off"
      BY <1>1, <1>3 DEF LeaveStopped, LeaveBounded, LeaveSignalled, Return, Leave, GoTo
    <2>2. rec' \in {rec, BoundedStop(rec), Stopped(rec), Stopped(mem[p].rec)}
      BY <1>3 DEF LeaveStopped, LeaveBounded, LeaveSignalled, Return
    <2>3. At(p, "after") => mem[p].rec.count = rec.count
      BY DEF At, QuietInv, FreshInv, Ticking
    <2>4. rec' \in Records /\ rec'.count = rec.count
      BY <1>1, <1>3, <2>3, RecordFields
      DEF LeaveStopped, LeaveBounded, LeaveSignalled, Return
    <2> QED
      BY <1>1, <1>2, <2>1, <2>4, PlainEffect DEF InRun, Started, Ticking, Committing
  <1>4. CASE BeginTick(p)
    <2>1. pc'[p] = "tick" /\ rec' = rec
      BY <1>1, <1>4 DEF BeginTick, Keep, GoTo
    <2> QED
      BY <1>1, <1>2, <2>1, PlainEffect DEF InRun, Started, Ticking, Committing
  <1>5. CASE Wake(p)
    <2>1. /\ pc'[p] = "recon" /\ rec' = Reconciled(rec) /\ mem'[p].rec = rec'
          /\ ~LimitReached(rec)
      BY <1>1, <1>5 DEF Wake, Save, GoTo, Memory
    <2> QED
      BY <1>1, <1>2, <2>1, RecordFields, PlainEffect DEF InRun, Started
  <1>6. CASE WakeToStop(p)
    <2>1. pc'[p] = "after" /\ rec' \in {rec, BoundedStop(rec)} /\ mem'[p].rec = rec'
      BY <1>1, <1>6 DEF WakeToStop, Save, Keep, GoTo, Memory
    <2> QED
      BY <1>1, <1>2, <2>1, RecordFields, PlainEffect DEF InRun, Started, Committing
  <1>7. CASE Again(p)
    <2>1. pc'[p] = "loop" /\ rec' = mem[p].rec /\ mem[p].rec.count = rec.count
      BY <1>1, <1>7 DEF Again, GoTo, At, QuietInv, FreshInv, Ticking
    <2> QED
      BY <1>1, <1>2, <2>1, PlainEffect DEF InRun, Started, Ticking, Committing
  <1> QED
    BY <1>3, <1>4, <1>5, <1>6, <1>7 DEF Turn

LEMMA WorkEffect ==
    ASSUME QuietInv, NEW p \in Procs, Work(p) \/ Observe(p)
    PROVE  Effect(p)
  <1>1. /\ rec \in Records /\ mem[p] \in Memory /\ mem[p].rec \in Records
        /\ Stopped(mem[p].rec) \in Records /\ [mem[p].rec EXCEPT !.cur = None] \in Records
        /\ \A s, f \in SupervisorStates : MoveOr(mem[p].rec, s, f) \in Records
        /\ pc \in [Procs -> Locations] /\ mem \in [Procs -> Memory]
        /\ items \in [Items -> ItemRecords]
    BY RecordOperators, MemoryOperators DEF QuietInv, SerialInv, TypeInv, TypeOK
  <1>2. pc[p] \in Ticking /\ pc[p] \in Inside /\ mem[p].rec.count = rec.count
    BY DEF Work, Observe, Reconcile, Refresh, Ingest, Ingested, Select, Idle, Dispatch,
           Refused, Commit, Call, Finish, Settle, At, Inside, Ticking, QuietInv, FreshInv
  <1>3. rec.count \in Nat /\ runs \in Nat /\ Budget \in Nat
    BY CountsAreNaturals DEF QuietInv, SerialInv, TypeInv, TypeOK, Records
  <1>4. CASE Reconcile(p) \/ Refresh(p) \/ Ingest(p) \/ Select(p)
    <2>1. rec' = rec /\ runs' = runs
      BY <1>4 DEF Reconcile, Refresh, Ingest, Select, Keep, outside, history
    <2>2. mem'[p].rec.count = mem[p].rec.count
      <3>1. CASE Reconcile(p)
        BY <1>1, <3>1 DEF Reconcile, Keep, Memory, Records
      <3>2. CASE Ingest(p)
        BY <1>1, <3>2 DEF Ingest, Memory, Records
      <3>3. CASE Refresh(p) \/ Select(p)
        BY <1>1, <3>3 DEF Refresh, Select, Memory
      <3> QED
        BY <1>4, <3>1, <3>2, <3>3
    <2>3. pc'[p] \in {"requeue", "ingest", "dispatch"} /\ pc[p] \in Committing
      BY <1>1, <1>4 DEF Reconcile, Refresh, Ingest, Select, GoTo, At, Committing
    <2> QED
      BY <1>1, <1>2, <2>1, <2>2, <2>3, PlainEffect DEF InRun, Started
  <1>5. CASE Ingested(p) \/ Idle(p)
    <2>1. runs' = runs /\ items' = items /\ pc'[p] \in {"select", "after"}
          /\ pc[p] \in Committing
      BY <1>1, <1>5 DEF Ingested, Idle, outside, history, GoTo, At, Committing
    <2>2. rec' \in Records /\ rec'.count = rec.count /\ mem'[p].rec.count = rec.count
      <3>1. CASE Ingested(p)
        BY <1>1, <1>2, <3>1, RecordFields DEF Ingested, Save, Keep, Memory
      <3>2. CASE Idle(p)
        <4>1. PICK s \in {"provider", "work"} : Save(p, MoveOr(mem[p].rec, s, "backoff"))
          BY <3>2 DEF Idle
        <4>2. s \in SupervisorStates /\ "backoff" \in SupervisorStates
          BY DEF SupervisorStates
        <4>3. MoveOr(mem[p].rec, s, "backoff") \in Records
              /\ MoveOr(mem[p].rec, s, "backoff").count = mem[p].rec.count
          BY <1>1, <4>2, MoveOrFields
        <4> QED
          BY <1>1, <1>2, <4>1, <4>3 DEF Save, Memory
      <3> QED
        BY <1>5, <3>1, <3>2
    <2> QED
      BY <1>1, <1>2, <2>1, <2>2, PlainEffect DEF InRun, Started, Committing
  <1>6. CASE Dispatch(p)
    <2>1. mem[p].pick \in Items
      BY <1>6 DEF Dispatch, At, QuietInv, SerialInv, TypeInv, PickKnown, Carrying
    <2>2. /\ rec' = rec /\ runs' = runs /\ pc'[p] = "commit" /\ pc[p] \in Committing
          /\ mem'[p].rec = mem[p].rec /\ mem'[p].pick = mem[p].pick
          /\ items'[mem[p].pick].st = "in_progress"
      BY <1>1, <1>6, <2>1
      DEF Dispatch, GoTo, At, Committing, Memory, ItemRecords, outside, history
    <2> QED
      BY <1>1, <1>2, <1>3, <2>2
      DEF Effect, InRun, Committing, QuietInv, CountInv
  <1>7. CASE Refused(p)
    <2>1. rec' = rec /\ runs' = runs /\ items' = items /\ pc'[p] = "after"
      BY <1>1, <1>7 DEF Refused, GiveUp, GoTo, outside, history
    <2>2. mem'[p].rec = MoveOr(mem[p].rec, "backoff", mem[p].rec.state)
      BY <1>1, <1>7, MemoryOperators DEF Refused, GiveUp, EndTick, Blank
    <2>3. mem'[p].rec.count = rec.count
      <3>1. mem[p].rec.state \in SupervisorStates /\ "backoff" \in SupervisorStates
        BY <1>1 DEF Records, SupervisorStates
      <3> QED
        BY <1>1, <1>2, <2>2, <3>1, MoveOrFields
    <2> QED
      BY <1>1, <1>2, <2>1, <2>3, PlainEffect DEF InRun, Started, Committing
  <1>8. CASE Commit(p)
    <2>1. /\ rec' = [mem[p].rec EXCEPT !.state = "dispatching", !.cur = mem[p].pick,
                         !.count = IF Budget > 0 THEN @ + 1 ELSE @]
          /\ mem' = [mem EXCEPT ![p].rec = rec'] /\ pc'[p] = "call" /\ pc[p] = "commit"
          /\ runs' = runs /\ items' = items
      BY <1>1, <1>8 DEF Commit, Save, GoTo, At, outside, history
    <2>2. /\ rec'.cur = mem[p].pick
          /\ rec'.count = IF Budget > 0 THEN rec.count + 1 ELSE rec.count
      BY <1>1, <1>2, <2>1 DEF Records
    <2>3. mem'[p].rec = rec' /\ mem'[p].pick = mem[p].pick
      BY <1>1, <2>1 DEF Memory
    <2>4. items[mem[p].pick].st = "in_progress"
      BY <2>1 DEF QuietInv, RecordInv, Started
    <2>5. Budget > 0 => rec.count < Budget /\ runs <= rec.count
      BY <2>1 DEF QuietInv, CountInv, Committing
    <2>6. Budget > 0 => /\ rec'.count <= Budget
                         /\ runs' < rec'.count /\ runs' <= rec'.count
      BY <1>3, <2>1, <2>2, <2>5
    <2>8. /\ mem'[p].rec.count = rec'.count /\ mem'[p].rec.cur = mem'[p].pick
          /\ rec'.cur = mem'[p].pick /\ items'[mem'[p].pick].st = "in_progress"
      BY <2>1, <2>2, <2>3, <2>4
    <2>7. pc'[p] \notin Committing /\ pc'[p] \notin {"built", "bound"}
      BY <2>1 DEF Committing
    <2> QED
      BY <1>2, <2>6, <2>7, <2>8 DEF Effect
  <1>9. CASE Call(p)
    <2>1. /\ pc[p] = "call" /\ pc'[p] = "running" /\ mem' = mem /\ rec' = rec
          /\ items' = items /\ runs' = runs + 1
      BY <1>1, <1>9 DEF Call, GoTo, At
    <2> QED
      BY <1>2, <1>3, <2>1
      DEF Effect, QuietInv, CountInv, FreshInv, RecordInv, InRun, Started, Committing
  <1>10. CASE Observe(p)
    <2>1. /\ pc[p] = "running" /\ pc'[p] = "running" /\ rec' = mem[p].rec
          /\ mem'[p].rec = rec' /\ mem'[p].pick = mem[p].pick
          /\ items' = items /\ runs' = runs
      BY <1>1, <1>10 DEF Observe, Save, At, outside, history, Memory
    <2> QED
      BY <1>2, <1>3, <2>1
      DEF Effect, QuietInv, CountInv, FreshInv, RecordInv, InRun, Started, Committing
  <1>11. CASE Finish(p)
    <2>1. rec' = rec /\ runs' = runs /\ pc'[p] = "settle"
      BY <1>1, <1>11 DEF Finish, GoTo
    <2>2. mem'[p].rec = mem[p].rec
      BY <1>1, <1>11 DEF Finish, Memory
    <2> QED
      BY <1>1, <1>2, <2>1, <2>2, PlainEffect DEF InRun, Started, Committing
  <1>12. CASE Settle(p)
    <2> DEFINE r == [mem[p].rec EXCEPT !.cur = None]
    <2>1. r \in Records /\ r.count = rec.count /\ mem[p].next \in SupervisorStates
      BY <1>1, <1>2 DEF Records, Memory
    <2>2. /\ BoundedStop(r) \in Records /\ BoundedStop(r).count = rec.count
          /\ MoveOr(r, mem[p].next, "backoff") \in Records
          /\ MoveOr(r, mem[p].next, "backoff").count = rec.count
      <3> HIDE DEF r
      <3> QED
        BY <2>1, RecordOperators, RecordFields DEF SupervisorStates
    <2>3. rec' \in Records /\ rec'.count = rec.count
      BY <1>12, <2>2 DEF Settle
    <2>4. runs' = runs /\ items' = items /\ pc'[p] = "after"
      BY <1>1, <1>12 DEF Settle, GoTo, outside, history
    <2>5. mem'[p].rec = rec'
      BY <1>1, <1>12 DEF Settle, EndTick, Blank
    <2> QED
      BY <1>1, <1>2, <2>3, <2>4, <2>5, PlainEffect DEF InRun, Started, Committing
  <1> QED
    BY <1>4, <1>5, <1>6, <1>7, <1>8, <1>9, <1>10, <1>11, <1>12 DEF Work

LEMMA FaultEffect ==
    ASSUME QuietInv, NEW p \in Procs, Fault(p) \/ Signal(p),
           pc[p] \notin {"built", "bound"}
    PROVE  Effect(p)
  <1>1. /\ rec \in Records /\ mem[p] \in Memory /\ mem[p].rec \in Records
        /\ pc \in [Procs -> Locations] /\ mem \in [Procs -> Memory]
        /\ mem[p].rec.state \in SupervisorStates
    BY RecordOperators, MemoryOperators DEF QuietInv, SerialInv, TypeInv, TypeOK
  <1>2. CASE TickError(p)
    <2>1. rec' = rec /\ runs' = runs /\ items' = items /\ pc'[p] = "after"
          /\ pc[p] \in Ticking \cap Inside
      BY <1>1, <1>2 DEF TickError, GiveUp, GoTo, Fallible, Ticking, Inside
    <2>2. mem'[p].rec = MoveOr(mem[p].rec, "backoff", mem[p].rec.state)
      BY <1>1, <1>2, MemoryOperators DEF TickError, GiveUp, EndTick, Blank
    <2>3. mem'[p].rec.count = rec.count
      BY <1>1, <2>1, <2>2, RecordFields DEF SupervisorStates, QuietInv, FreshInv
    <2> QED
      BY <1>1, <2>1, <2>3, PlainEffect DEF InRun, Started, Committing
  <1>3. CASE Crash(p)
    <2>1. rec' = rec /\ runs' = runs /\ items' = items /\ pc'[p] = "off"
      BY <1>1, <1>3 DEF Crash, Leave, GoTo
    <2> QED
      BY <1>1, <2>1, PlainEffect DEF InRun, Started, Ticking, Committing
  <1>4. CASE Signal(p) /\ pc[p] \in Building
    <2>1. rec' = rec /\ runs' = runs /\ items' = items /\ pc'[p] = "off"
      BY <1>1, <1>4 DEF Signal, Leave, GoTo, history
    <2> QED
      BY <1>1, <2>1, PlainEffect DEF InRun, Started, Ticking, Committing
  <1>5. CASE Signal(p) /\ pc[p] \notin Building
    <2>1. rec' = rec /\ runs' = runs /\ items' = items /\ pc' = pc
          /\ mem'[p].rec = mem[p].rec /\ mem'[p].pick = mem[p].pick
      BY <1>1, <1>5 DEF Signal, history, Memory
    <2> QED
      BY <1>1, <2>1
      DEF Effect, QuietInv, FreshInv, CountInv, RecordInv, Building
  <1> QED
    BY <1>2, <1>3, <1>4, <1>5 DEF Fault

\* A save that completes what a command, a decision or a start has read leaves
\* the count, the current item and the running item as they are.
LEMMA CompletingEffect ==
    ASSUME QuietInv, Completing
    PROVE  /\ rec'.count = rec.count /\ rec'.cur = rec.cur /\ runs' = runs
           /\ cli' = cli \/ cli'.pc \notin {"stop", "resume"}
           /\ owner' = owner \/ owner'.item = None
           /\ \A p \in Procs : pc'[p] = pc[p] \/ pc'[p] \in {"ctor", "entry"}
           /\ \A p \in Procs : mem'[p].rec = mem[p].rec /\ mem'[p].pick = mem[p].pick
           /\ \A i \in Items : i # owner.item => items'[i] = items[i]
           /\ owner' = owner => items' = items
  <1>1. /\ rec \in Records /\ cli.copy \in Records
        /\ mem \in [Procs -> Memory] /\ pc \in [Procs -> Locations]
        /\ items \in [Items -> ItemRecords]
    BY DEF QuietInv, SerialInv, TypeInv, TypeOK
  <1>2. CASE StopSave \/ ResumeSave
    <2>1. Agrees(cli.copy)
      BY <1>2 DEF StopSave, ResumeSave, QuietInv, FreshInv
    <2>2. rec' \in {rec, Stopped(cli.copy), Idled(cli.copy)} /\ UNCHANGED <<pc, mem, supervisors>>
      BY <1>2 DEF StopSave, ResumeSave, supervisors
    <2>3. cli'.pc \notin {"stop", "resume"}
      BY <1>2 DEF StopSave, ResumeSave
    <2> QED
      BY <1>1, <2>1, <2>2, <2>3, RecordFields DEF Agrees, supervisors, history
  <1>3. CASE Approve \/ Reject
    BY <1>1, <1>3 DEF Approve, Reject
  <1>4. ASSUME NEW p \in Procs, SaveTarget(p) \/ PersistBound(p)
        PROVE  /\ rec' = mem[p].rec /\ Agrees(mem[p].rec)
               /\ mem' = [mem EXCEPT ![p].rec = mem[p].rec]
               /\ pc' \in {[pc EXCEPT ![p] = "ctor"], [pc EXCEPT ![p] = "entry"]}
               /\ UNCHANGED <<items, holder, outside>>
    BY <1>4 DEF SaveTarget, PersistBound, Save, GoTo, At, QuietInv, FreshInv
  <1>5. ASSUME NEW p \in Procs, SaveTarget(p) \/ PersistBound(p)
        PROVE  /\ mem' = mem /\ rec'.count = rec.count /\ rec'.cur = rec.cur
               /\ \A q \in Procs : pc'[q] = pc[q] \/ pc'[q] \in {"ctor", "entry"}
               /\ runs' = runs /\ cli' = cli /\ owner' = owner /\ items' = items
    BY <1>1, <1>4, <1>5 DEF Agrees, outside, operators, history, Memory
  <1> QED
    BY <1>2, <1>3, <1>5 DEF Completing

LEMMA QuietStep == QuietInv /\ [QuietNext]_vars => QuietInv'
  <1> SUFFICES ASSUME QuietInv, [QuietNext]_vars PROVE QuietInv'
    OBVIOUS
  <1>1. [Next]_vars
    BY DEF QuietNext, Completing, Next, Command, Start
  <1>2. SerialInv' /\ SerialInv /\ TypeOK /\ TypeInv /\ HolderInside
    BY <1>1, SerialStep DEF QuietInv, SerialInv, TypeInv
  <1>3. CASE UNCHANGED vars
    BY <1>2, <1>3 DEF vars, QuietInv, FreshInv, CountInv, RecordInv, Agrees
  <1>4. CASE Completing
    <2>1. FreshInv'
      BY <1>4, CompletingEffect
      DEF QuietInv, FreshInv, Agrees, Ticking, InRun
    <2>2. CountInv'
      BY <1>4, CompletingEffect DEF QuietInv, CountInv, Committing
    <2>3. RecordInv'
      <3>1. ASSUME NEW p \in Procs, pc'[p] \in Started
            PROVE  items'[mem'[p].pick].st = "in_progress"
        <4>1. pc[p] \in Started /\ mem'[p].pick = mem[p].pick
          BY <1>4, <3>1, CompletingEffect DEF Started
        <4>2. mem[p].pick \in Items /\ items[mem[p].pick].st = "in_progress"
          BY <1>2, <4>1
          DEF QuietInv, RecordInv, TypeInv, PickKnown, Started, Carrying
        <4>3. owner.item # mem[p].pick
          BY <1>2, <4>2, NamesDiffer DEF QuietInv, FreshInv
        <4> QED
          BY <1>4, <4>1, <4>2, <4>3, CompletingEffect
      <3>2. ASSUME NEW p \in Procs, pc'[p] \in InRun PROVE rec'.cur = mem'[p].pick
        <4>1. pc[p] \in InRun
          BY <1>4, <3>2, CompletingEffect DEF InRun
        <4> QED
          BY <1>4, <4>1, CompletingEffect DEF QuietInv, RecordInv
      <3> QED
        BY <3>1, <3>2 DEF RecordInv
    <2> QED
      BY <1>2, <2>1, <2>2, <2>3 DEF QuietInv
  <1>5. ASSUME ~Pending, NEW p \in Procs, StepOf(p) PROVE QuietInv'
    <2>1. /\ cli.pc \notin {"stop", "resume"} /\ owner.item = None
          /\ \A q \in Procs : pc[q] \notin {"built", "bound"}
      BY <1>5 DEF Pending
    <2>2. Effect(p)
      BY <1>5, <2>1, StartEffect, TurnEffect, WorkEffect, FaultEffect DEF StepOf
    <2>3. \A q \in Procs \ {p} : pc'[q] = pc[q] /\ mem'[q] = mem[q]
      BY <1>2, <1>5, StepFrame
    <2>4. cli' = cli \/ cli'.pc = "idle"
      <3>1. CASE Signal(p)
        <4>1. cli \in [pc : {"idle", "stop", "signal", "resume"}, copy : Records]
          BY <1>2 DEF TypeOK
        <4>2. cli' = [cli EXCEPT !.pc = "idle"]
          BY <3>1 DEF Signal
        <4> QED
          BY <4>1, <4>2
      <3>2. CASE ~Signal(p)
        BY <1>5, <3>2
        DEF StepOf, Start, Build, SaveTarget, Construct, PersistBound, Enter,
            EnterResuming, Rejected, Turn, LeaveStopped, LeaveBounded, LeaveSignalled,
            BeginTick, Wake, WakeToStop, Return, Again, Work, Reconcile, Refresh, Ingest,
            Ingested, Select, Idle, Dispatch, Refused, Commit, Call, Finish, Settle,
            Observe, Fault, TickError, Crash, outside, operators
      <3> QED
        BY <3>1, <3>2
    <2>5. owner' = owner
      BY <1>5, <2>1
      DEF StepOf, Start, Build, SaveTarget, Construct, PersistBound, Enter, EnterResuming,
          Rejected, Turn, LeaveStopped, LeaveBounded, LeaveSignalled, BeginTick, Wake,
          WakeToStop, Return, Again, Work, Reconcile, Refresh, Ingest, Ingested, Select,
          Idle, Dispatch, Refused, Commit, Call, Finish, Settle, Observe, Fault, TickError,
          Crash, Signal, outside, operators
    <2>6. ASSUME NEW q \in Procs, q # p, pc[q] \in Inside
          PROVE  UNCHANGED <<rec, items, runs>>
      BY <1>2, <1>5, <2>2, <2>6, NamesDiffer DEF Effect, HolderInside
    <2>7. FreshInv'
      <3>1. \A q \in Procs : pc'[q] \in {"built", "bound"} =>
                mem'[q].rec.count = rec'.count /\ mem'[q].rec.cur = rec'.cur
        BY <2>1, <2>2, <2>3 DEF Effect
      <3>2. \A q \in Procs : pc'[q] \in Ticking => mem'[q].rec.count = rec'.count
        BY <2>2, <2>3, <2>6 DEF Effect, Ticking, Inside, QuietInv, FreshInv
      <3>3. \A q \in Procs : pc'[q] \in InRun => mem'[q].rec.cur = mem'[q].pick
        BY <2>2, <2>3 DEF Effect, QuietInv, FreshInv
      <3> QED
        BY <2>1, <2>4, <2>5, <3>1, <3>2, <3>3 DEF FreshInv, Agrees
    <2>8. CountInv'
      <3>1. ASSUME Budget > 0, NEW q \in Procs
            PROVE  /\ pc'[q] = "call" => runs' < rec'.count
                   /\ pc'[q] \in Committing => rec'.count < Budget
        <4>1. CASE q = p
          BY <2>2, <3>1, <4>1 DEF Effect
        <4>2. CASE q # p /\ pc[q] \in Inside
          BY <2>3, <2>6, <3>1, <4>2 DEF QuietInv, CountInv
        <4>3. CASE q # p /\ pc[q] \notin Inside
          BY <2>3, <4>3 DEF Inside, Committing
        <4> QED
          BY <4>1, <4>2, <4>3
      <3> QED
        BY <2>2, <3>1 DEF Effect, CountInv
    <2>9. RecordInv'
      <3>1. ASSUME NEW q \in Procs
            PROVE  /\ pc'[q] \in Started => items'[mem'[q].pick].st = "in_progress"
                   /\ pc'[q] \in InRun => rec'.cur = mem'[q].pick
        <4>1. CASE q = p
          BY <2>2, <4>1 DEF Effect
        <4>2. CASE q # p /\ pc[q] \in Inside
          BY <2>3, <2>6, <4>2 DEF QuietInv, RecordInv
        <4>3. CASE q # p /\ pc[q] \notin Inside
          BY <2>3, <4>3 DEF Inside, Started, InRun
        <4> QED
          BY <4>1, <4>2, <4>3
      <3> QED
        BY <3>1 DEF RecordInv
    <2> QED
      BY <1>2, <2>7, <2>8, <2>9 DEF QuietInv
  <1>6. CASE ~Pending /\ Elsewhere
    <2>1. UNCHANGED <<pc, mem, runs>>
      BY <1>6, ElsewhereFrame
    <2>2. rec \in Records /\ items \in [Items -> ItemRecords]
          /\ owner.item = None /\ cli.pc \notin {"stop", "resume"}
      BY <1>2, <1>6 DEF TypeOK, Pending
    <2>3. rec' = rec
      BY <1>6, <2>2
      DEF Elsewhere, ComesDue, StopLoad, StopSave, SignalNobody, ResumeLoad, ResumeSave,
          DecideLoad, Approve, Reject, outside
    <2>4. cli'.pc \in {"stop", "resume"} => Agrees(cli'.copy)
      <3>1. CASE StopLoad
        BY <2>2, <2>3, <3>1, RecordFields DEF StopLoad, Agrees
      <3>2. CASE ResumeLoad
        BY <2>2, <2>3, <3>2 DEF ResumeLoad, Agrees
      <3>3. CASE StopSave \/ ResumeSave
        BY <2>2, <3>3 DEF StopSave, ResumeSave
      <3>4. CASE SignalNobody
        <4>1. cli \in [pc : {"idle", "stop", "signal", "resume"}, copy : Records]
          BY <1>2 DEF TypeOK
        <4>2. cli' = [cli EXCEPT !.pc = "idle"]
          BY <3>4 DEF SignalNobody
        <4> QED
          BY <4>1, <4>2
      <3>5. CASE ComesDue \/ DecideLoad \/ Approve \/ Reject
        <4>1. cli' = cli
          BY <3>5 DEF ComesDue, DecideLoad, Approve, Reject, outside, operators
        <4> QED
          BY <2>2, <4>1
      <3> QED
        BY <1>6, <3>1, <3>2, <3>3, <3>4, <3>5 DEF Elsewhere
    <2>5. \A i \in Items : items'[i].st = items[i].st
      BY <1>6, <2>2
      DEF Elsewhere, ComesDue, StopLoad, StopSave, SignalNobody, ResumeLoad, ResumeSave,
          DecideLoad, Approve, Reject, supervisors, ItemRecords
    <2>6. owner'.item # None => owner'.item \in Items /\ items[owner'.item].st = "awaiting_owner"
      BY <1>6, <2>2
      DEF Elsewhere, ComesDue, StopLoad, StopSave, SignalNobody, ResumeLoad, ResumeSave,
          DecideLoad, Approve, Reject, supervisors, outside, operators
    <2>7. \A p \in Procs : pc[p] \in Started => mem[p].pick \in Items
      BY <1>2 DEF TypeInv, PickKnown, Started, Carrying
    <2> QED
      BY <1>2, <2>1, <2>3, <2>4, <2>5, <2>6, <2>7
      DEF QuietInv, FreshInv, CountInv, RecordInv, Agrees
  <1> QED
    BY <1>3, <1>4, <1>5, <1>6, NextCases, <1>1 DEF QuietNext

LEMMA QuietInvariant == QuietSpec => []QuietInv
  BY InitQuietInv, QuietStep, PTL DEF QuietSpec

\* Whatever crashes, fails, stops, resumes or restarts, a bounded factory whose
\* reads and saves do not overlap never begins more dispatches than its budget.
THEOREM BudgetCorrect == QuietSpec => []BudgetRespected
  <1>1. QuietInv => BudgetRespected
    <2> SUFFICES ASSUME QuietInv, Budget > 0 PROVE runs <= Budget
      BY DEF BudgetRespected
    <2>1. rec.count \in Nat /\ runs \in Nat /\ Budget \in Nat
      BY CountsAreNaturals DEF QuietInv, SerialInv, TypeInv, TypeOK, Records
    <2> QED
      BY <2>1 DEF QuietInv, CountInv
  <1> QED
    BY <1>1, QuietInvariant, PTL

\* And while a dispatch runs, the record on disk names its item, which is in
\* progress.
THEOREM RunIsOnRecordCorrect == QuietSpec => []RunIsOnRecord
  <1>1. QuietInv => RunIsOnRecord
    BY DEF QuietInv, RecordInv, RunIsOnRecord, InRun, Started
  <1> QED
    BY <1>1, QuietInvariant, PTL

-----------------------------------------------------------------------------
(* What a signalled supervisor leaves behind                                 *)

\* Only a process inside the loop has a signal to remember.
StopInside == \A p \in Procs : mem[p].stop => pc[p] \in Inside

\* A step of p itself: where it goes with a signal, and what it leaves when it ends.
LEMMA StopStep ==
    ASSUME TypeOK, HolderInside, StopInside, NEW p \in Procs, StepOf(p)
    PROVE  /\ mem'[p].stop => pc'[p] \in Inside
           /\ mem[p].stop /\ pc'[p] = "off" /\ faults' = faults => rec'.state = "stopped"
  <1>1. pc \in [Procs -> Locations] /\ mem \in [Procs -> Memory] /\ rec \in Records
        /\ mem[p].rec \in Records /\ faults \in Nat
    BY DEF TypeOK, Memory
  <1>2. ~Blank.stop /\ \A r \in Records : [Blank EXCEPT !.rec = r, !.stop = mem[p].stop].stop = mem[p].stop
    BY DEF Blank
  <1>3. CASE Start(p)
    <2>1. ~mem[p].stop \/ pc[p] \in Inside
      BY DEF StopInside
    <2>2. pc[p] \notin Inside
      BY <1>3 DEF Start, Build, SaveTarget, Construct, PersistBound, Enter, EnterResuming, Rejected,
             At, Inside
    <2>3. mem'[p].stop = FALSE \/ mem'[p].stop = mem[p].stop
      BY <1>1, <1>2, <1>3
      DEF Start, Build, SaveTarget, Construct, PersistBound, Enter, EnterResuming, Rejected,
          Keep, Save, Leave, Memory
    <2> QED
      BY <2>1, <2>2, <2>3
  <1>4. CASE Turn(p)
    <2>1. CASE LeaveStopped(p) \/ LeaveBounded(p) \/ LeaveSignalled(p) \/ Return(p)
      <3>1. mem'[p] = Blank
        BY <1>1, <2>1 DEF LeaveStopped, LeaveBounded, LeaveSignalled, Return, Leave
      <3>2. rec'.state = "stopped"
        BY <1>1, <2>1
        DEF LeaveStopped, LeaveBounded, LeaveSignalled, Return, BoundedStop, Stopped, Records
      <3> QED
        BY <1>2, <3>1, <3>2
    <2>2. CASE BeginTick(p) \/ Wake(p) \/ WakeToStop(p) \/ Again(p)
      BY <1>1, <2>2
      DEF BeginTick, Wake, WakeToStop, Again, Keep, Save, GoTo, Inside, Memory
    <2> QED
      BY <1>4, <2>1, <2>2 DEF Turn
  <1>5. CASE Work(p) \/ Observe(p)
    BY <1>1, <1>5
    DEF Work, Observe, Reconcile, Refresh, Ingest, Ingested, Select, Idle, Dispatch, Refused,
        Commit, Call, Finish, Settle, GiveUp, Keep, Save, GoTo, At, Inside
  <1>6. CASE TickError(p)
    BY <1>1, <1>6 DEF TickError, GiveUp, GoTo, Inside
  <1>7. CASE Crash(p)
    <2>1. mem'[p] = Blank /\ faults' # faults
      BY <1>1, <1>7 DEF Crash, Leave
    <2> QED
      BY <1>2, <2>1
  <1>8. CASE Signal(p)
    <2>1. CASE pc[p] \in Building
      BY <1>1, <1>2, <1>8, <2>1 DEF Signal, Leave, StopInside, Building, Inside
    <2>2. CASE pc[p] \notin Building
      <3>1. pc[p] \in Inside
        BY <1>1, <1>8, <2>2 DEF Signal, At, HolderInside, Building, Inside, Locations
      <3>2. pc'[p] = pc[p]
        BY <1>8, <2>2 DEF Signal
      <3> QED
        BY <3>1, <3>2 DEF Inside
    <2> QED
      BY <2>1, <2>2
  <1> QED
    BY <1>3, <1>4, <1>5, <1>6, <1>7, <1>8 DEF StepOf, Fault

StopInv == SerialInv /\ StopInside

LEMMA InitStopInv == Init => StopInv
  BY InitSerialInv DEF Init, StopInv, StopInside, Blank

\* Every step keeps the invariant, and none lets a signalled process go unrecorded.
LEMMA StopInvStep ==
    ASSUME StopInv, [Next]_vars
    PROVE  /\ StopInv'
           /\ \A p \in Procs : mem[p].stop /\ pc'[p] = "off" /\ faults' = faults
                 => rec'.state = "stopped"
  <1>1. SerialInv' /\ TypeOK /\ HolderInside
    BY SerialStep DEF StopInv, SerialInv, TypeInv
  <1>2. ASSUME NEW p \in Procs
        PROVE  /\ mem'[p].stop => pc'[p] \in Inside
               /\ mem[p].stop /\ pc'[p] = "off" /\ faults' = faults => rec'.state = "stopped"
    <2>1. CASE StepOf(p)
      BY <1>1, <2>1, StopStep DEF StopInv
    <2>2. CASE pc'[p] = pc[p] /\ mem'[p] = mem[p]
      BY <2>2 DEF StopInv, StopInside, Inside
    <2>3. StepOf(p) \/ (pc'[p] = pc[p] /\ mem'[p] = mem[p])
      BY <1>1, NextCases, ElsewhereFrame, StepFrame
    <2> QED
      BY <2>1, <2>2, <2>3
  <1> QED
    BY <1>1, <1>2 DEF StopInv, StopInside

\* A signalled supervisor that is not killed ends only after its record says stopped,
\* whatever the tick it interrupted was about to save (README.md:191-192), and however
\* processes, commands and decisions interleave.
THEOREM SignalledCorrect == Spec => SignalledLeavesStopped
  <1>1. StopInv /\ [Next]_vars => StopInv'
    BY StopInvStep
  <1>2. StopInv /\ [Next]_vars =>
           [\A p \in Procs : mem[p].stop /\ pc'[p] = "off" /\ faults' = faults
              => rec'.state = "stopped"]_vars
    BY StopInvStep
  <1> QED
    BY <1>1, <1>2, InitStopInv, PTL DEF Spec, SignalledLeavesStopped

-----------------------------------------------------------------------------
(* What may run                                                              *)

\* Whatever can still be started without a new decision is cleared, and so is what runs.
ClearedInv ==
    /\ \A i \in Items : items[i].st \in {"ready", "deferred", "blocked"} => i \in cleared
    /\ \A p \in Procs : pc[p] \in Started => mem[p].pick \in cleared

LEMMA InitClearedInv == Init => ClearedInv
  BY DEF Init, ClearedInv, NewItem, Started

\* What a step does to the items: who may start them is decided here, and the states
\* they pass through are those of the abstract lifecycle.
ItemsEffect ==
    /\ \A i \in Items : items'[i].st \in {"ready", "deferred", "blocked"} => i \in cleared'
    /\ \A i \in Items : items'[i].st = "in_progress" /\ items[i].st # "in_progress"
          => items[i].st = "ready" /\ Running = {}
    /\ \A i \in Items : \/ items'[i].st = items[i].st
                        \/ items'[i].st \in Lifecycle!Adjacent[items[i].st]
                        \/ /\ items[i].st # "in_progress"
                           /\ items'[i].st \in {"ready", "awaiting_owner"}

LEMMA AdjacentStates ==
    /\ Lifecycle!Adjacent["ready"] = {"in_progress", "blocked", "awaiting_owner", "deferred"}
    /\ Lifecycle!Adjacent["in_progress"] =
          {"blocked", "awaiting_owner", "failed", "shipped", "deferred"}
    /\ Lifecycle!Adjacent["blocked"] = {"ready", "awaiting_owner"}
    /\ Lifecycle!Adjacent["awaiting_owner"] = {"ready", "rejected"}
    /\ Lifecycle!Adjacent["deferred"] = {"ready"}
  BY DEF Lifecycle!Adjacent, Lifecycle!States

\* Steps that leave the items alone; a failure withdraws what ran.
LEMMA SameItems ==
    ASSUME ClearedInv, UNCHANGED items, cleared' = cleared \/ cleared' = cleared \ Running
    PROVE  ItemsEffect
  BY DEF ClearedInv, ItemsEffect, Running

\* One item is saved with another state.
LEMMA OneItem ==
    ASSUME TypeOK, ClearedInv, NEW i \in Items, NEW it,
           items' = [items EXCEPT ![i] = it],
           cleared \ {i} \subseteq cleared',
           it.st \in {"ready", "deferred", "blocked"} => i \in cleared',
           it.st = "in_progress" /\ items[i].st # "in_progress"
              => items[i].st = "ready" /\ Running = {},
           \/ it.st = items[i].st \/ it.st \in Lifecycle!Adjacent[items[i].st]
           \/ items[i].st # "in_progress" /\ it.st \in {"ready", "awaiting_owner"}
    PROVE  ItemsEffect
  <1>1. items \in [Items -> ItemRecords]
    BY DEF TypeOK
  <1>2. \A j \in Items : items'[j] = IF j = i THEN it ELSE items[j]
    BY <1>1
  <1> QED
    BY <1>2 DEF ClearedInv, ItemsEffect

LEMMA RefreshEffect ==
    ASSUME TypeOK, ClearedInv, NEW p \in Procs, Refresh(p)
    PROVE  ItemsEffect
  <1>1. PICK c \in BOOLEAN : items' = Refreshed(items, c)
    BY DEF Refresh
  <1>2. cleared' = cleared
    BY DEF Refresh, outside, history
  <1>3. ASSUME NEW i \in Items
        PROVE  \/ items'[i].st = items[i].st
               \/ items[i].st \in {"deferred", "blocked"} /\ items'[i].st = "ready"
    <2> DEFINE it == Requeued(items[i], c)
    <2>1. items'[i] = Unblocked(it, Shipped(items))
      BY <1>1 DEF Refreshed
    <2>2. items[i] \in ItemRecords
      BY DEF TypeOK
    <2>3. it \in ItemRecords
      BY <2>2, ItemOperators
    <2>4. it.st = items[i].st \/ (items[i].st = "deferred" /\ it.st = "ready")
      <3>1. /\ [items[i] EXCEPT !.due = "later"].st = items[i].st
            /\ [items[i] EXCEPT !.st = "ready", !.due = "none"].st = "ready"
        BY <2>2 DEF ItemRecords
      <3>2. \/ it = items[i] \/ it = [items[i] EXCEPT !.due = "later"]
            \/ /\ items[i].st = "deferred"
               /\ it = [items[i] EXCEPT !.st = "ready", !.due = "none"]
        BY DEF Requeued
      <3> QED
        BY <3>1, <3>2
    <2> HIDE DEF it
    <2>5. \/ Unblocked(it, Shipped(items)).st = it.st
          \/ it.st = "blocked" /\ Unblocked(it, Shipped(items)).st = "ready"
      BY <2>3 DEF Unblocked, ItemRecords
    <2> QED
      BY <2>1, <2>4, <2>5
  <1> QED
    BY <1>2, <1>3, AdjacentStates DEF ClearedInv, ItemsEffect

LEMMA IngestEffect ==
    ASSUME TypeOK, ClearedInv, NEW p \in Procs, Ingest(p), Running = {}
    PROVE  ItemsEffect
  <1>1. PICK e \in mem[p].todo :
          LET i == e.item
              heard  == DecisionKey(e) \in mem[p].rec.seen
              admits == ~heard /\ IsNews(items[i], e)
          IN  /\ items' = [items EXCEPT ![i] = IF admits THEN Admitted(@, e) ELSE @]
              /\ cleared' = IF ~admits THEN cleared
                            ELSE IF Origin[i] = "auto" \/ (Origin[i] = "owner" /\ e.trusted)
                                 THEN cleared \cup {i} ELSE cleared \ {i}
    BY DEF Ingest
  <1>2. e \in Evidence /\ e.item \in Items
    BY EvidenceNamesItems DEF TypeOK, Memory
  <1> DEFINE i == e.item
             admits == ~(DecisionKey(e) \in mem[p].rec.seen) /\ IsNews(items[i], e)
  <1>3. items[i] \in ItemRecords /\ items \in [Items -> ItemRecords]
    BY <1>2 DEF TypeOK
  <1>4. CASE ~admits
    BY <1>1, <1>2, <1>3, <1>4, SameItems
  <1>5. CASE admits
    <2> DEFINE it == Admitted(items[i], e)
    <2>1. it.st = AdmissionState(e) /\ items' = [items EXCEPT ![i] = it]
      BY <1>1, <1>3, <1>5 DEF Admitted, ItemRecords
    <2>2. /\ AdmissionState(e) \in {"ready", "awaiting_owner"}
          /\ AdmissionState(e) = "ready" => i \in cleared'
          /\ cleared \ {i} \subseteq cleared'
      BY <1>1, <1>5 DEF AdmissionState
    <2>3. items[i].st # "in_progress"
      BY <1>2 DEF Running
    <2> HIDE DEF it, i
    <2> QED
      BY <1>2, <2>1, <2>2, <2>3, OneItem DEF i
  <1> QED
    BY <1>4, <1>5

LEMMA DispatchEffect ==
    ASSUME QuietInv, ClearedInv, NEW p \in Procs, Dispatch(p)
    PROVE  ItemsEffect
  <1> DEFINE i == mem[p].pick
             it == [items[i] EXCEPT !.st = "in_progress"]
  <1>1. TypeOK /\ i \in Items /\ Running = {}
    BY DEF Dispatch, At, QuietInv, SerialInv, TypeInv, PickKnown, Carrying, Clear, Selecting
  <1>2. items[i] \in ItemRecords /\ items[i].st = "ready"
    BY <1>1 DEF Dispatch, TypeOK
  <1>3. items' = [items EXCEPT ![i] = it] /\ it.st = "in_progress" /\ cleared' = cleared
    BY <1>2 DEF Dispatch, outside, history, ItemRecords
  <1> HIDE DEF i, it
  <1> QED
    BY <1>1, <1>2, <1>3, AdjacentStates, OneItem

\* A run that ends finds its item in progress, and still cleared if it may be tried again.
LEMMA FinishEffect ==
    ASSUME QuietInv, ClearedInv, NEW p \in Procs, Finish(p)
    PROVE  ItemsEffect
  <1> DEFINE i == mem[p].pick
  <1>1. /\ TypeOK /\ i \in Items /\ items[i].st = "in_progress" /\ i \in cleared
        /\ mem[p].item \in ItemRecords
    BY DEF Finish, At, QuietInv, SerialInv, TypeInv, TypeOK, Memory, PickKnown, Carrying,
           RecordInv, Started, ClearedInv
  <1>2. PICK o \in Outcomes :
          \E bs \in BlockersOf(o, i) : \E due \in RetriesOf(o, mem[p].item.due) :
            /\ items' = [items EXCEPT ![i] =
                  [mem[p].item EXCEPT !.st = ItemAfter(o), !.due = due, !.blockers = @ \cup bs]]
            /\ cleared' = IF ItemAfter(o) \in {"deferred", "blocked"}
                          THEN cleared ELSE cleared \ {i}
    BY DEF Finish
  <1>3. PICK it : it.st = ItemAfter(o) /\ items' = [items EXCEPT ![i] = it]
    <2>1. \A bs, due : [mem[p].item EXCEPT !.st = ItemAfter(o), !.due = due,
                                           !.blockers = @ \cup bs].st = ItemAfter(o)
      BY <1>1 DEF ItemRecords
    <2> QED
      BY <1>2, <2>1
  <1>4. ItemAfter(o) \in {"shipped", "awaiting_owner", "blocked", "failed", "deferred"}
    BY DEF ItemAfter
  <1>5. cleared' = IF ItemAfter(o) \in {"deferred", "blocked"} THEN cleared ELSE cleared \ {i}
    BY <1>2
  <1> HIDE DEF i
  <1> QED
    BY <1>1, <1>3, <1>4, <1>5, AdjacentStates, OneItem

LEMMA DecisionEffect ==
    ASSUME QuietInv, ClearedInv, Approve \/ Reject
    PROVE  ItemsEffect
  <1> DEFINE i == owner.item
             it(s) == [owner.copy EXCEPT !.st = s]
  <1>1. /\ TypeOK /\ i \in Items /\ items[i].st = "awaiting_owner"
        /\ \A s : it(s).st = s
    BY DEF Approve, Reject, QuietInv, SerialInv, TypeInv, TypeOK, FreshInv, ItemRecords
  <1>2. \/ items' = [items EXCEPT ![i] = it("ready")] /\ cleared' = cleared \cup {i}
        \/ items' = [items EXCEPT ![i] = it("rejected")] /\ cleared' = cleared \ {i}
    BY DEF Approve, Reject
  <1> HIDE DEF i, it
  <1> QED
    BY <1>1, <1>2, AdjacentStates, OneItem

\* The steps that change no item, or only when it is due.
LEMMA OtherEffect ==
    ASSUME TypeOK, ClearedInv, NEW p \in Procs,
           \/ Start(p) \/ Turn(p) \/ Ingested(p) \/ Select(p) \/ Idle(p) \/ Refused(p)
           \/ Commit(p) \/ Call(p) \/ Settle(p) \/ Observe(p) \/ Fault(p) \/ Signal(p)
    PROVE  ItemsEffect
  <1>1. items' = items /\ (cleared' = cleared \/ cleared' = cleared \ Running)
    BY DEF Start, Build, SaveTarget, Construct, PersistBound, Enter, EnterResuming, Rejected,
           Turn, LeaveStopped, LeaveBounded, LeaveSignalled, BeginTick, Wake, WakeToStop,
           Return, Again, Ingested, Select, Idle, Refused, Commit, Call, Settle, Observe,
           Fault, TickError, Crash, Signal, outside, history
  <1> QED
    BY <1>1, SameItems

LEMMA ReconcileEffect ==
    ASSUME TypeOK, ClearedInv, NEW p \in Procs, Reconcile(p)
    PROVE  ItemsEffect
  <1>1. \A i \in Items : items'[i].st = IF items[i].st = "in_progress" THEN "awaiting_owner"
                                        ELSE items[i].st
    BY DEF Reconcile, Parked, TypeOK, ItemRecords
  <1>2. cleared' = cleared
    BY DEF Reconcile, outside, history
  <1> QED
    BY <1>1, <1>2, AdjacentStates DEF ClearedInv, ItemsEffect

LEMMA ElsewhereEffect ==
    ASSUME QuietInv, ClearedInv, Elsewhere \/ UNCHANGED vars
    PROVE  ItemsEffect
  <1>1. TypeOK
    BY DEF QuietInv, SerialInv, TypeInv
  <1>2. CASE ComesDue
    <2>1. \A i \in Items : items'[i].st = items[i].st
      BY <1>1, <1>2 DEF ComesDue, TypeOK, ItemRecords
    <2>2. cleared' = cleared
      BY <1>2 DEF ComesDue, outside, history
    <2> QED
      BY <2>1, <2>2 DEF ClearedInv, ItemsEffect
  <1>3. CASE \/ StopLoad \/ StopSave \/ SignalNobody \/ ResumeLoad \/ ResumeSave \/ DecideLoad
             \/ UNCHANGED vars
    BY <1>3, SameItems
    DEF StopLoad, StopSave, SignalNobody, ResumeLoad, ResumeSave, DecideLoad, supervisors,
        history, vars
  <1>4. CASE Approve \/ Reject
    BY <1>4, DecisionEffect
  <1> QED
    BY <1>2, <1>3, <1>4 DEF Elsewhere

LEMMA StepItems ==
    ASSUME QuietInv, ClearedInv, [Next]_vars
    PROVE  ItemsEffect
  <1>1. TypeOK /\ pc \in [Procs -> Locations]
    BY DEF QuietInv, SerialInv, TypeInv, TypeOK
  <1>2. ASSUME NEW p \in Procs, StepOf(p) PROVE ItemsEffect
    <2>1. Ingest(p) => Running = {}
      BY DEF Ingest, At, QuietInv, SerialInv, Clear, Selecting
    <2> QED
      BY <1>1, <1>2, <2>1, OtherEffect, ReconcileEffect, RefreshEffect, IngestEffect,
         DispatchEffect, FinishEffect DEF StepOf, Work
  <1> QED
    BY <1>2, ElsewhereEffect, NextCases

\* Nobody withdraws what runs.
LEMMA ClearedKept ==
    ASSUME QuietInv, ClearedInv, [Next]_vars, NEW p \in Procs, pc'[p] \in Started
    PROVE  mem'[p].pick \in cleared'
  <1>1. /\ TypeOK /\ HolderInside /\ pc \in [Procs -> Locations] /\ mem \in [Procs -> Memory]
        /\ items \in [Items -> ItemRecords]
    BY DEF QuietInv, SerialInv, TypeInv, TypeOK
  <1>2. CASE Dispatch(p)
    <2>1. mem'[p].pick = mem[p].pick /\ mem[p].pick \in Items /\ cleared' = cleared
          /\ items[mem[p].pick].st = "ready"
      BY <1>1, <1>2 DEF Dispatch, At, Memory, outside, history, QuietInv, SerialInv, TypeInv,
                        PickKnown, Carrying
    <2> QED
      BY <2>1 DEF ClearedInv
  <1>3. CASE ~Dispatch(p)
    <2>1. pc[p] \in Started /\ mem'[p].pick = mem[p].pick
      BY <1>1, <1>3, NextCases, ElsewhereFrame, StepFrame, ReachStarted
    <2>2. /\ mem[p].pick \in cleared /\ mem[p].pick \in Items
          /\ items[mem[p].pick].st = "in_progress"
          /\ \A q \in Procs : pc[q] \in Inside \/ holder = q => q = p
      BY <1>1, <2>1
      DEF ClearedInv, QuietInv, RecordInv, SerialInv, TypeInv, PickKnown, Started, Carrying,
          HolderInside, Inside
    <2>3. CASE Elsewhere \/ UNCHANGED vars
      <3>1. owner.item # None => items[owner.item].st = "awaiting_owner"
        BY DEF QuietInv, FreshInv
      <3>2. mem[p].pick # owner.item
        BY <2>2, <3>1, NamesDiffer
      <3>3. cleared \ {owner.item} \subseteq cleared'
        BY <2>3
        DEF Elsewhere, ComesDue, StopLoad, StopSave, SignalNobody, ResumeLoad, ResumeSave,
            DecideLoad, Approve, Reject, supervisors, outside, history, vars
      <3> QED
        BY <2>1, <2>2, <3>2, <3>3
    <2>4. ASSUME NEW q \in Procs, q # p, StepOf(q) PROVE cleared' = cleared
      <3>1. pc[q] \notin Inside /\ holder # q
        BY <2>2, <2>4
      <3>2. ~Ingest(q) /\ ~Finish(q) /\ ~TickError(q)
        BY <3>1 DEF Ingest, Finish, TickError, At, Inside, Fallible
      <3> QED
        BY <2>4, <3>1, <3>2
        DEF StepOf, Start, Build, SaveTarget, Construct, PersistBound, Enter, EnterResuming,
            Rejected, Turn, LeaveStopped, LeaveBounded, LeaveSignalled, BeginTick, Wake,
            WakeToStop, Return, Again, Work, Reconcile, Refresh, Ingested, Select, Idle,
            Dispatch, Refused, Commit, Call, Settle, Observe, Fault, Crash, Signal, outside,
            history
    <2>5. CASE StepOf(p)
      <3>1. ~Ingest(p) /\ ~Finish(p) /\ ~TickError(p) /\ ~Crash(p)
        <4>1. pc'[p] # "settle" /\ pc'[p] # "after" /\ pc'[p] # "off"
          BY DEF Started
        <4>2. pc[p] # "ingest"
          BY <2>1 DEF Started
        <4> QED
          BY <1>1, <4>1, <4>2 DEF Ingest, Finish, TickError, Crash, GiveUp, Leave, GoTo, At
      <3>2. cleared' = cleared
        BY <2>5, <3>1
        DEF StepOf, Start, Build, SaveTarget, Construct, PersistBound, Enter, EnterResuming,
            Rejected, Turn, LeaveStopped, LeaveBounded, LeaveSignalled, BeginTick, Wake,
            WakeToStop, Return, Again, Work, Reconcile, Refresh, Ingested, Select, Idle,
            Dispatch, Refused, Commit, Call, Settle, Observe, Fault, Signal, outside, history
      <3> QED
        BY <2>1, <2>2, <3>2
    <2> QED
      BY <2>1, <2>2, <2>3, <2>4, <2>5, NextCases
  <1> QED
    BY <1>2, <1>3

ReadyInv == QuietInv /\ ClearedInv

LEMMA ReadyInvariant ==
    /\ Init => ReadyInv
    /\ ReadyInv /\ [QuietNext]_vars => ReadyInv' /\ ItemsEffect
  <1>1. Init => ReadyInv
    BY InitQuietInv, InitClearedInv DEF ReadyInv
  <1>2. ASSUME ReadyInv, [QuietNext]_vars PROVE ReadyInv' /\ ItemsEffect
    <2>1. [Next]_vars
      BY <1>2 DEF QuietNext, Completing, Next, Command, Start
    <2>2. ItemsEffect
      BY <1>2, <2>1, StepItems DEF ReadyInv
    <2>3. \A p \in Procs : pc'[p] \in Started => mem'[p].pick \in cleared'
      BY <1>2, <2>1, ClearedKept DEF ReadyInv
    <2> QED
      BY <1>2, <2>2, <2>3, QuietStep DEF ReadyInv, ClearedInv, ItemsEffect
  <1> QED
    BY <1>1, <1>2

\* An item starts to run only if its origin, its last readmission or the owner's last
\* decision lets it; one whose run was cut short waits for the owner, whatever crashed.
THEOREM OnlyClearedCorrect == QuietSpec => OnlyClearedWorkRuns
  <1>1. ReadyInv /\ [QuietNext]_vars =>
           [\A i \in Items : /\ items[i].st # "in_progress"
                             /\ items'[i].st = "in_progress"
                             => i \in cleared]_vars
    BY ReadyInvariant DEF ItemsEffect, ReadyInv, ClearedInv
  <1> QED
    BY <1>1, ReadyInvariant, PTL DEF QuietSpec, OnlyClearedWorkRuns

-----------------------------------------------------------------------------
(* The refinement                                                            *)

LEMMA InitRefines == Init => Lifecycle!Init
  BY DEF Init, Lifecycle!Init, NewItem

LEMMA StepRefines ==
    ASSUME ReadyInv, ReadyInv', ItemsEffect
    PROVE  Lifecycle!Next
  <1> DEFINE st == [i \in Items |-> items[i].st]
  <1>1. \A i \in Items : st[i] = items[i].st /\ st'[i] = items'[i].st
    OBVIOUS
  <1>2. st' \in [Items -> Lifecycle!States]
    BY DEF ReadyInv, QuietInv, SerialInv, TypeInv, TypeOK, ItemRecords, ItemStates,
           Lifecycle!States
  <1>3. Lifecycle!Running = Running
    BY DEF Lifecycle!Running, Running
  <1>4. ASSUME NEW i \in Items
        PROVE  st'[i] = st[i] \/ Lifecycle!Move(i) \/ Lifecycle!Readmit(i)
    <2>1. CASE items'[i].st = items[i].st
      BY <1>1, <2>1
    <2>2. CASE items'[i].st # items[i].st /\ items'[i].st \in Lifecycle!Adjacent[items[i].st]
      <3>1. items'[i].st = "in_progress" => Running = {}
        BY <2>2 DEF ItemsEffect
      <3>2. Lifecycle!Start(i)
        BY <1>1, <1>3, <3>1 DEF Lifecycle!Start
      <3> QED
        BY <1>1, <2>2, <3>2 DEF Lifecycle!Move
    <2>3. CASE items[i].st # "in_progress" /\ items'[i].st \in {"ready", "awaiting_owner"}
      BY <1>1, <2>3 DEF Lifecycle!Readmit, Lifecycle!Admissions
    <2> QED
      BY <2>1, <2>2, <2>3 DEF ItemsEffect
  <1>5. \A i, j \in Items : st'[i] = "in_progress" /\ st'[j] = "in_progress" => i = j
    BY <1>1 DEF ReadyInv, QuietInv, SerialInv, Running
  <1> HIDE DEF st
  <1> QED
    BY <1>2, <1>4, <1>5 DEF Lifecycle!Next, st

\* Factory implements WorkItemLifecycle: whatever processes, commands and the owner do, the
\* durable items move only along the documented adjacency or by readmission, one run at a
\* time.
THEOREM FollowsLifecycleCorrect == QuietSpec => FollowsLifecycle
  <1>1. ReadyInv /\ [QuietNext]_vars => [Lifecycle!Next]_([i \in Items |-> items[i].st])
    BY ReadyInvariant, StepRefines
  <1> QED
    BY <1>1, ReadyInvariant, InitRefines, PTL
    DEF QuietSpec, FollowsLifecycle, Lifecycle!Spec
============================================================================
