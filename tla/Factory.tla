------------------------------ MODULE Factory ------------------------------
(* The factory supervisor of one state directory: howlplane/control_plane/   *)
(* factory/supervisor.py over the durable supervisor record                  *)
(* (supervisor_state.py) and the durable work items (work_item.py), with the *)
(* commands that touch the same two stores from other processes: a second    *)
(* `factory run`, `factory stop`, `factory resume` and the owner's approve   *)
(* and reject.  Every save is one step; what a process read before it is     *)
(* kept in the process until it saves.                                       *)
EXTENDS Naturals, FiniteSets

CONSTANTS
    Procs,        \* processes that may run the supervisor on the directory
    Items,        \* work item ids
    Origin,       \* Items -> "auto" | "review" | "owner": the admission class
    Evidence,     \* what discovery can report: [item, refs, fps, trusted]
    Unknown,      \* a blocker that is no work item (the literal "dependency")
    None,         \* no item, no process
    Budget,       \* --max-work-items; 0 is a continuous run
    Campaign,     \* whether the directory belongs to a managed campaign
    MaxRuns,      \* bound: dispatches explored in all
    MaxFaults,    \* bound: crashes and failing ticks explored
    MaxCommands   \* bound: operator stops and resumes explored

ASSUME NamesDiffer == /\ None \notin Items /\ None \notin Procs
                      /\ Unknown \notin Items
ASSUME CountsAreNaturals == {Budget, MaxRuns, MaxFaults, MaxCommands} \subseteq Nat
ASSUME OriginClasses == Origin \in [Items -> {"auto", "review", "owner"}]
ASSUME EvidenceNamesItems == \A e \in Evidence : e.item \in Items

VARIABLES
    rec,        \* supervisor record on disk
    items,      \* work items on disk
    pc,         \* where each process is
    mem,        \* what each process has read and not yet saved
    holder,     \* holder of SupervisorLock (FileLock.tla refines it)
    cli,        \* the operator command in progress
    owner,      \* the owner decision in progress
    runs,       \* history: dispatcher runs begun
    cleared,    \* history: items whose last admission or owner decision lets them run
    faults, commands

vars == <<rec, items, pc, mem, holder, cli, owner, runs, cleared, faults, commands>>

-----------------------------------------------------------------------------
(* The supervisor record                                                     *)

SupervisorStates == {"idle", "provider", "work", "authority", "dependency",
                     "backoff", "dispatching", "stopped"}

\* SUPERVISOR_TRANSITIONS.
Allowed ==
    [s \in SupervisorStates |->
        CASE s = "idle"        -> {"provider", "work", "dispatching", "stopped"}
          [] s = "provider"    -> {"work", "backoff", "dispatching", "stopped"}
          [] s = "work"        -> {"provider", "backoff", "dispatching", "stopped"}
          [] s = "backoff"     -> {"provider", "work", "idle", "dispatching", "stopped"}
          [] s = "dispatching" -> {"idle", "provider", "authority", "dependency",
                                   "backoff", "stopped"}
          [] s = "stopped"     -> {"idle"}
          [] OTHER             -> {"work", "backoff", "dispatching", "stopped"}]

NewRecord == [state |-> "idle", cur |-> None, count |-> 0, seen |-> {}]

\* Decisions are remembered by identity and fingerprints, not by references
\* or provenance.
DecisionKey(e) == <<e.item, e.fps>>
Records == [state : SupervisorStates, cur : Items \cup {None}, count : Nat,
            seen : SUBSET {DecisionKey(e) : e \in Evidence}]

\* load(): a record that was saved while dispatching backs off.
Reconciled(r) ==
    [r EXCEPT !.state = IF @ = "dispatching" THEN "backoff" ELSE @]

Stopped(r) == [r EXCEPT !.state = "stopped"]
Idled(r)   == [r EXCEPT !.state = "idle"]

LimitReached(r) == Budget > 0 /\ r.count >= Budget

\* _bounded_stop: the current dispatch is forgotten, whatever became of it.
BoundedStop(r) == [r EXCEPT !.state = "stopped", !.cur = None]

\* A transition with the fallback the tick gives it.
MoveOr(r, next, fallback) ==
    IF next = r.state \/ next \in Allowed[r.state]
    THEN [r EXCEPT !.state = next]
    ELSE [r EXCEPT !.state = fallback]

-----------------------------------------------------------------------------
(* Work items                                                                *)

ItemStates == {"absent", "ready", "in_progress", "blocked", "awaiting_owner",
               "deferred", "shipped", "failed", "rejected"}
AllRefs == UNION {e.refs : e \in Evidence}
AllFps  == UNION {e.fps : e \in Evidence}
ItemRecords == [st : ItemStates, blockers : SUBSET (Items \cup {Unknown}),
                due : {"none", "later", "due"},
                refs : SUBSET AllRefs, fps : SUBSET AllFps]
NewItem == [st |-> "absent", blockers |-> {}, due |-> "none",
            refs |-> {}, fps |-> {}]

Dispatchable(it) == it.st = "ready" /\ it.blockers = {}

\* Mutant of AdmissionState: an untrusted owner direction is taken at its word.
AdmissionStateTrusting(e) ==
    IF Origin[e.item] \in {"auto", "owner"} THEN "ready" ELSE "awaiting_owner"

\* _admission_state_for_origin.
AdmissionState(e) ==
    IF Origin[e.item] = "auto" \/ (Origin[e.item] = "owner" /\ e.trusted)
    THEN "ready" ELSE "awaiting_owner"

\* Anything new reopens an item that is on file.
IsNews(it, e) == it.st = "absent" \/ ~(e.refs \subseteq it.refs)
                                  \/ ~(e.fps \subseteq it.fps)

\* admit_evidence and reopen: blockers and retry metadata are left alone.
Admitted(it, e) ==
    [it EXCEPT !.st = AdmissionState(e), !.refs = @ \cup e.refs, !.fps = @ \cup e.fps]

Running == {i \in Items : items[i].st = "in_progress"}

\* Mutant of Parked: an orphan is simply tried again.
ParkedAsReady(its) ==
    [i \in Items |-> [its[i] EXCEPT !.st = IF @ = "in_progress" THEN "ready" ELSE @]]

\* _park_reconciled_item, _reconcile_in_progress_items.
Parked(its) ==
    [i \in Items |-> [its[i] EXCEPT !.st = IF @ = "in_progress"
                                           THEN "awaiting_owner" ELSE @]]

\* _requeue_deferred_items: undated work gets a date, due work is ready once
\* capacity is observed.
Requeued(it, capacity) ==
    CASE it.st = "deferred" /\ it.due = "none" -> [it EXCEPT !.due = "later"]
      [] it.st = "deferred" /\ it.due = "due" /\ capacity ->
            [it EXCEPT !.st = "ready", !.due = "none"]
      [] OTHER -> it

Shipped(its) == {i \in Items : its[i].st = "shipped"}

\* Mutant of Unblocked: the last blocker is dropped and the state kept.
UnblockedKeepsState(it, shipped) ==
    IF it.st = "blocked" THEN [it EXCEPT !.blockers = @ \ shipped] ELSE it

\* _unblock_resolved_dependencies.
Unblocked(it, shipped) ==
    IF it.st = "blocked" /\ it.blockers \cap shipped # {}
    THEN [it EXCEPT !.blockers = @ \ shipped,
                    !.st = IF it.blockers \subseteq shipped THEN "ready" ELSE @]
    ELSE it

Refreshed(its, capacity) ==
    [i \in Items |-> Unblocked(Requeued(its[i], capacity), Shipped(its))]

\* DispatchOutcome: the state of the item, and of the supervisor after it.
Outcomes == {"shipped", "parked", "unavailable", "dependency", "failed", "exception"}
ItemAfter(o) ==
    CASE o = "shipped"    -> "shipped"
      [] o = "parked"     -> "awaiting_owner"
      [] o = "dependency" -> "blocked"
      [] o = "failed"     -> "failed"
      [] OTHER            -> "deferred"
SupervisorAfter(o) ==
    CASE o = "shipped"     -> "idle"
      [] o = "parked"      -> "authority"
      [] o = "unavailable" -> "provider"
      [] o = "dependency"  -> "dependency"
      [] OTHER             -> "backoff"
\* The blocker the outcome names, if any.
BlockersOf(o, i) ==
    IF o = "dependency" THEN {{b} : b \in (Items \ {i}) \cup {Unknown}} ELSE {{}}
RetriesOf(o, due) ==
    IF ItemAfter(o) = "deferred" THEN {"none", "later"} ELSE {due}

-----------------------------------------------------------------------------
(* Processes                                                                 *)

Locations == {"off", "built", "ctor", "bound", "entry", "loop", "tick", "recon",
              "requeue", "ingest", "select", "dispatch", "commit", "call",
              "running", "settle", "after"}

\* The part of a start that precedes the lock.
Building == {"built", "ctor", "bound", "entry"}

\* Where an unexpected error is caught by _guarded_tick.
Fallible == {"recon", "requeue", "ingest", "select", "dispatch", "commit", "running"}

Blank == [rec |-> NewRecord, stop |-> FALSE, todo |-> {}, pick |-> None,
          item |-> NewItem, next |-> "idle"]
Memory == [rec : Records, stop : BOOLEAN, todo : SUBSET Evidence,
           pick : Items \cup {None}, item : ItemRecords, next : SupervisorStates]

Init ==
    /\ rec = NewRecord
    /\ items = [i \in Items |-> NewItem]
    /\ pc = [p \in Procs |-> "off"]
    /\ mem = [p \in Procs |-> Blank]
    /\ holder = None
    /\ cli = [pc |-> "idle", copy |-> NewRecord]
    /\ owner = [item |-> None, copy |-> NewItem]
    /\ runs = 0 /\ cleared = {} /\ faults = 0 /\ commands = 0

At(p, l) == pc[p] = l
GoTo(p, l) == pc' = [pc EXCEPT ![p] = l]

\* Keep r in memory; keep it and save it.
Keep(p, r) == mem' = [mem EXCEPT ![p].rec = r] /\ UNCHANGED rec
Save(p, r) == mem' = [mem EXCEPT ![p].rec = r] /\ rec' = r

\* The tick returns: only the record and the signal outlive it.
EndTick(p, r) ==
    mem' = [mem EXCEPT ![p] = [Blank EXCEPT !.rec = r, !.stop = mem[p].stop]]

\* The process ends and its lock file goes.
Leave(p) == /\ GoTo(p, "off")
            /\ mem' = [mem EXCEPT ![p] = Blank]
            /\ holder' = IF holder = p THEN None ELSE holder

operators == <<cli, owner, commands>>
history   == <<runs, cleared, faults>>
outside   == <<operators, history>>

(* Starting: _build_factory_supervisor, the constructor, the lock            *)

Build(p) ==
    /\ At(p, "off")
    /\ Keep(p, Reconciled(rec)) /\ GoTo(p, "built")
    /\ UNCHANGED <<items, holder, outside>>

SaveTarget(p) ==
    /\ At(p, "built")
    /\ Save(p, mem[p].rec) /\ GoTo(p, "ctor")
    /\ UNCHANGED <<items, holder, outside>>

Construct(p) ==
    /\ At(p, "ctor")
    /\ Keep(p, Reconciled(rec))
    /\ GoTo(p, IF Budget > 0 THEN "bound" ELSE "entry")
    /\ UNCHANGED <<items, holder, outside>>

PersistBound(p) ==
    /\ At(p, "bound")
    /\ Save(p, mem[p].rec) /\ GoTo(p, "entry")
    /\ UNCHANGED <<items, holder, outside>>

Enter(p) ==
    /\ At(p, "entry") /\ holder = None
    /\ holder' = p /\ GoTo(p, "loop")
    /\ UNCHANGED <<rec, items, mem, outside>>

\* run(resume_stopped=True), as the service starts it.
EnterResuming(p) ==
    /\ At(p, "entry") /\ holder = None
    /\ holder' = p /\ GoTo(p, "loop")
    /\ IF rec.state = "stopped" THEN Save(p, Idled(rec)) ELSE Keep(p, Reconciled(rec))
    /\ UNCHANGED <<items, outside>>

Rejected(p) ==
    /\ At(p, "entry") /\ holder # None
    /\ Leave(p)
    /\ UNCHANGED <<rec, items, outside>>

(* One turn of _run_loop up to the work of the tick                          *)

LeaveStopped(p) ==
    /\ At(p, "loop") /\ rec.state = "stopped"
    /\ Leave(p)
    /\ UNCHANGED <<rec, items, outside>>

LeaveBounded(p) ==
    /\ At(p, "loop") /\ rec.state # "stopped" /\ LimitReached(rec)
    /\ rec' = BoundedStop(rec)
    /\ Leave(p)
    /\ UNCHANGED <<items, outside>>

LeaveSignalled(p) ==
    /\ At(p, "loop") /\ rec.state # "stopped" /\ ~LimitReached(rec) /\ mem[p].stop
    /\ rec' = Stopped(rec)
    /\ Leave(p)
    /\ UNCHANGED <<items, outside>>

BeginTick(p) ==
    /\ At(p, "loop") /\ rec.state # "stopped" /\ ~LimitReached(rec) /\ ~mem[p].stop
    /\ Keep(p, Reconciled(rec)) /\ GoTo(p, "tick")
    /\ UNCHANGED <<items, holder, outside>>

\* The tick reads the record again and saves its wake time.
Wake(p) ==
    /\ At(p, "tick") /\ rec.state # "stopped" /\ ~LimitReached(rec)
    /\ Save(p, Reconciled(rec)) /\ GoTo(p, "recon")
    /\ UNCHANGED <<items, holder, outside>>

\* It was stopped, or exhausted, since the loop looked.
WakeToStop(p) ==
    /\ At(p, "tick") /\ (rec.state = "stopped" \/ LimitReached(rec))
    /\ IF rec.state = "stopped" THEN Keep(p, rec) ELSE Save(p, BoundedStop(rec))
    /\ GoTo(p, "after")
    /\ UNCHANGED <<items, holder, outside>>

(* The tick: reconciliation, refresh, discovery                              *)

\* Mutant of Reconcile: only the item the record names is parked.
ReconcileCurrent(p) ==
    /\ At(p, "recon")
    /\ items' = [i \in Items |-> IF i = mem[p].rec.cur THEN Parked(items)[i]
                                                     ELSE items[i]]
    /\ Keep(p, [mem[p].rec EXCEPT !.cur = None])
    /\ GoTo(p, "requeue")
    /\ UNCHANGED <<holder, outside>>

\* _park_reconciled_item and _reconcile_in_progress_items.
Reconcile(p) ==
    /\ At(p, "recon")
    /\ items' = Parked(items)
    /\ Keep(p, [mem[p].rec EXCEPT !.cur = IF mem[p].rec.state = "backoff"
                                          THEN None ELSE @])
    /\ GoTo(p, "requeue")
    /\ UNCHANGED <<holder, outside>>

\* Requeue, unblock, and call discovery.
Refresh(p) ==
    /\ At(p, "requeue")
    /\ \E capacity \in BOOLEAN : items' = Refreshed(items, capacity)
    /\ \E found \in SUBSET Evidence : mem' = [mem EXCEPT ![p].todo = found]
    /\ GoTo(p, "ingest")
    /\ UNCHANGED <<rec, holder, outside>>

\* _handle_work_evidence, one observation.
Ingest(p) ==
    /\ At(p, "ingest")
    /\ \E e \in mem[p].todo :
        LET i      == e.item
            heard  == DecisionKey(e) \in mem[p].rec.seen
            admits == ~heard /\ IsNews(items[i], e)
        IN  /\ mem' = [mem EXCEPT ![p] = [mem[p] EXCEPT
                         !.todo = @ \ {e}, !.rec.seen = @ \cup {DecisionKey(e)}]]
            /\ items' = [items EXCEPT ![i] = IF admits THEN Admitted(@, e) ELSE @]
            /\ cleared' = IF ~admits THEN cleared
                          ELSE IF Origin[i] = "auto" \/ (Origin[i] = "owner" /\ e.trusted)
                               THEN cleared \cup {i} ELSE cleared \ {i}
    /\ UNCHANGED <<pc, rec, holder, operators, runs, faults>>

\* A signal that arrived meanwhile stops the tick before it selects.
Ingested(p) ==
    /\ At(p, "ingest") /\ mem[p].todo = {}
    /\ IF mem[p].stop
       THEN Save(p, Stopped(mem[p].rec)) /\ GoTo(p, "after")
       ELSE Keep(p, mem[p].rec) /\ GoTo(p, "select")
    /\ UNCHANGED <<items, holder, outside>>

(* The tick: selection and dispatch                                          *)

Candidates == {i \in Items : Dispatchable(items[i]) /\ runs < MaxRuns}

\* portfolio.select; Portfolio.tla says which candidate it is.
Select(p) ==
    /\ At(p, "select")
    /\ \E i \in Candidates : mem' = [mem EXCEPT ![p].pick = i]
    /\ GoTo(p, "dispatch")
    /\ UNCHANGED <<rec, items, holder, outside>>

\* Nothing to select, or every candidate capped; owner direction never is.
Idle(p) ==
    /\ At(p, "select")
    /\ \A i \in Candidates : Origin[i] # "owner"
    /\ \E next \in {"provider", "work"} :
          Save(p, MoveOr(mem[p].rec, next, "backoff"))
    /\ GoTo(p, "after")
    /\ UNCHANGED <<items, holder, outside>>

\* The item is read again, marked and saved.
Dispatch(p) ==
    LET i == mem[p].pick IN
    /\ At(p, "dispatch") /\ items[i].st = "ready"
    /\ items' = [items EXCEPT ![i].st = "in_progress"]
    /\ mem' = [mem EXCEPT ![p].item = items'[i]]
    /\ GoTo(p, "commit")
    /\ UNCHANGED <<rec, holder, outside>>

\* Mutant of Commit: counted in memory, saved with the outcome.
CommitUnsaved(p) ==
    LET r == mem[p].rec IN
    /\ At(p, "commit")
    /\ Keep(p, [r EXCEPT !.state = "dispatching", !.cur = mem[p].pick,
                         !.count = IF Budget > 0 THEN @ + 1 ELSE @])
    /\ GoTo(p, "call")
    /\ UNCHANGED <<items, holder, outside>>

\* The dispatch is recorded and counted, and only then begun.
Commit(p) ==
    LET r == mem[p].rec IN
    /\ At(p, "commit")
    /\ Save(p, [r EXCEPT !.state = "dispatching", !.cur = mem[p].pick,
                         !.count = IF Budget > 0 THEN @ + 1 ELSE @])
    /\ GoTo(p, "call")
    /\ UNCHANGED <<items, holder, outside>>

\* dispatcher.dispatch begins.
Call(p) ==
    /\ At(p, "call")
    /\ runs' = runs + 1 /\ GoTo(p, "running")
    /\ UNCHANGED <<rec, items, mem, holder, operators, cleared, faults>>

\* A provider is selected, or a merge counted, and the record saved from memory.
Observe(p) ==
    /\ At(p, "running")
    /\ Save(p, mem[p].rec)
    /\ UNCHANGED <<items, pc, holder, outside>>

\* The run ends and the item is saved from the copy dispatch read.
Finish(p) ==
    LET i == mem[p].pick IN
    /\ At(p, "running")
    /\ \E o \in Outcomes : \E bs \in BlockersOf(o, i) :
       \E due \in RetriesOf(o, mem[p].item.due) :
          /\ items' = [items EXCEPT ![i] =
                [mem[p].item EXCEPT !.st = ItemAfter(o), !.due = due,
                                    !.blockers = @ \cup bs]]
          /\ mem' = [mem EXCEPT ![p].next = SupervisorAfter(o)]
          /\ cleared' = IF ItemAfter(o) \in {"deferred", "blocked"}
                        THEN cleared ELSE cleared \ {i}
    /\ GoTo(p, "settle")
    /\ UNCHANGED <<rec, holder, operators, runs, faults>>

Settle(p) ==
    LET r == [mem[p].rec EXCEPT !.cur = None] IN
    /\ At(p, "settle")
    /\ rec' = IF LimitReached(r) THEN BoundedStop(r)
              ELSE MoveOr(r, mem[p].next, "backoff")
    /\ EndTick(p, rec') /\ GoTo(p, "after")
    /\ UNCHANGED <<items, holder, outside>>

(* The end of the turn: the record is saved once more, then looked at        *)

\* Mutant of Return: the loop just breaks.
ReturnUnsaved(p) ==
    /\ At(p, "after")
    /\ rec' = mem[p].rec
    /\ Leave(p)
    /\ UNCHANGED <<items, outside>>

\* stop() after a signal or at the deadline; or the record says stopped.
Return(p) ==
    /\ At(p, "after")
    /\ rec' = Stopped(mem[p].rec)
    /\ Leave(p)
    /\ UNCHANGED <<items, outside>>

Again(p) ==
    /\ At(p, "after") /\ ~mem[p].stop /\ mem[p].rec.state # "stopped"
    /\ rec' = mem[p].rec
    /\ mem' = [mem EXCEPT ![p] = Blank]
    /\ GoTo(p, "loop")
    /\ UNCHANGED <<items, holder, outside>>

(* Failures                                                                  *)

\* _guarded_tick: back off if the table lets it, and end the turn.
GiveUp(p) ==
    /\ EndTick(p, MoveOr(mem[p].rec, "backoff", mem[p].rec.state))
    /\ GoTo(p, "after") /\ UNCHANGED rec

\* The item is no longer ready: its transition raises.
Refused(p) ==
    /\ At(p, "dispatch") /\ items[mem[p].pick].st # "ready"
    /\ GiveUp(p)
    /\ UNCHANGED <<items, holder, outside>>

\* A store fails in the middle of the tick.
TickError(p) ==
    /\ pc[p] \in Fallible /\ faults < MaxFaults
    /\ faults' = faults + 1
    /\ GiveUp(p)
    /\ cleared' = cleared \ Running
    /\ UNCHANGED <<items, holder, operators, runs>>

\* The process dies; whoever comes next finds its lock stale.
Crash(p) ==
    /\ ~At(p, "off") /\ faults < MaxFaults
    /\ faults' = faults + 1
    /\ Leave(p)
    /\ cleared' = IF holder = p THEN cleared \ Running ELSE cleared
    /\ UNCHANGED <<rec, items, operators, runs>>

\* The clock reaches a deferred item's retry_after.
ComesDue ==
    /\ \E i \in Items : /\ items[i].due = "later"
                        /\ items' = [items EXCEPT ![i].due = "due"]
    /\ UNCHANGED <<rec, pc, mem, holder, outside>>

-----------------------------------------------------------------------------
(* Operator commands, from other processes and without the lock              *)

supervisors == <<items, pc, holder, owner, history>>

\* cmd_factory_stop; a campaign's stop does not reconcile what it reads.
StopLoad ==
    /\ cli.pc = "idle" /\ commands < MaxCommands
    /\ commands' = commands + 1
    /\ cli' = [pc |-> "stop", copy |-> IF Campaign THEN rec ELSE Reconciled(rec)]
    /\ UNCHANGED <<rec, mem, supervisors>>

StopSave ==
    /\ cli.pc = "stop"
    /\ rec' = IF cli.copy.state = "stopped" THEN rec ELSE Stopped(cli.copy)
    /\ cli' = [pc |-> IF Campaign THEN "signal" ELSE "idle", copy |-> NewRecord]
    /\ UNCHANGED <<mem, commands, supervisors>>

\* stop_process: SIGTERM to the campaign's process, if there is one.
SignalNobody ==
    /\ cli.pc = "signal" /\ holder = None /\ \A p \in Procs : At(p, "off")
    /\ cli' = [cli EXCEPT !.pc = "idle"]
    /\ UNCHANGED <<rec, mem, commands, supervisors>>

Signal(p) ==
    /\ cli.pc = "signal" /\ (IF holder = None THEN ~At(p, "off") ELSE holder = p)
    /\ cli' = [cli EXCEPT !.pc = "idle"]
    /\ IF pc[p] \in Building    \* no handler is installed yet
       THEN Leave(p)
       ELSE /\ mem' = [mem EXCEPT ![p].stop = TRUE]
            /\ UNCHANGED <<pc, holder>>
    /\ UNCHANGED <<rec, items, owner, history, commands>>

\* cmd_factory_resume refuses a record that is not stopped.
ResumeLoad ==
    /\ cli.pc = "idle" /\ commands < MaxCommands /\ rec.state = "stopped"
    /\ commands' = commands + 1
    /\ cli' = [pc |-> "resume", copy |-> rec]
    /\ UNCHANGED <<rec, mem, supervisors>>

ResumeSave ==
    /\ cli.pc = "resume"
    /\ rec' = Idled(cli.copy)
    /\ cli' = [pc |-> "idle", copy |-> NewRecord]
    /\ UNCHANGED <<mem, commands, supervisors>>

\* decide_work_item.
DecideLoad ==
    /\ owner.item = None
    /\ \E i \in Items : /\ items[i].st = "awaiting_owner"
                        /\ owner' = [item |-> i, copy |-> items[i]]
    /\ UNCHANGED <<rec, items, pc, mem, holder, cli, commands, history>>

Approve ==
    /\ owner.item # None
    /\ items' = [items EXCEPT ![owner.item] = [owner.copy EXCEPT !.st = "ready"]]
    /\ cleared' = cleared \cup {owner.item}
    /\ owner' = [item |-> None, copy |-> NewItem]
    /\ UNCHANGED <<rec, pc, mem, holder, cli, commands, runs, faults>>

Reject ==
    /\ owner.item # None
    /\ items' = [items EXCEPT ![owner.item] = [owner.copy EXCEPT !.st = "rejected"]]
    /\ cleared' = cleared \ {owner.item}
    /\ owner' = [item |-> None, copy |-> NewItem]
    /\ UNCHANGED <<rec, pc, mem, holder, cli, commands, runs, faults>>

-----------------------------------------------------------------------------

Start(p) == Build(p) \/ SaveTarget(p) \/ Construct(p) \/ PersistBound(p)
            \/ Enter(p) \/ EnterResuming(p) \/ Rejected(p)
Turn(p)  == LeaveStopped(p) \/ LeaveBounded(p) \/ LeaveSignalled(p) \/ BeginTick(p)
            \/ Wake(p) \/ WakeToStop(p) \/ Return(p) \/ Again(p)
Work(p)  == Reconcile(p) \/ Refresh(p) \/ Ingest(p) \/ Ingested(p) \/ Select(p)
            \/ Idle(p) \/ Dispatch(p) \/ Refused(p) \/ Commit(p) \/ Call(p)
            \/ Finish(p) \/ Settle(p)
Fault(p) == TickError(p) \/ Crash(p)
Command  == StopLoad \/ StopSave \/ SignalNobody \/ (\E p \in Procs : Signal(p))
            \/ ResumeLoad \/ ResumeSave \/ DecideLoad \/ Approve \/ Reject

Next == (\E p \in Procs : Start(p) \/ Turn(p) \/ Work(p) \/ Observe(p) \/ Fault(p))
        \/ ComesDue \/ Command

Spec == Init /\ [][Next]_vars

(* No read-modify-write from outside the lock overlaps another step: what a  *)
(* starting process, an operator command or an owner decision read is what   *)
(* it replaces.                                                              *)
Pending == \/ cli.pc \in {"stop", "resume"} \/ owner.item # None
           \/ \E p \in Procs : pc[p] \in {"built", "bound"}

Completing == \/ StopSave \/ ResumeSave \/ Approve \/ Reject
              \/ \E p \in Procs : SaveTarget(p) \/ PersistBound(p)

QuietNext == Completing \/ (~Pending /\ Next)
QuietSpec == Init /\ [][QuietNext]_vars

(* Scheduling: a running supervisor takes its steps, a command and an owner  *)
(* decision complete, the clock moves, and when no supervisor runs one is    *)
(* started again with --resume-stopped, as the service does.                 *)
Restart == (\A p \in Procs : pc[p] \in Building \cup {"off"}) /\ \E p \in Procs : Start(p)

Fairness ==
    /\ WF_vars(Restart)
    /\ SF_vars(\E p \in Procs : EnterResuming(p))
    /\ \A p \in Procs : WF_vars(Turn(p)) /\ WF_vars(Work(p))
    /\ WF_vars(ComesDue)
    /\ WF_vars(StopSave \/ ResumeSave \/ SignalNobody \/ \E p \in Procs : Signal(p))
    /\ WF_vars(Approve \/ Reject)
FairSpec == QuietSpec /\ Fairness

-----------------------------------------------------------------------------
(* Properties                                                                *)

\* Every variable has its type, whatever interleaves.
TypeOK ==
    /\ rec \in Records
    /\ items \in [Items -> ItemRecords]
    /\ pc \in [Procs -> Locations]
    /\ mem \in [Procs -> Memory]
    /\ holder \in Procs \cup {None}
    /\ cli \in [pc : {"idle", "stop", "signal", "resume"}, copy : Records]
    /\ owner \in [item : Items \cup {None}, copy : ItemRecords]
    /\ runs \in Nat /\ cleared \subseteq Items
    /\ faults \in Nat /\ commands \in Nat

Selecting == {"requeue", "ingest", "select", "dispatch"}
InRun     == {"call", "running"}

\* supervisor.py parks every orphan before it selects: however processes die,
\* no item is selected while another is in progress, and at most one ever is.
SerialWork ==
    /\ \A i, j \in Running : i = j
    /\ \A p \in Procs : pc[p] \in Selecting => Running = {}

\* While a dispatch runs, the record on disk names its item and the item says
\* it is in progress, so a restart at any moment knows what was cut short.
RunIsOnRecord ==
    \A p \in Procs : pc[p] \in InRun =>
        /\ rec.cur = mem[p].pick
        /\ items[mem[p].pick].st = "in_progress"

\* ADR 0006, decision 7: a bounded run never begins more dispatches than its
\* budget, across crashes, failing ticks, restarts, stops and resumes.
BudgetRespected == Budget > 0 => runs <= Budget

\* An item starts to run only if its origin, its last readmission or the
\* owner's last decision lets it, and a run that was cut short needs the owner.
OnlyClearedWorkRuns ==
    [][\A i \in Items : /\ items[i].st # "in_progress"
                        /\ items'[i].st = "in_progress"
                        => i \in cleared]_vars

\* The durable items follow the documented lifecycle, one run at a time.
Lifecycle == INSTANCE WorkItemLifecycle WITH st <- [i \in Items |-> items[i].st]
FollowsLifecycle == Lifecycle!Spec

\* README.md:191-192: a signalled supervisor that is not killed ends only after
\* its record says stopped, whatever the tick it interrupted was about to save.
SignalledLeavesStopped ==
    [][\A p \in Procs : mem[p].stop /\ pc'[p] = "off" /\ faults' = faults
          => rec'.state = "stopped"]_vars

\* A blocked item whose blockers have all shipped is released, unless one of
\* them reopens or the factory stays stopped.
BlockedIsReleased ==
    \A i \in Items :
        (items[i].st = "blocked" /\ items[i].blockers # {}
            /\ items[i].blockers \subseteq Shipped(items))
        ~> \/ items[i].st # "blocked" \/ rec.state = "stopped"
           \/ ~(items[i].blockers \subseteq Shipped(items))
============================================================================
