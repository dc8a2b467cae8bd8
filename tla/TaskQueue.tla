------------------------------- MODULE TaskQueue -------------------------------
(* The finite factory over a queue of approved tasks:                        *)
(* howlplane/control_plane/factory/task_queue.py, with the mission binding   *)
(* that may guard it (mission_binding.py) and the part of orchestration.py   *)
(* that starts, resumes and supersedes a session of a worktree.  Several     *)
(* runs may work one queue while people edit it, clean worktrees and use     *)
(* `howlplane orchestrate` themselves.                                       *)
EXTENDS Naturals, Sequences, FiniteSets, FiniteSetsExt

CONSTANTS
    Procs,          \* processes that may run the queue
    Human,          \* whoever uses orchestrate directly
    Tasks,          \* tasks, numbered by priority and position
    Repos, RepoOf,  \* worktrees; Tasks -> Repos
    DependsOn,      \* Tasks -> SUBSET Tasks
    Revs,           \* revisions (fingerprints) a task may have
    Mission,        \* whether the queue is bound to a mission
    RootOf,         \* Tasks -> root causes
    RepairLimit,    \* repair_limit of the mission
    Slots,          \* accepted items the mission has left
    None,
    Retries,        \* what --retry may name
    MaxStarts,      \* bound: launches explored in all
    MaxSpent        \* bound: edits, crashes, and sessions people touch, in all

ASSUME NamesDiffer == None \notin Procs \cup {Human} \cup Tasks /\ Human \notin Procs
ASSUME TasksAreNumbered == Tasks \subseteq Nat \ {0}
ASSUME RevsAreNumbered == Revs \subseteq Nat /\ Revs # {}
ASSUME TaskData == /\ RepoOf \in [Tasks -> Repos]
                   /\ DependsOn \in [Tasks -> SUBSET Tasks]
                   /\ Mission \in BOOLEAN /\ Retries \subseteq SUBSET Tasks
ASSUME MissionData == RepairLimit \in Nat /\ Slots \in Nat

VARIABLES
    queue,      \* the queue file: the revision of each task
    ledger,     \* the append-only ledger
    sessions,   \* orchestration sessions, oldest first; an id is a position
    dirty,      \* worktrees with uncommitted changes
    lock,       \* the queue's flock, and the mission's controller lock
    pc, mem,    \* where each run is, and what it holds in memory
    spent       \* history: what MaxSpent counts

vars == <<queue, ledger, sessions, dirty, lock, pc, mem, spent>>

-----------------------------------------------------------------------------
(* Orchestration sessions                                                    *)

\* "open" stands for every resumable status; 0 is no session.  pulled is
\* history: it was discarded while somebody ran it.
Statuses == {"open", "complete", "blocked", "superseded", "discarded"}
Session  == [repo : Repos, goal : Tasks \cup {None}, st : Statuses,
             live : Procs \cup {Human, None}, pulled : BOOLEAN]

Ids == DOMAIN sessions
Exists(s) == s \in Ids /\ sessions[s].st # "discarded"
Open(s)   == s \in Ids /\ sessions[s].st = "open"
Newest(S) == IF S = {} THEN 0 ELSE Max(S)

\* active_sessions, without and with include_terminal.
OpenIn(r)  == {s \in Ids : Open(s) /\ sessions[s].repo = r}
KnownIn(r) == {s \in Ids : Exists(s) /\ sessions[s].repo = r}

NewSession(r, goal, who) ==
    [repo |-> r, goal |-> goal, st |-> "open", live |-> who, pulled |-> FALSE]
\* What is saved of a session that is taken up, put down or set aside.
Becomes(s, st, who) == [sessions EXCEPT ![s] = [@ EXCEPT !.st = st, !.live = who]]

-----------------------------------------------------------------------------
(* The ledger, as a run holds it                                             *)

\* Records that name a revision of a task, superseded ones aside.
Runs(view, t) ==
    {n \in DOMAIN view : view[n].task = t /\ view[n].event # "superseded"}
RunsOf(view, t, rev) == {n \in Runs(view, t) : view[n].rev = rev}

\* _find_session: sessions carry a task's goal, not its revision.
Found(t, since) ==
    Newest({s \in KnownIn(RepoOf[t]) : s > since /\ sessions[s].goal = t})

\* Ledger.outcome: live session evidence first; "failed" is a run without one.
Outcome(view, t, rev) ==
    LET last == view[Max(RunsOf(view, t, rev))]
        s    == IF last.event = "started" /\ ~Exists(last.session)
                THEN Found(t, last.since) ELSE last.session
    IN  IF RunsOf(view, t, rev) = {} THEN [session |-> 0, status |-> "none"]
        ELSE [session |-> s,
              status  |-> IF Exists(s) THEN sessions[s].st
                          ELSE IF last.event = "started" THEN "failed" ELSE last.status]

Completed(view, t, rev) ==
    \/ \E n \in RunsOf(view, t, rev) : view[n].status = "complete"
    \/ Outcome(view, t, rev).status = "complete"

\* resumable_session.
Own(view, t, rev) ==
    LET s == Outcome(view, t, rev).session IN IF Open(s) THEN s ELSE 0

\* stale_sessions: open sessions recorded under exactly one other revision.
Stale(view, t, rev) ==
    {s \in Ids : /\ Open(s)
                 /\ \E old \in Revs \ {rev} :
                       {view[n].rev : n \in {m \in Runs(view, t) :
                                                view[m].session = s}} = {old}}

\* Open sessions of the worktree that are not this task's.
Foreign(view, t, rev) ==
    OpenIn(RepoOf[t]) \ (Stale(view, t, rev) \cup {Own(view, t, rev)})

\* eligibility.
Eligible(view, m, t) ==
    /\ t \notin m.tried /\ ~Completed(view, t, m.revs[t])
    /\ RunsOf(view, t, m.revs[t]) = {} \/ t \in m.retry

\* Mutant of Dispatchable: a dependency is done once any revision of it was.
DispatchableAfterAny(m) ==
    {t \in Tasks :
        /\ Eligible(m.view, m, t)
        /\ \A d \in DependsOn[t] : \E rev \in Revs : Completed(m.view, d, rev)
        /\ Foreign(m.view, t, m.revs[t]) = {}
        /\ Own(m.view, t, m.revs[t]) # 0 \/ RepoOf[t] \notin dirty}

\* next_task and _dispatch: what the run may dispatch now.
Dispatchable(m) ==
    {t \in Tasks :
        /\ Eligible(m.view, m, t)
        /\ \A d \in DependsOn[t] : Completed(m.view, d, m.revs[d])
        /\ Foreign(m.view, t, m.revs[t]) = {}
        /\ Own(m.view, t, m.revs[t]) # 0 \/ RepoOf[t] \notin dirty}

Starts(view, S) == {n \in DOMAIN view : view[n].event = "started" /\ view[n].task \in S}
Sharing(t)      == {u \in Tasks : RootOf[u] = RootOf[t]}
Reserved(view)  == {view[n].task : n \in Starts(view, Tasks)}

\* Mutant of Admitted: a new revision starts its count afresh.
AdmittedByRevision(m, t) ==
    /\ Cardinality({n \in Starts(m.view, Sharing(t)) :
                      m.view[n].rev = m.revs[m.view[n].task]}) < RepairLimit
    /\ t \in Reserved(m.view) \/ Cardinality(Reserved(m.view)) < Slots

\* MissionBinding.admit for engineering tasks.
Admitted(m, t) ==
    Mission => /\ Cardinality(Starts(m.view, {t})) < RepairLimit
               /\ Cardinality(Starts(m.view, Sharing(t))) < RepairLimit
               /\ t \in Reserved(m.view) \/ Cardinality(Reserved(m.view)) < Slots

-----------------------------------------------------------------------------

Blank == [revs |-> [t \in Tasks |-> 0], view |-> <<>>, retry |-> {}, tried |-> {},
          task |-> 0, own |-> 0, stale |-> {}, retired |-> 0, before |-> {}]

Init ==
    /\ queue = [t \in Tasks |-> Min(Revs)]
    /\ ledger = <<>> /\ sessions = <<>> /\ dirty = {}
    /\ lock = None
    /\ pc = [p \in Procs |-> "off"] /\ mem = [p \in Procs |-> Blank]
    /\ spent = 0

At(p, l) == pc[p] = l
GoTo(p, l) == pc' = [pc EXCEPT ![p] = l]

Leave(p) == /\ GoTo(p, "off") /\ mem' = [mem EXCEPT ![p] = Blank]
            /\ lock' = IF lock = p THEN None ELSE lock

\* Ledger.append: on disk and in memory; m is what else the run now holds.
Record(p, m, entry) ==
    /\ ledger' = Append(ledger, entry)
    /\ mem' = [mem EXCEPT ![p] = [m EXCEPT !.view = Append(m.view, entry)]]

Entry(event, t, rev, s, status, since) ==
    [event |-> event, task |-> t, rev |-> rev, session |-> s, status |-> status,
     since |-> since]

data == <<queue, ledger, sessions, dirty, spent>>

Spend == spent < MaxSpent /\ spent' = spent + 1

\* load_queue, and Ledger unless a mission puts it off: both are read before
\* the lock is asked for.
OpenQueue(p) ==
    /\ At(p, "off")
    /\ \E retry \in Retries :
          mem' = [mem EXCEPT ![p] =
                    [Blank EXCEPT !.revs = queue, !.retry = retry,
                                  !.view = IF Mission THEN <<>> ELSE ledger]]
    /\ GoTo(p, "opened")
    /\ UNCHANGED <<data, lock>>

\* Ledger.exclusive; a mission takes its controller lock first, validates its
\* contract and only then reads the ledger.
Enter(p) ==
    /\ At(p, "opened") /\ lock = None
    /\ Mission => queue = mem[p].revs
    /\ lock' = p /\ GoTo(p, "choose")
    /\ mem' = IF Mission THEN [mem EXCEPT ![p] = [@ EXCEPT !.view = ledger]] ELSE mem
    /\ UNCHANGED data

Refused(p) ==
    /\ At(p, "opened") /\ (lock # None \/ (Mission /\ queue # mem[p].revs))
    /\ Leave(p)
    /\ UNCHANGED data

(* One round of QueueFactory.run                                             *)

Chosen(p) == Min(Dispatchable(mem[p]))
MayChoose(p) == At(p, "choose") /\ Dispatchable(mem[p]) # {}
                /\ Cardinality(Starts(ledger, Tasks)) < MaxStarts

\* Decided before anything changes.
Choose(p) ==
    LET t == Chosen(p)
        m == mem[p]
        stale == Stale(m.view, t, m.revs[t])
    IN  /\ MayChoose(p) /\ (Mission => queue = m.revs) /\ Admitted(m, t)
        /\ mem' = [mem EXCEPT ![p] =
                [m EXCEPT !.tried = @ \cup {t}, !.task = t,
                          !.own = Own(m.view, t, m.revs[t]), !.stale = stale]]
        /\ GoTo(p, IF stale = {} THEN "begin" ELSE "retire")
        /\ UNCHANGED <<data, lock>>

Withhold(p) ==
    /\ MayChoose(p) /\ (Mission => queue = mem[p].revs) /\ ~Admitted(mem[p], Chosen(p))
    /\ mem' = [mem EXCEPT ![p] = [mem[p] EXCEPT !.tried = @ \cup {Chosen(p)}]]
    /\ UNCHANGED <<data, lock, pc>>

\* The mission contract no longer matches its queue: admit raises.
Contradicted(p) ==
    /\ MayChoose(p) /\ Mission /\ queue # mem[p].revs
    /\ Leave(p)
    /\ UNCHANGED data

\* Nothing is left, or the run reached --max-tasks or --stop-on-failure.
Finish(p) ==
    /\ At(p, "choose") /\ (Dispatchable(mem[p]) = {} \/ mem[p].tried # {})
    /\ Leave(p)
    /\ UNCHANGED data

\* orchestration.supersede.
Retire(p) ==
    /\ At(p, "retire")
    /\ \E s \in mem[p].stale :
          /\ Open(s) /\ sessions[s].live = None
          /\ sessions' = Becomes(s, "superseded", None)
          /\ mem' = [mem EXCEPT ![p] = [@ EXCEPT !.retired = s]]
    /\ GoTo(p, "note")
    /\ UNCHANGED <<queue, ledger, dirty, lock, spent>>

RetireRefused(p) ==
    /\ At(p, "retire")
    /\ \E s \in mem[p].stale : ~Open(s) \/ sessions[s].live # None
    /\ GoTo(p, "choose")
    /\ UNCHANGED <<data, lock, mem>>

\* Only then is the retirement recorded.
Note(p) ==
    LET m == mem[p]
        s == m.retired
        n == CHOOSE n \in Runs(m.view, m.task) : m.view[n].session = s
    IN  /\ At(p, "note")
        /\ Record(p, [m EXCEPT !.stale = @ \ {s}, !.retired = 0],
                  Entry("superseded", m.task, m.view[n].rev, s, "superseded", 0))
        /\ GoTo(p, IF m.stale = {s} THEN "begin" ELSE "retire")
        /\ UNCHANGED <<queue, sessions, dirty, lock, spent>>

\* _launch looks at the sessions there are and records the start.
Begin(p) ==
    LET m == mem[p] IN
    /\ At(p, "begin")
    /\ Record(p, [m EXCEPT !.before = KnownIn(RepoOf[m.task])],
              Entry("started", m.task, m.revs[m.task], m.own, "none", Len(sessions)))
    /\ GoTo(p, "launch")
    /\ UNCHANGED <<queue, sessions, dirty, lock, spent>>

\* Mutant of LaunchStart: a worktree may have several sessions.
LaunchBeside(p) ==
    LET r == RepoOf[mem[p].task] IN
    /\ At(p, "launch") /\ mem[p].own = 0
    /\ sessions' = Append(sessions, NewSession(r, mem[p].task, p))
    /\ GoTo(p, "session")
    /\ UNCHANGED <<queue, ledger, dirty, lock, mem, spent>>

\* orchestration.command with a goal: refused while a session is unfinished.
LaunchStart(p) ==
    LET r == RepoOf[mem[p].task] IN
    /\ At(p, "launch") /\ mem[p].own = 0 /\ OpenIn(r) = {}
    /\ sessions' = Append(sessions, NewSession(r, mem[p].task, p))
    /\ GoTo(p, "session")
    /\ UNCHANGED <<queue, ledger, dirty, lock, mem, spent>>

\* orchestration.command with "resume": the worktree's newest open session.
LaunchResume(p) ==
    LET s == Newest(OpenIn(RepoOf[mem[p].task])) IN
    /\ At(p, "launch") /\ mem[p].own # 0 /\ s # 0 /\ sessions[s].live = None
    /\ sessions' = Becomes(s, "open", p)
    /\ GoTo(p, "session")
    /\ UNCHANGED <<queue, ledger, dirty, lock, mem, spent>>

\* It refuses, or the setup of a new session fails.
LaunchFails(p) ==
    LET s == Newest(OpenIn(RepoOf[mem[p].task])) IN
    /\ At(p, "launch")
    /\ mem[p].own # 0 => (IF s = 0 THEN TRUE ELSE sessions[s].live # None)
    /\ GoTo(p, "report")
    /\ UNCHANGED <<data, lock, mem>>

\* A session that who runs ends, leaving its worktree clean or not; a complete
\* one is deleted unless its report is retained, as every task's is.
Ends(who) ==
    \E s \in Ids, st \in {"open", "complete", "blocked", "discarded"} :
        /\ sessions[s].live = who
        /\ st = "discarded" => sessions[s].goal = None
        /\ sessions' = Becomes(s, st, None)
        /\ dirty' \in {dirty, dirty \cup {sessions[s].repo}}

SessionEnds(p) ==
    /\ At(p, "session") /\ Ends(p)
    /\ GoTo(p, "report")
    /\ UNCHANGED <<queue, ledger, lock, mem, spent>>

\* Mutant of Report: only a resumed session is known by its id.
ReportWithout(p) ==
    LET m == mem[p] IN
    /\ At(p, "report")
    /\ Record(p, [m EXCEPT !.task = 0, !.own = 0, !.before = {}],
              Entry("finished", m.task, m.revs[m.task], m.own,
                    IF m.own = 0 THEN "failed" ELSE sessions[m.own].st, 0))
    /\ GoTo(p, "choose")
    /\ UNCHANGED <<queue, sessions, dirty, lock, spent>>

\* The task's session is the one resumed, or the newest not there before.
Report(p) ==
    LET m == mem[p]
        s == IF m.own # 0 THEN (IF Exists(m.own) THEN m.own ELSE 0)
             ELSE Newest(KnownIn(RepoOf[m.task]) \ m.before)
    IN  /\ At(p, "report")
        /\ Record(p, [m EXCEPT !.task = 0, !.own = 0, !.before = {}],
                  Entry("finished", m.task, m.revs[m.task], s,
                        IF s = 0 THEN "failed" ELSE sessions[s].st, 0))
        /\ GoTo(p, "choose")
        /\ UNCHANGED <<queue, sessions, dirty, lock, spent>>

\* The process dies: its locks go, its session's lease is no longer live.
Crash(p) ==
    /\ ~At(p, "off") /\ Spend
    /\ Leave(p)
    /\ sessions' = [s \in Ids |-> [sessions[s] EXCEPT !.live = IF @ = p THEN None ELSE @]]
    /\ UNCHANGED <<queue, ledger, dirty>>

-----------------------------------------------------------------------------
(* People                                                                    *)

runsOfQueue == <<ledger, lock, pc, mem>>

\* The queue is edited, and with it the contract of a mission; an earlier text
\* of a task may come back.
Edit ==
    /\ Spend
    /\ \E t \in Tasks, r \in Revs : r # queue[t] /\ queue' = [queue EXCEPT ![t] = r]
    /\ UNCHANGED <<sessions, dirty, runsOfQueue>>

\* A result is committed or discarded.
Clean ==
    /\ \E r \in dirty : dirty' = dirty \ {r}
    /\ UNCHANGED <<queue, sessions, spent, runsOfQueue>>

HumanStarts ==
    /\ Spend
    /\ \E r \in Repos : OpenIn(r) = {} /\ sessions' = Append(sessions, NewSession(r, None, Human))
    /\ UNCHANGED <<queue, dirty, runsOfQueue>>

HumanResumes ==
    /\ \E r \in Repos : LET s == Newest(OpenIn(r)) IN
          /\ s # 0 /\ sessions[s].live = None
          /\ sessions' = Becomes(s, "open", Human)
    /\ Spend
    /\ UNCHANGED <<queue, dirty, runsOfQueue>>

HumanEnds ==
    /\ Ends(Human)
    /\ UNCHANGED <<queue, spent, runsOfQueue>>

\* orchestrate discard: every session of the worktree that can be resumed goes,
\* also one that somebody is running and goes on running.
HumanDiscards ==
    /\ \E r \in Repos : /\ OpenIn(r) # {}
                        /\ sessions' = [s \in Ids |-> IF s \in OpenIn(r)
                              THEN [sessions[s] EXCEPT !.st = "discarded",
                                       !.pulled = @ \/ sessions[s].live # None]
                              ELSE sessions[s]]
    /\ Spend
    /\ UNCHANGED <<queue, dirty, runsOfQueue>>

\* The next save of its coordinator finds no file, so no other token: it is back.
SavedBack ==
    /\ \E s \in Ids : /\ sessions[s].st = "discarded" /\ sessions[s].live # None
                      /\ sessions' = Becomes(s, "open", sessions[s].live)
    /\ UNCHANGED <<queue, dirty, spent, runsOfQueue>>

Run(p) == OpenQueue(p) \/ Enter(p) \/ Refused(p) \/ Choose(p) \/ Withhold(p)
          \/ Contradicted(p) \/ Finish(p) \/ Retire(p) \/ RetireRefused(p) \/ Note(p)
          \/ Begin(p) \/ LaunchStart(p) \/ LaunchResume(p) \/ LaunchFails(p)
          \/ SessionEnds(p) \/ Report(p) \/ Crash(p)

People == Edit \/ Clean \/ HumanStarts \/ HumanResumes \/ HumanEnds \/ HumanDiscards
          \/ SavedBack

Next == People \/ \E p \in Procs : Run(p)

Spec == Init /\ [][Next]_vars

-----------------------------------------------------------------------------
(* Properties                                                                *)

\* task_queue.py, _dispatch: at most one resumable session per repository, whatever runs,
\* crashes and people do to it, save for sessions discarded while somebody ran them:
\* those come back beside whatever was started since.
OneResumablePerRepository ==
    \A r \in Repos : Cardinality({s \in OpenIn(r) : ~sessions[s].pulled}) <= 1

\* task_queue.py, _dispatch: a fresh session is started only for a revision that never ran,
\* or on --retry, and only when the revision its run knows of everything it depends on is
\* done, by the ledger on disk and the sessions there are now, not as the run last saw them.
\* Only where a session of that worktree was discarded while it ran may that have changed.
Begins(p) == At(p, "begin") /\ pc'[p] = "launch"
StartsAreDue ==
    [][\A p \in Procs : LET t == mem[p].task IN
          Begins(p) =>
             /\ t \in mem[p].retry \/ RunsOf(ledger, t, mem[p].revs[t]) = {}
             /\ \A d \in DependsOn[t] :
                   \/ Completed(ledger, d, mem[p].revs[d])
                   \/ \E s \in Ids : sessions[s].pulled /\ sessions[s].repo = RepoOf[d]]_vars

\* mission_binding.py: neither crashes, nor new revisions, nor other runs reset
\* the repair limit of a root cause or free a reserved slot.
MissionLimitsHold ==
    Mission => /\ \A t \in Tasks : Cardinality(Starts(ledger, Sharing(t))) <= RepairLimit
               /\ Cardinality(Reserved(ledger)) <= Slots

\* However a run ends, each session it started that can still be resumed is the recorded
\* outcome of some revision of its task, never one nobody answers for; unless it was
\* discarded while it ran and came back.
NoSessionIsLost ==
    lock = None => \A s \in Ids :
        Open(s) /\ ~sessions[s].pulled /\ sessions[s].goal # None =>
        LET t == sessions[s].goal IN
        \E rev \in Revs : s = Own(ledger, t, rev)
                          \/ s \in {ledger[n].session : n \in RunsOf(ledger, t, rev)}
============================================================================
