--------------------------- MODULE Orchestration ---------------------------
(***************************************************************************)
(* `howlplane orchestrate`: sessions that plan, implement, review and      *)
(* accept one goal in one worktree (orchestration.py).                     *)
(*                                                                         *)
(* A session is a file with a coordinator's lease.  Every command looks    *)
(* and writes under one flock, so a command is one step; the coordinator   *)
(* then runs outside the flock for an hour and more, and takes the flock   *)
(* for each checkpoint.  A checkpoint refuses to write a session whose     *)
(* lease is another's - and writes one that is gone.  A worker edits the   *)
(* worktree while it runs.  Processes die between any two steps.           *)
(*                                                                         *)
(* Abstracted: one model per agent and no configured fallbacks, so an      *)
(* exhausted model takes its agent out; the outcome of tests is free; the  *)
(* schema is current; an old worker does not outlive its coordinator.      *)
(***************************************************************************)
EXTENDS Naturals, FiniteSets, SequencesExt

CONSTANTS Coordinators,   \* processes that run `orchestrate`
          Ids,            \* session identifiers
          AgentOrder,     \* AGENTS, a sequence
          Preferred,      \* IMPLEMENTATION_PREFERENCE
          Unenforced,     \* READ_ONLY_UNENFORCED
          Economical,     \* agents the ECONOMY strategy puts first
          Strong,         \* agents the QUALITY strategy puts first
          Requests,       \* what people ask for when they start a session
          Failures,       \* failures of a worker this instance lets happen
          Adjustments,    \* choices of a resume this instance lets people make
          MaxRework,      \* MAX_REWORK_ROUNDS
          MaxTree,        \* bound: versions of the worktree
          MaxCommands     \* bound: starts, resumes and interventions

Nobody == "nobody"
External == "external"
NoSession == [id |-> Nobody]   \* what is there when no session is
Agents == ToSet(AgentOrder)
Roles == {"planning", "implementation", "review", "acceptance"}
ReadOnlyRoles == Roles \ {"implementation"}
Policies == {"PLAN ONLY", "PLAN + EXECUTE", "PLAN + EXECUTE + INDEPENDENT AUDIT"}
Strategies == {"BALANCED", "ECONOMY", "QUALITY"}
AllFailures == {"transport", "unavailable", "limit", "session", "role", "permission",
                "timeout", "trust"}
AllAdjustments == {"none", "reserve", "refresh", "lead", "timeouts", "trust", "tests"}
Verdicts == {"AUDIT_FINDINGS", "AUDIT_NO_VERDICT", "ACCEPTANCE_REJECTED"}

ASSUME AgentsAssumption == /\ AgentOrder \in Seq(STRING) /\ IsInjective(AgentOrder)
                           /\ {Nobody, External, "AUTO"} \cap Agents = {}
                           /\ Nobody \notin Coordinators \cup Ids
                           /\ Failures \subseteq AllFailures
                           /\ "none" \in Adjustments /\ Adjustments \subseteq AllAdjustments
                           /\ Requests \subseteq [policy: Policies, lead: Agents \cup {"AUTO"},
                                  strategy: Strategies, failover: BOOLEAN, verify: BOOLEAN,
                                  without: SUBSET Agents]
ASSUME BoundsAssumption == {MaxRework, MaxTree, MaxCommands} \subseteq Nat

VARIABLES disk,      \* the session files: a document, or Nobody
          fresh,     \* per session: renewed less than 330 seconds ago
          at,        \* per coordinator: where it is
          mem,       \* per coordinator: its document in memory
          local,     \* per coordinator: the locals of one pass over a stage
          tree,      \* the worktree's version
          commands   \* commands so far (bound)

vars == <<disk, fresh, at, mem, local, tree, commands>>

-----------------------------------------------------------------------------
(* Documents *)

AgentRecord == [state: {"AVAILABLE", "DEGRADED", "UNAVAILABLE", "RESERVED"},
                unattended: {"unknown", "yes", "no"}, trusted: BOOLEAN,
                capacity: [Roles -> {"ok", "failed"} \cup Verdicts]]
Verdict == [by: Agents \cup {Nobody}, at: 0..MaxTree]
NoVerdict == [by |-> Nobody, at |-> 0]
Statuses == {"PLANNED", "RUNNING", "INTERRUPTED", "HANDOFF REQUIRED", "BLOCKED",
             "COMPLETE", "SUPERSEDED"}
Document == [id: Ids, lease: Coordinators, status: Statuses, stage: Roles, policy: Policies,
             requested: Agents \cup {"AUTO"}, lead: Agents \cup {"AUTO"},
             strategy: Strategies, failover: BOOLEAN, verify: BOOLEAN,
             agents: [Agents -> AgentRecord], timedOut: SUBSET (Roles \X Agents),
             barred: SUBSET Agents,
             assigned: BOOLEAN, implementer: Agents \cup {Nobody, External},
             implemented: BOOLEAN, audit: {"none", "CLEAN", "findings", "exhausted", "mutated"},
             clean: Verdict, accepted: Verdict, reworks: 0..MaxRework,
             needsValidation: BOOLEAN, reconciled: BOOLEAN, onlyVerify: BOOLEAN, evidence: 0..MaxTree]
Places == {"idle", "enter", "recover", "assign", "work", "fell", "mutated", "validate",
           "finish", "unlink", "verifyOnly"}
Locals == [attempted: SUBSET Agents, retried: SUBSET Agents, retry: Agents \cup {Nobody},
           agent: Agents \cup {Nobody}, base: 0..MaxTree, findings: BOOLEAN,
           next: Roles]
FreshLocals(s) == [attempted |-> {}, retried |-> {}, retry |-> Nobody, agent |-> Nobody,
                   base |-> 0, findings |-> FALSE, next |-> s]

TypeOK == /\ disk \in [Ids -> Document \cup {NoSession}] /\ fresh \in [Ids -> BOOLEAN]
          /\ at \in [Coordinators -> Places]
          /\ mem \in [Coordinators -> Document \cup {NoSession}]
          /\ local \in [Coordinators -> Locals]
          /\ tree \in 0..MaxTree /\ commands \in 0..MaxCommands

Running(c) == at[c] # "idle"

\* A blocked session goes on if its reason may pass: reviewers ran out or findings
\* remain, but not if a read-only role changed the repository, nor without a reason.
IsResumable(d) == \/ d.status \in {"PLANNED", "RUNNING", "INTERRUPTED", "HANDOFF REQUIRED"}
                  \/ d.status = "BLOCKED" /\ d.audit \in {"findings", "exhausted"}
Present == {i \in Ids : disk[i] # NoSession}
Active == {i \in Present : IsResumable(disk[i])}

Coordinates(c, i) == mem[c] # NoSession /\ mem[c].id = i

\* Mutant of LiveLease: the comparison of its age is swapped.
LiveLeaseAged(i, me) == ~fresh[i] /\ disk[i].lease # me /\ Coordinates(disk[i].lease, i)

\* Renewed lately, and the process that took it is there.
LiveLease(i, me) == fresh[i] /\ disk[i].lease # me /\ Coordinates(disk[i].lease, i)

StageList(d) ==
    IF d.onlyVerify THEN <<"acceptance">> ELSE
    CASE d.policy = "PLAN ONLY" -> <<"planning">>
      [] d.policy = "PLAN + EXECUTE" -> <<"planning", "implementation", "acceptance">>
      [] OTHER -> <<"planning", "implementation", "review", "acceptance">>
IndexOf(s, list) == CHOOSE i \in 1..Len(list) : list[i] = s
FirstStage(d) == IF d.stage \in ToSet(StageList(d)) THEN d.stage ELSE StageList(d)[1]
IsLastStage(d, s) == Last(StageList(d)) = s
NextStage(d, s) == StageList(d)[IndexOf(s, StageList(d)) + 1]

-----------------------------------------------------------------------------
(* Who may take a role *)

\* Not reserved or gone, trusted in this folder, not barred from the role earlier in
\* the session, and able to run unattended unless the person named it.
Eligible(d, a, role) ==
    LET r == d.agents[a] IN
    /\ r.state \in {"AVAILABLE", "DEGRADED"} /\ r.trusted /\ r.capacity[role] = "ok"
    /\ <<role, a>> \notin d.timedOut
    /\ IF role \in ReadOnlyRoles /\ a \in Unenforced
       THEN role # "review" /\ d.requested = a
       ELSE r.unattended # "no" \/ d.requested = a

First(S, list) == LET In(a) == a \in S
                      Out(a) == a \notin S
                  IN  SelectSeq(list, In) \o SelectSeq(list, Out)

\* The strategy's agents first, the lead first among equals; an AUTO session implements
\* with the preferred agent; planning and acceptance ask the lead first.
Ranked(d, role) ==
    LET lead == {d.lead} \cap Agents
        byStrategy == CASE d.strategy = "ECONOMY" -> First(Economical, First(lead, AgentOrder))
                        [] d.strategy = "QUALITY" -> First(Strong, First(lead, AgentOrder))
                        [] OTHER -> First(lead, AgentOrder)
    IN  CASE role \in {"planning", "acceptance"} -> First(lead, byStrategy)
          [] role = "implementation" /\ d.requested = "AUTO" /\ d.strategy # "ECONOMY"
               -> First({Preferred}, byStrategy)
          [] OTHER -> byStrategy

\* Acceptance is the lead's; another agent takes over only while no agent has judged
\* the work.  A reviewer is never the implementer on record.
Candidates(d, role) ==
    LET judged == \E a \in Agents : d.agents[a].capacity["acceptance"] \in Verdicts
    IN  {a \in Agents : /\ Eligible(d, a, role)
                        /\ role = "review" => a # d.implementer
                        /\ role = "acceptance" /\ (d.lead = "AUTO" \/ judged)
                             => a = Head(Ranked(d, role))}

-----------------------------------------------------------------------------
(* What an attempt leaves behind *)

Degraded(r) == IF r.state = "AVAILABLE" THEN [r EXCEPT !.state = "DEGRADED"] ELSE r

\* The session's knowledge of an agent becomes r.
Learn(d, a, r) == [d EXCEPT !.agents[a] = r]

RecordSuccess(d, a) ==
    [Learn(d, a, [d.agents[a] EXCEPT !.state = "AVAILABLE", !.unattended = "yes"])
        EXCEPT !.barred = @ \ {a}]

RecordFailure(d, a, role, failure) ==
    LET r == d.agents[a]
        barred == [d EXCEPT !.barred = @ \cup {a}]
        known == IF failure \in Verdicts THEN failure ELSE "failed"
    IN  CASE failure = "transport" -> d
          [] failure = "timeout" -> [d EXCEPT !.timedOut = @ \cup {<<role, a>>}]
          [] failure = "trust" -> Learn(d, a, [r EXCEPT !.trusted = FALSE])
          [] failure \in {"unavailable", "limit"} ->
               Learn(barred, a, [r EXCEPT !.state = "UNAVAILABLE"])
          [] failure = "session" ->
               Learn(barred, a, [r EXCEPT !.state = "UNAVAILABLE", !.capacity[role] = "failed"])
          [] failure = "permission" /\ role = "implementation" ->
               Learn(d, a, [Degraded(r) EXCEPT !.unattended = "no", !.capacity[role] = "failed"])
          [] OTHER -> Learn(d, a, [Degraded(r) EXCEPT !.capacity[role] = known])

\* A verdict judges one state of the work and goes with it.
ExpireVerdicts(d) ==
    LET Cleared(r) == [role \in Roles |-> IF r.capacity[role] \in Verdicts THEN "ok"
                                          ELSE r.capacity[role]]
        Restored(r) == IF /\ r.state = "DEGRADED" /\ r.unattended # "no"
                          /\ \A role \in Roles : Cleared(r)[role] = "ok"
                       THEN "AVAILABLE" ELSE r.state
    IN  [d EXCEPT !.agents = [a \in Agents |-> [d.agents[a] EXCEPT
                                  !.capacity = Cleared(d.agents[a]),
                                  !.state = Restored(d.agents[a])]],
                  !.audit = "none"]

\* Mutant of Reconcile: the stage is kept when the worktree changed.
ReconcileInPlace(d) == [d EXCEPT !.assigned = FALSE, !.evidence = tree]

\* What a resume finds: an assignment that never ended is revoked; a worktree that
\* differs from the last checkpoint is to be validated and judged again.
Reconcile(d) ==
    LET seen == [d EXCEPT !.assigned = FALSE, !.evidence = tree]
    IN  IF d.evidence = tree THEN seen
        ELSE [ExpireVerdicts(seen) EXCEPT
                 !.needsValidation = TRUE, !.reconciled = TRUE,
                 !.stage = IF d.policy = "PLAN ONLY" THEN "planning" ELSE "implementation"]

MayRework(d) == d.reworks < MaxRework

\* Mutant of BeginRework: rounds are not counted.
BeginReworkUncounted(d) == [d EXCEPT !.implementer = Nobody, !.audit = "none"]

BeginRework(d) == [d EXCEPT !.reworks = @ + 1, !.implementer = Nobody, !.audit = "none"]

-----------------------------------------------------------------------------
(* Commands, each under the flock *)

Stay == UNCHANGED <<tree, commands>>
CountCommand == commands < MaxCommands /\ commands' = commands + 1

NewDocument(i, c, q) ==
    [id |-> i, lease |-> c, status |-> "PLANNED", stage |-> "planning", policy |-> q.policy,
     requested |-> q.lead, lead |-> q.lead, strategy |-> q.strategy, failover |-> q.failover,
     verify |-> q.verify,
     agents |-> [a \in Agents |->
        [state |-> IF a \in q.without THEN "RESERVED" ELSE "AVAILABLE",
         unattended |-> "unknown", trusted |-> TRUE, capacity |-> [r \in Roles |-> "ok"]]],
     timedOut |-> {}, barred |-> {}, assigned |-> FALSE, implementer |-> Nobody,
     implemented |-> FALSE, audit |-> "none", clean |-> NoVerdict, accepted |-> NoVerdict,
     reworks |-> 0, needsValidation |-> FALSE, reconciled |-> FALSE,
     onlyVerify |-> FALSE, evidence |-> tree]

\* A goal: refused while the worktree has a session that may go on, or if the agent
\* named to lead is not available.
Start(c, i, q) ==
    /\ ~Running(c) /\ Active = {} /\ i \notin Present
    /\ \A o \in Coordinators : mem[o] # NoSession => mem[o].id # i
    /\ q.lead \notin q.without
    /\ CountCommand
    /\ LET d == NewDocument(i, c, q) IN
       /\ disk' = [disk EXCEPT ![i] = d] /\ mem' = [mem EXCEPT ![c] = d]
       /\ fresh' = [fresh EXCEPT ![i] = TRUE]
       /\ at' = [at EXCEPT ![c] = "enter"]
       /\ local' = [local EXCEPT ![c] = FreshLocals("planning")]
    /\ UNCHANGED tree

\* The choices a resume applies without erasing what the session learnt: reserve an
\* agent, look at one again, name a lead, allow timeouts or trust again, give a test
\* command - or none of these.
Refreshed(d, a) ==
    Learn(d, a, [d.agents[a] EXCEPT !.state = IF a \in d.barred THEN "UNAVAILABLE"
                                              ELSE IF d.agents[a].unattended = "no" THEN "DEGRADED"
                                              ELSE "AVAILABLE"])
MayLead(d, a) == LET r == d.agents[a] IN
                 r.state \in {"AVAILABLE", "DEGRADED"} /\ r.unattended # "no" /\ r.trusted
Adjusted(d, how) ==
    CASE how = "none" -> {d}
      [] how = "reserve" -> {Learn(d, a, [d.agents[a] EXCEPT !.state = "RESERVED"]) : a \in Agents}
      [] how = "refresh" -> {Refreshed(d, a) : a \in Agents}
      [] how = "lead" -> {[d EXCEPT !.requested = a, !.lead = a] : a \in {b \in Agents : MayLead(d, b)}}
      [] how = "timeouts" -> {[d EXCEPT !.timedOut = {}]}
      [] how = "trust" -> {[d EXCEPT !.agents = [a \in Agents |->
                                [d.agents[a] EXCEPT !.trusted = TRUE]]]}
      [] how = "tests" -> {[d EXCEPT !.verify = TRUE]}
ResumeOptions(d) == UNION {Adjusted(d, how) : how \in Adjustments}

\* What a resume takes up: the session as reconciled, with a choice; one whose
\* implementation is done and acceptance is not may be asked to verify only, for good.
TakenUp(i, c) ==
    LET d == [disk[i] EXCEPT !.lease = c]
        asked == {d} \cup IF d.stage = "acceptance" /\ d.implemented
                          THEN {[d EXCEPT !.onlyVerify = TRUE]} ELSE {}
    IN  UNION {ResumeOptions(Reconcile(e)) : e \in asked}

\* Any session of the worktree that may go on (the newest; there is one): taken over
\* with a lease of its own unless its coordinator lives.  A plan whose worktree changed
\* is blocked at once; one that only verifies is refused, once saved, without a test
\* command or away from acceptance.
Resume(c, i) ==
    /\ ~Running(c) /\ i \in Active /\ ~LiveLease(i, c)
    /\ CountCommand
    /\ \E d \in TakenUp(i, c) :
        LET blocked == d.policy = "PLAN ONLY" /\ d.needsValidation
            refused == d.onlyVerify /\ (d.stage # "acceptance" \/ ~d.verify)
            doc == IF blocked THEN [d EXCEPT !.status = "BLOCKED"] ELSE d
        IN  /\ disk' = [disk EXCEPT ![i] = doc]
            /\ IF blocked \/ refused
               THEN UNCHANGED <<at, mem, local>>
               ELSE /\ mem' = [mem EXCEPT ![c] = doc]
                    /\ at' = [at EXCEPT ![c] = IF d.onlyVerify THEN "verifyOnly" ELSE "enter"]
                    /\ local' = [local EXCEPT ![c] = FreshLocals(FirstStage(d))]
    /\ fresh' = [fresh EXCEPT ![i] = TRUE]
    /\ UNCHANGED tree

\* Deletes whatever may go on; no lease is looked at.
Discard ==
    /\ Active # {} /\ CountCommand
    /\ disk' = [i \in Ids |-> IF i \in Active THEN NoSession ELSE disk[i]]
    /\ UNCHANGED <<fresh, at, mem, local, tree>>

\* The factory retires a session for its own work's sake; its lease stays as it was.
Supersede(i) ==
    /\ i \in Active /\ ~LiveLease(i, Nobody) /\ CountCommand
    /\ disk' = [disk EXCEPT ![i].status = "SUPERSEDED"]
    /\ UNCHANGED <<fresh, at, mem, local, tree>>

-----------------------------------------------------------------------------
(* The coordinator.  Every step ends in one checkpoint, but where it says not. *)

MayWrite(c) == LET i == mem[c].id IN disk[i] = NoSession \/ disk[i].lease = c

\* save(): with the evidence of the worktree as it is now.  A lease that is another's
\* raises, which ends the command.
Checkpoint(c, d, place, l) ==
    IF MayWrite(c)
    THEN LET doc == [d EXCEPT !.evidence = tree] IN
         /\ disk' = [disk EXCEPT ![d.id] = doc] /\ fresh' = [fresh EXCEPT ![d.id] = TRUE]
         /\ at' = [at EXCEPT ![c] = place]
         /\ mem' = [mem EXCEPT ![c] = IF place = "idle" THEN NoSession ELSE doc]
         /\ local' = [local EXCEPT ![c] = IF place = "idle" THEN FreshLocals("planning") ELSE l]
    ELSE /\ at' = [at EXCEPT ![c] = "idle"] /\ mem' = [mem EXCEPT ![c] = NoSession]
         /\ local' = [local EXCEPT ![c] = FreshLocals("planning")]
         /\ UNCHANGED <<disk, fresh>>

Ends(c, d) == Checkpoint(c, d, "idle", local[c])
Enters(c, d, stage) == Checkpoint(c, d, "enter", FreshLocals(stage))
Advances(c, d) == IF IsLastStage(d, d.stage) THEN Checkpoint(c, d, "finish", local[c])
                  ELSE Enters(c, d, NextStage(d, d.stage))

\* A resume that only verifies: the tests, then acceptance - or a hand-off.
VerifyOnly(c) ==
    /\ at[c] = "verifyOnly"
    /\ \/ /\ at' = [at EXCEPT ![c] = "enter"] /\ UNCHANGED <<disk, fresh, mem, local>>
       \/ Ends(c, [mem[c] EXCEPT !.status = "HANDOFF REQUIRED"])
    /\ Stay

\* The top of the loop: the stage goes on record.
EnterStage(c) ==
    /\ at[c] = "enter"
    /\ Checkpoint(c, [mem[c] EXCEPT !.stage = local[c].next, !.status = "RUNNING"],
                  IF local[c].next = "implementation" THEN "recover" ELSE "assign",
                  FreshLocals(local[c].next))
    /\ Stay

\* Implementation may be done already: an implementer is on record, or what a lost
\* worker or a person left behind passes the tests.  Nothing is saved here.
Recover(c) ==
    /\ at[c] = "recover"
    /\ LET d == mem[c] IN
       \/ /\ d.implementer # Nobody
          /\ at' = [at EXCEPT ![c] = "validate"] /\ UNCHANGED mem
       \/ /\ d.implementer = Nobody /\ d.needsValidation /\ d.verify
          /\ mem' = [mem EXCEPT ![c] = [d EXCEPT !.implementer = External, !.needsValidation = FALSE]]
          /\ at' = [at EXCEPT ![c] = "validate"]
       \/ /\ d.implementer = Nobody
          /\ at' = [at EXCEPT ![c] = "assign"] /\ UNCHANGED mem
    /\ UNCHANGED <<disk, fresh, local>> /\ Stay

Pending(c) ==
    IF local[c].retry # Nobody THEN {local[c].retry}
    ELSE Candidates(mem[c], mem[c].stage) \ local[c].attempted
\* The first of them in the session's order.
Foremost(c, a) == LET order == Ranked(mem[c], mem[c].stage)
                  IN  \A b \in Pending(c) : IndexOf(a, order) <= IndexOf(b, order)

\* The next worker, chosen from what the session knows now; or none is left.
Assign(c) ==
    /\ at[c] = "assign"
    /\ \/ /\ Pending(c) = {}
          /\ at' = [at EXCEPT ![c] = "fell"] /\ UNCHANGED <<disk, fresh, mem, local>>
       \/ \E a \in Pending(c) :
          /\ Foremost(c, a)
          /\ Checkpoint(c, [mem[c] EXCEPT !.assigned = TRUE], "work",
                        [local[c] EXCEPT !.attempted = @ \cup {a}, !.retry = Nobody,
                                         !.agent = a, !.base = tree])
    /\ Stay

\* The worker changes the worktree, whatever its role.
WorkerEdits(c) ==
    /\ at[c] = "work" /\ tree < MaxTree
    /\ tree' = tree + 1
    /\ UNCHANGED <<disk, fresh, at, mem, local, commands>>

\* What the code makes of an answer: "none" is a success.  An implementer must have
\* changed something (or, in rework and on work in progress, say that nothing is
\* needed), a read-only role nothing; a reviewer that says nothing gave no verdict.
Judged(c) ==
    LET changed == tree # local[c].base
        role == mem[c].stage
    IN  Failures \cup
        IF role = "implementation"
        THEN {"incomplete"} \cup IF changed THEN {"none"}
                                ELSE {"nochange"} \cup IF tree # 0 THEN {"none"} ELSE {}
        ELSE IF changed THEN {"mutated"}
        ELSE CASE role = "planning" -> {"none"}
               [] role = "review" -> {"none", "AUDIT_FINDINGS", "AUDIT_NO_VERDICT"}
               [] role = "acceptance" -> {"none", "ACCEPTANCE_REJECTED"}

\* A success is recorded with what its role decided.
Succeeds(c) ==
    LET d == RecordSuccess([mem[c] EXCEPT !.assigned = FALSE], local[c].agent)
        a == local[c].agent
    IN  CASE d.stage = "planning" ->
               Advances(c, [d EXCEPT !.lead = a])
          [] d.stage = "implementation" ->
               Checkpoint(c, [d EXCEPT !.implementer = a, !.implemented = TRUE], "validate", local[c])
          [] d.stage = "review" ->
               Advances(c, [d EXCEPT !.audit = "CLEAN", !.clean = [by |-> a, at |-> tree]])
          [] OTHER ->
               Advances(c, [d EXCEPT !.accepted = [by |-> a, at |-> tree], !.lead = a])

\* Findings and reasoned rejections go back to the implementer, not to another judge.
GoesBack(c, verdict) ==
    \/ verdict = "AUDIT_FINDINGS"
    \/ /\ verdict = "ACCEPTANCE_REJECTED" /\ ~mem[c].onlyVerify
       /\ mem[c].policy # "PLAN ONLY" /\ MayRework(mem[c])

Finds(c) ==
    /\ Checkpoint(c, [mem[c] EXCEPT !.assigned = FALSE], "fell", [local[c] EXCEPT !.findings = TRUE])

\* Any other failure is recorded before the next candidate is chosen; a lost transport
\* is tried once more; a read-only role that changed the worktree ends the session.
Fails(c, failure) ==
    LET a == local[c].agent
        changed == tree # local[c].base
        d == RecordFailure([mem[c] EXCEPT !.assigned = FALSE,
                                !.needsValidation = @ \/ changed, !.reconciled = @ \/ changed],
                           a, mem[c].stage,
                           IF mem[c].stage \in ReadOnlyRoles /\ changed THEN "mutated" ELSE failure)
        again == failure = "transport" /\ a \notin local[c].retried
    IN  Checkpoint(c, d,
            IF mem[c].stage \in ReadOnlyRoles /\ changed THEN "mutated"
            ELSE IF d.failover THEN "assign" ELSE "fell",
            [local[c] EXCEPT !.retry = IF again THEN a ELSE Nobody,
                             !.retried = IF again THEN @ \cup {a} ELSE @])

Judge(c) ==
    /\ at[c] = "work"
    /\ \E verdict \in Judged(c) :
        CASE verdict = "none" -> Succeeds(c)
          [] GoesBack(c, verdict) -> Finds(c)
          [] OTHER -> Fails(c, verdict)
    /\ Stay

\* The second checkpoint after a read-only role changed the worktree.
Block(c) == /\ at[c] = "mutated"
            /\ Ends(c, [mem[c] EXCEPT !.status = "BLOCKED", !.audit = "mutated"])
            /\ Stay

\* The stage ended without success: rework while rounds are left, else stop.
Fall(c) ==
    /\ at[c] = "fell"
    /\ LET d == mem[c] IN
       IF local[c].findings /\ MayRework(d)
       THEN Enters(c, BeginRework(d), "implementation")
       ELSE Ends(c, IF d.stage = "review"
                    THEN [d EXCEPT !.status = "BLOCKED",
                             !.audit = IF local[c].findings THEN "findings" ELSE "exhausted"]
                    ELSE [d EXCEPT !.status = "HANDOFF REQUIRED"])
    /\ Stay

\* The tests - the person's, the project's or the plan's - run, or cannot be started.
TestOutcomes == {"passed", "failed", "not runnable"}

\* After an implementation: the diff check, then the tests.  A failing test is a finding
\* while rounds are left; recovered changes without tests are handed off.
Validate(c) ==
    /\ at[c] = "validate"
    /\ \E clean, found \in BOOLEAN, outcome \in TestOutcomes :
        LET d == [mem[c] EXCEPT !.verify = @ \/ found]
            handOff == Ends(c, [d EXCEPT !.status = "HANDOFF REQUIRED"])
        IN  IF ~clean \/ ~d.verify
            THEN IF clean /\ ~d.needsValidation THEN Advances(c, d) ELSE handOff
            ELSE CASE outcome = "passed" -> Advances(c, [d EXCEPT !.needsValidation = FALSE])
                   [] outcome = "failed" /\ MayRework(d) ->
                        Enters(c, BeginRework(d), "implementation")
                   [] OTHER -> handOff
    /\ Stay

Finish(c) == /\ at[c] = "finish"
             /\ Checkpoint(c, [mem[c] EXCEPT !.status = "COMPLETE"], "unlink", local[c])
             /\ Stay

\* A finished session is removed unless the caller keeps its report.
Unlink(c) ==
    /\ at[c] = "unlink"
    /\ \E keep \in BOOLEAN : disk' = IF keep THEN disk ELSE [disk EXCEPT ![mem[c].id] = NoSession]
    /\ at' = [at EXCEPT ![c] = "idle"] /\ mem' = [mem EXCEPT ![c] = NoSession]
    /\ local' = [local EXCEPT ![c] = FreshLocals("planning")]
    /\ UNCHANGED fresh /\ Stay

\* Ctrl-C: what is in memory is saved as interrupted.
Interrupt(c) == /\ Running(c) /\ at[c] # "unlink"
                /\ Ends(c, [mem[c] EXCEPT !.status = "INTERRUPTED"])
                /\ Stay

Crash(c) == /\ Running(c)
            /\ at' = [at EXCEPT ![c] = "idle"] /\ mem' = [mem EXCEPT ![c] = NoSession]
            /\ local' = [local EXCEPT ![c] = FreshLocals("planning")]
            /\ UNCHANGED <<disk, fresh>> /\ Stay

\* A lease that was not renewed for 330 seconds.  A worker may run for 1800.
Lapse(i) == /\ i \in Present /\ fresh[i] /\ fresh' = [fresh EXCEPT ![i] = FALSE]
            /\ UNCHANGED <<disk, at, mem, local>> /\ Stay

\* A person edits the worktree.
Edit == /\ tree < MaxTree /\ CountCommand /\ tree' = tree + 1
        /\ UNCHANGED <<disk, fresh, at, mem, local>>
-----------------------------------------------------------------------------
Init == /\ disk = [i \in Ids |-> NoSession] /\ fresh = [i \in Ids |-> FALSE]
        /\ at = [c \in Coordinators |-> "idle"] /\ mem = [c \in Coordinators |-> NoSession]
        /\ local = [c \in Coordinators |-> FreshLocals("planning")]
        /\ tree = 0 /\ commands = 0

Step(c) == \/ VerifyOnly(c) \/ EnterStage(c) \/ Recover(c) \/ Assign(c) \/ Judge(c)
           \/ Block(c) \/ Fall(c) \/ Validate(c) \/ Finish(c) \/ Unlink(c)
Begin(c) == \E i \in Ids : Resume(c, i) \/ \E q \in Requests : Start(c, i, q)
Die(c) == Interrupt(c) \/ Crash(c)

Next == \/ \E c \in Coordinators : Begin(c) \/ Step(c) \/ WorkerEdits(c) \/ Die(c)
        \/ \E i \in Ids : Supersede(i) \/ Lapse(i)
        \/ Discard \/ Edit

\* A resume has let the reason go for which its session was blocked, and has not yet said
\* that it runs: to everyone else the session is final.
Working(c) == Running(c) /\ at[c] # "unlink"
Reopening(c) == Working(c) /\ ~IsResumable(mem[c])

\* The use the code is written for: nobody begins while a session is being reopened;
\* nobody discards a session or edits the worktree while a coordinator runs; no coordinator dies between hearing findings, or finding
\* that a read-only role wrote, and acting on it; none is interrupted while such a role
\* has written (an interrupt takes the worktree as it is for evidence).
AtRest == \A c \in Coordinators : ~Running(c)
Trespassed(c) == at[c] = "work" /\ mem[c].stage \in ReadOnlyRoles /\ tree # local[c].base
Handing(c) == \/ at[c] = "fell" /\ local[c].findings
              \/ /\ at[c] = "enter" /\ local[c].next = "implementation"
                 /\ mem[c].stage \in {"review", "acceptance"}
              \/ at[c] = "mutated"
Dies(c) == /\ ~Handing(c)
           /\ \/ Crash(c)
              \/ ~Trespassed(c) /\ Interrupt(c)
Attended == \/ \E c \in Coordinators : Step(c) \/ WorkerEdits(c) \/ Dies(c)
            \/ /\ \A c \in Coordinators : ~Reopening(c)
               /\ \E c \in Coordinators : Begin(c)
            \/ \E i \in Ids : Supersede(i)
            \/ AtRest /\ (Discard \/ Edit)

\* Moreover every worker ends, or its coordinator is gone, before a lease runs out.
CarefulNext == \/ Attended
               \/ \E i \in Present : ~Coordinates(disk[i].lease, i) /\ Lapse(i)

Spec == Init /\ [][Next]_vars
CarefulSpec == /\ Init /\ [][CarefulNext]_vars
               /\ \A c \in Coordinators : WF_vars(Step(c))
-----------------------------------------------------------------------------
(* Properties *)

\* One coordinator works in a worktree, and the session on disk is its own.  (One that
\* has finished may still remove its session's file.)
OneCoordinator ==
    \A c \in Coordinators : Working(c) =>
        /\ \A o \in Coordinators \ {c} : ~Working(o)
        /\ disk[mem[c].id] # NoSession /\ disk[mem[c].id].lease = c

\* What is called complete was accepted as it stands, and - where an audit was asked
\* for - found clean as it stands by an agent that is not the implementer on record;
\* partial or recovered changes passed the tests first.
CompleteIsEarned ==
    \A i \in Present :
        LET d == disk[i] IN
        d.status = "COMPLETE" /\ d.policy # "PLAN ONLY" =>
            /\ d.accepted.by # Nobody /\ d.accepted.at = d.evidence
            /\ d.policy = "PLAN + EXECUTE + INDEPENDENT AUDIT" =>
                  /\ d.audit = "CLEAN" /\ d.clean.at = d.evidence
                  /\ d.clean.by # d.implementer
            /\ ~d.needsValidation

\* A run ends by itself: every stage runs out of workers, rework out of rounds.
RunEnds == \A c \in Coordinators : Running(c) ~> ~Running(c)
=============================================================================
