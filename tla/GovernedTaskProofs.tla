------------------------- MODULE GovernedTaskProofs -------------------------
(***************************************************************************)
(* A governed task is completed only with what was verified as it stands,  *)
(* and no verdict of a run that knows its implementer is the implementer's *)
(* own; a fragment that governance rejected does not stay: for any         *)
(* providers, roles and bounds, through deaths, resumes, approvals and     *)
(* edits between runs.                                                     *)
(***************************************************************************)
EXTENDS GovernedTask, TLAPS

RunFields == {"selected", "cur", "n", "tried", "next", "result", "final", "last", "fragment",
              "approved", "rem", "asked", "todo", "round"}
IsRun(r) == r = [f \in RunFields |-> r[f]]

\* From the opening of the reviews on, and from their acceptance on.
Reviewed == {"review", "remediate", "verify", "verifying", "gate"}
Accepted == {"verify", "verifying", "gate"}

\* A run at work has not completed the task.
Unfinished == at # "idle" => state # "complete"
\* Who the run knows as the implementer is on record when the reviews open ...
Credited == (at \in Reviewed \/ state = "complete") /\ run.final # Nobody => implementer = run.final
\* ... and gave none of the verdicts once they are accepted.
JudgedByOthers == (at \in Accepted \/ state = "complete") /\ run.final # Nobody
                    => \A r \in run.asked : run.round[r].by # run.final
\* An approved task is only verified.
OnlyVerifies == at \notin Accepted \cup {"idle"} => ~run.approved
\* A resumed approval is of the tree as it stands.
ApprovalHolds == at \in {"verify", "verifying"} /\ run.approved => decision = tree
\* Past the verification, and for good, the tree is what was verified or approved.
TreeIsVerified == at = "gate" \/ state = "complete" =>
    verification.status = "passed" /\ (verification.of = tree \/ decision = tree)

RunInv == /\ IsRun(run) /\ Unfinished /\ Credited /\ JudgedByOthers /\ OnlyVerifies
          /\ ApprovalHolds /\ TreeIsVerified

USE DEF Reviewed, Accepted

LEMMA FreshIsRun == IsRun(Fresh)
BY DEF IsRun, Fresh, RunFields

\* Wherever nothing has been opened for review, the invariant asks nothing.
LEMMA Early ==
  ASSUME IsRun(run'), state' # "complete", at' \notin Reviewed, at' = "idle" \/ ~run'.approved
  PROVE  RunInv'
BY DEF RunInv, Unfinished, Credited, JudgedByOthers, OnlyVerifies, ApprovalHolds, TreeIsVerified

\* A run that leaves the task, wherever the task may be moved to then.
LEMMA Leaving ==
  ASSUME RunInv, at # "idle", Leave,
         state' = state \/ state' \in {"awaiting_human", "blocked", "failed"}
  PROVE  RunInv'
<1>1. state' # "complete"
  BY DEF RunInv, Unfinished
<1>2. at' = "idle" /\ run' = Fresh
  BY DEF Leave
<1>3. QED
  BY <1>1, <1>2, Early, FreshIsRun

LEMMA InitInv == Init => RunInv
BY FreshIsRun DEF Init, RunInv, Unfinished, Credited, JudgedByOthers, OnlyVerifies, ApprovalHolds, TreeIsVerified, Fresh

LEMMA BeginInv ==
  ASSUME RunInv, NEW s \in Resources, Begin(s) PROVE RunInv'
<1>1. state' # "complete" /\ at' = "planned"
  BY DEF Begin, Ended
<1>2. IsRun(run') /\ ~run'.approved
  BY FreshIsRun DEF Begin, IsRun, RunFields, Fresh
<1>3. QED
  BY <1>1, <1>2, Early

LEMMA PrepareInv == ASSUME RunInv, Prepare PROVE RunInv'
<1>1. state' # "complete" /\ at' = "idle" /\ run' = run
  BY DEF Prepare
<1>2. QED
  BY <1>1, Early DEF RunInv

LEMMA PlannedInv ==
  ASSUME RunInv, ParkBefore \/ BlockUnrouted \/ TakeUp \/ StartImplementing PROVE RunInv'
<1>1. CASE ParkBefore
  BY <1>1, Leaving DEF Move, ParkBefore
<1>2. CASE BlockUnrouted
  BY <1>2, Leaving DEF Move, BlockUnrouted
<1>3. CASE TakeUp
  <2>1. state' # "complete" /\ at' = "credit"
    BY <1>3 DEF TakeUp, RunInv, Unfinished
  <2>2. IsRun(run') /\ ~run'.approved
    BY <1>3 DEF TakeUp, RunInv, OnlyVerifies, IsRun, RunFields
  <2>3. QED
    BY <2>1, <2>2, Early
<1>4. CASE StartImplementing
  <2>1. state' # "complete" /\ at' = "attempt"
    BY <1>4 DEF StartImplementing, RunInv, Unfinished
  <2>2. IsRun(run') /\ ~run'.approved
    BY <1>4 DEF StartImplementing, RunInv, OnlyVerifies, IsRun, RunFields
  <2>3. QED
    BY <2>1, <2>2, Early
<1>5. QED
  BY <1>1, <1>2, <1>3, <1>4

LEMMA FailTaskInv ==
  ASSUME RunInv, at # "idle", NEW stage, NEW restored, FailTask(stage, restored) PROVE RunInv'
BY Leaving DEF Move, FailTask

\* Every step of the attempt loop is another attempt, a credit or a failed task.
LEMMA ImplementationInv ==
  ASSUME RunInv, Implementation PROVE RunInv'
<1> USE DEF RunInv, Unfinished, OnlyVerifies
<1>1. CASE NotInstalled
  <2>1. IsRun(run') /\ ~run'.approved
    BY <1>1 DEF NotInstalled, IsRun, RunFields
  <2>2. QED
    BY <1>1, <2>1, Early DEF NotInstalled
<1>2. CASE Launch
  <2>1. /\ state' # "complete"
          /\ \/ at' = "working" /\ run' = run /\ ~run.approved
             \/ at' = "idle" /\ run' = Fresh
    BY <1>2 DEF Launch, MoveUnless, Move, Leave
  <2>2. QED
    BY <2>1, Early, FreshIsRun
<1>3. CASE Succeed
  <2>1. IsRun(run') /\ ~run'.approved
    BY <1>3 DEF Succeed, IsRun, RunFields
  <2>2. QED
    BY <1>3, <2>1, Early DEF Succeed
<1>4. CASE Rollback
  BY <1>4, Early DEF Rollback
<1>5. CASE HandOff
  <2>1. IsRun(run') /\ ~run'.approved
    BY <1>5 DEF HandOff, IsRun, RunFields
  <2>2. QED
    BY <1>5, <2>1, Early DEF HandOff
<1>6. CASE Govern
  <2>1. IsRun(run') /\ ~run'.approved
    BY <1>6 DEF Govern, IsRun, RunFields
  <2>2. QED
    BY <1>6, <2>1, Early DEF Govern
<1>7. CASE FailImplementation
  BY <1>7, FailTaskInv DEF FailImplementation
<1>8. CASE FailRollback
  BY <1>8, Leaving DEF Move, FailRollback
<1>9. CASE \E result \in Results : Report(result)
  <2>1. PICK result : Report(result)
    BY <1>9
  <2>2. IsRun(run') /\ ~run'.approved
    BY <2>1 DEF Report, IsRun, RunFields
  <2>3. QED
    BY <2>1, <2>2, Early DEF Report
<1>10. CASE \E p \in Providers : HandOver(p)
  <2>1. PICK p : HandOver(p)
    BY <1>10
  <2>2. IsRun(run') /\ ~run'.approved
    BY <2>1 DEF HandOver, IsRun, RunFields
  <2>3. QED
    BY <2>1, <2>2, Early DEF HandOver
<1>11. CASE \E s \in salvage : Promote(s)
  <2>1. PICK s : Promote(s)
    BY <1>11
  <2>2. IsRun(run') /\ ~run'.approved
    BY <2>1 DEF Promote, IsRun, RunFields
  <2>3. QED
    BY <2>1, <2>2, Early DEF Promote
<1>12. CASE \E s \in salvage : CapturePromoted(s)
  <2>1. PICK s : CapturePromoted(s)
    BY <1>12
  <2>2. IsRun(run') /\ ~run'.approved
    BY <2>1 DEF CapturePromoted, Salvaged, IsRun, RunFields
  <2>3. QED
    BY <2>1, <2>2, Early DEF CapturePromoted
<1>13. CASE \E s \in salvage : Abandon(s)
  BY <1>13, FailTaskInv DEF Abandon
<1>14. QED
  BY <1>1, <1>2, <1>3, <1>4, <1>5, <1>6, <1>7, <1>8, <1>9, <1>10, <1>11, <1>12, <1>13
     DEF Implementation

\* Opening the reviews: the implementer the run knows is now on record.
LEMMA ReviewingInv ==
  ASSUME RunInv, at \notin Accepted \cup {"idle"}, state' # "complete", NEW roles, Reviewing(roles),
         run.final # Nobody => implementer' = run.final
  PROVE  RunInv'
<1>1. IsRun(run') /\ run'.final = run.final /\ run'.approved = run.approved /\ at' = "review"
  BY DEF Reviewing, RunInv, IsRun, RunFields
<1>2. QED
  BY <1>1 DEF RunInv, Unfinished, Credited, JudgedByOthers, OnlyVerifies, ApprovalHolds, TreeIsVerified

LEMMA OpenReviewsInv == ASSUME RunInv, OpenReviews PROVE RunInv'
<1>1. run.final # Nobody => implementer' = run.final
  BY DEF OpenReviews, Credit, SetImplementer
<1>2. CASE state' = "reviewing" /\ Reviewing(Roles)
  BY <1>1, <1>2, ReviewingInv DEF OpenReviews, Credit
<1>3. CASE UNCHANGED state /\ Leave
  BY <1>3, Early, FreshIsRun DEF Leave, OpenReviews, Credit, RunInv, Unfinished
<1>4. QED
  BY <1>2, <1>3 DEF OpenReviews

\* A verdict changes nothing but what is still to do and who said what.
LEMMA VerdictInv ==
  ASSUME RunInv, (\E r \in Roles : Reuse(r)) \/ \E r \in Roles, by \in Providers, s \in Outcomes : Ask(r, by, s)
  PROVE  RunInv'
<1>1. at = "review" /\ at' = "review" /\ UNCHANGED <<state, implementer>>
  BY DEF Reuse, Ask, record
<1>2. PICK r, heard : run' = Heard(r, heard)
  BY Zenon DEF Reuse, Ask, Conclude
<1>3. IsRun(run') /\ run'.final = run.final /\ run'.approved = run.approved
  BY <1>2 DEF Heard, RunInv, IsRun, RunFields
<1>4. QED
  BY <1>1, <1>3 DEF RunInv, Unfinished, Credited, JudgedByOthers, OnlyVerifies, ApprovalHolds, TreeIsVerified

LEMMA ReviewInv == ASSUME RunInv, Review PROVE RunInv'
<1> USE DEF Closing
<1>1. CASE ParkFragment
  BY <1>1, Leaving DEF Move, ParkFragment, Credit, Park
<1>2. CASE ParkUnindependent \/ ParkAtLimit
  BY <1>2, Leaving DEF Move, ParkUnindependent, ParkAtLimit, Park
<1>3. CASE AcceptReviews
  <2>1. run.final # Nobody => \A r \in run.asked : run.round[r].by # run.final
    BY <1>3 DEF AcceptReviews, Independent, NotIndependent
  <2>2. ~run.approved
    BY <1>3 DEF AcceptReviews, RunInv, OnlyVerifies
  <2>3. QED
    BY <1>3, <2>1, <2>2 DEF AcceptReviews, record, RunInv, Unfinished, Credited, JudgedByOthers,
                            OnlyVerifies, ApprovalHolds, TreeIsVerified
<1>4. CASE StartRemediation
  <2>1. CASE UNCHANGED state /\ Leave
    BY <1>4, <2>1, Early, FreshIsRun DEF StartRemediation, Leave, RunInv, Unfinished
  <2>2. CASE state' = "remediating" /\ at' = "remediate" /\ run' = [run EXCEPT !.rem = NextRound]
    <3>1. IsRun(run') /\ run'.final = run.final /\ run'.approved = run.approved
      BY <2>2 DEF RunInv, IsRun, RunFields
    <3>2. QED
      BY <1>4, <2>2, <3>1 DEF StartRemediation, RunInv, Unfinished, Credited, JudgedByOthers,
                              OnlyVerifies, ApprovalHolds, TreeIsVerified, record
  <2>3. QED
    BY <1>4, <2>1, <2>2 DEF StartRemediation, Move
<1>5. CASE Remediate
  <2>1. run.final # Nobody => implementer' = run.final
    BY <1>5 DEF Remediate, record, RunInv, Credited
  <2>2. CASE UNCHANGED state /\ Leave
    BY <1>5, <2>2, Early, FreshIsRun DEF Remediate, Leave, RunInv, Unfinished
  <2>3. CASE state' = "reviewing" /\ Reviewing(CalledIn)
    BY <1>5, <2>1, <2>3, ReviewingInv DEF Remediate
  <2>4. QED
    BY <1>5, <2>2, <2>3 DEF Remediate, Move
<1>6. CASE FailRemediation
  BY <1>6, FailTaskInv DEF FailRemediation
<1>7. QED
  BY <1>1, <1>2, <1>3, <1>4, <1>5, <1>6, OpenReviewsInv, VerdictInv DEF Review

\* Verification and the gates: a failure leaves the run, a pass is of this very tree.
LEMMA SettleInv == ASSUME RunInv, Settle PROVE RunInv'
<1> USE DEF record
<1>1. CASE StartVerification
  <2>1. CASE at' = "verifying" /\ UNCHANGED run /\ state' = "verifying"
    BY <1>1, <2>1 DEF StartVerification, RunInv, Unfinished, Credited, JudgedByOthers,
                      OnlyVerifies, ApprovalHolds, TreeIsVerified
  <2>2. CASE UNCHANGED state /\ Leave
    BY <1>1, <2>2, Leaving DEF StartVerification
  <2>3. QED
    BY <1>1, <2>1, <2>2 DEF StartVerification, MoveUnless, Move
<1>2. CASE Pass
  BY <1>2 DEF Pass, Verified, View, RunInv, Unfinished, Credited, JudgedByOthers,
              OnlyVerifies, ApprovalHolds, TreeIsVerified
<1>3. CASE FailVerification
  <2>1. CASE run.approved
    BY <1>3, <2>1, Leaving DEF Move, FailVerification
  <2>2. CASE ~run.approved
    BY <1>3, <2>2, FailTaskInv DEF FailVerification
  <2>3. QED
    BY <2>1, <2>2
<1>4. CASE BlockUnverified \/ ParkAtBoundary \/ BlockCompletion
  BY <1>4, Leaving DEF Move, BlockUnverified, ParkAtBoundary, BlockCompletion
<1>5. CASE Complete
  <2>1. CASE at' = "idle" /\ UNCHANGED run /\ state' = "complete"
    BY <1>5, <2>1 DEF Complete, RunInv, Unfinished, Credited, JudgedByOthers,
                      OnlyVerifies, ApprovalHolds, TreeIsVerified
  <2>2. CASE UNCHANGED state /\ Leave
    BY <1>5, <2>2, Leaving DEF Complete
  <2>3. QED
    BY <1>5, <2>1, <2>2 DEF Complete, Move
<1>6. QED
  BY <1>1, <1>2, <1>3, <1>4, <1>5 DEF Settle

\* What people do between runs, and what a death does to one.
LEMMA PeopleInv ==
  ASSUME RunInv, Approve \/ ResumeApproved \/ Cancel \/ Edit \/ Crash PROVE RunInv'
<1>1. CASE Approve
  <2>1. state' # "complete" /\ at' = "idle" /\ run' = run
    BY <1>1 DEF Approve
  <2>2. QED
    BY <2>1, Early DEF RunInv
<1>2. CASE ResumeApproved
  <2>1. IsRun(run') /\ run'.final = Nobody /\ state' # "complete"
    BY <1>2, FreshIsRun DEF ResumeApproved, IsRun, RunFields, Fresh
  <2>2. decision' = tree' /\ (at' = "gate" => verification'.status = "passed")
        /\ at' \in {"gate", "verify"}
    BY <1>2 DEF ResumeApproved, StillApproved, record
  <2>3. QED
    BY <2>1, <2>2 DEF RunInv, Unfinished, Credited, JudgedByOthers,
                      OnlyVerifies, ApprovalHolds, TreeIsVerified
<1>3. CASE Cancel
  BY <1>3, Early, FreshIsRun DEF Cancel
<1>4. CASE Edit
  <2>1. state' # "complete" /\ at' = "idle" /\ run' = run
    BY <1>4 DEF Edit, Ended
  <2>2. QED
    BY <2>1, Early DEF RunInv
<1>5. CASE Crash
  BY <1>5, Leaving DEF Crash
<1>6. QED
  BY <1>1, <1>2, <1>3, <1>4, <1>5

LEMMA NextInv == ASSUME RunInv, [Next]_vars PROVE RunInv'
<1>1. CASE UNCHANGED vars
  BY <1>1 DEF vars, record, RunInv, IsRun, Unfinished, Credited, JudgedByOthers,
              OnlyVerifies, ApprovalHolds, TreeIsVerified
<1>2. QED
  BY <1>1, BeginInv, PrepareInv, PlannedInv, ImplementationInv, ReviewInv, SettleInv, PeopleInv
     DEF Next, Step

LEMMA Invariant == Spec => []RunInv
BY InitInv, NextInv, PTL DEF Spec

\* A completed task stands on a verification of exactly this tree, or on one a person
\* approved exactly this tree after: no edit, retry, resume or reuse of a plan slips in
\* between (run_deterministic_verification, resume).
THEOREM VerifiedAsCompletedCorrect == Spec => []VerifiedAsCompleted
<1>1. RunInv => VerifiedAsCompleted
  BY DEF RunInv, TreeIsVerified, VerifiedAsCompleted
<1>2. QED
  BY <1>1, Invariant, PTL

\* When the run that completes a task knows who implemented it, none of the verdicts it
\* was completed on is that implementer's own, whoever failed over to whom and whatever
\* was found on file (build_reviewer_candidates, execute_review_cycle).
THEOREM NoKnownSelfReviewCorrect == Spec => []NoKnownSelfReview
<1>1. RunInv => NoKnownSelfReview
  BY DEF RunInv, Credited, JudgedByOthers, NoKnownSelfReview, NoSelfReview
<1>2. QED
  BY <1>1, Invariant, PTL
-----------------------------------------------------------------------------
(***************************************************************************)
(* A fragment that governance rejected.                                    *)
(***************************************************************************)
\* A stage in which providers write was cut short, so nobody saw what they left.
CutShort == struck \cap {"implementing", "remediating"} # {}
\* What may stay in the repository.
Fine == \/ tree = 0 \/ CutShort \/ unrestored
        \/ tree \in attested \/ Person \in makers[tree] \/ decision = tree

Versioned == edits \in Versions /\ makers = [v \in Versions |-> makers[v]]

\* An attempt begins on the baseline; what it leaves is claimed finished, or is a fragment, and
\* then a candidate is on file that says so to every later run; a failed task keeps no fragment.
FragmentsAreKnown ==
  /\ at \in {"attempt", "working", "handoff"} => tree = 0
  /\ at = "judge" /\ run.result = "success" => Fine
  /\ at \in {"credit"} \cup Reviewed => run.fragment \/ Fine
  /\ at \notin Implementing \cup Reviewed => candidates # {} \/ Fine
  /\ at # "idle" /\ run.fragment => candidates # {}
  /\ at # "idle" /\ run.approved => decision = tree
  /\ state = "failed" => at = "idle" /\ Fine

FragmentInv == RunInv /\ Versioned /\ FragmentsAreKnown

\* Claims, deaths and approvals only add to what may stay.
LEMMA StaysFine ==
  ASSUME Fine, tree' = tree, makers' = makers, attested \subseteq attested',
         struck \subseteq struck', unrestored => unrestored', decision' \in {decision, tree}
  PROVE  Fine'
BY DEF Fine, CutShort

\* A run that leaves the task, and what people do when there is none.
LEMMA LeftFine ==
  ASSUME Versioned', at' = "idle", candidates' # {} \/ Fine', state' = "failed" => Fine'
  PROVE  Versioned' /\ FragmentsAreKnown'
BY DEF FragmentsAreKnown, Implementing

\* A run that leaves the tree and the candidates as they are.
LEMMA LeavesFine ==
  ASSUME FragmentInv, at # "idle", Leave, tree' = tree, candidates' = candidates,
         UNCHANGED <<makers, attested, edits, unrestored, decision>>, struck \subseteq struck',
         Fine \/ candidates # {}, state' # "failed" \/ Fine
  PROVE  Versioned' /\ FragmentsAreKnown'
<1>1. Versioned' /\ at' = "idle"
  BY DEF FragmentInv, Versioned, Leave
<1>2. Fine => Fine'
  BY StaysFine
<1>3. QED
  BY <1>1, <1>2, LeftFine

LEMMA WritesVersioned ==
  ASSUME Versioned, NEW who, Writes(who)
  PROVE  Versioned' /\ makers'[tree'] = makers[tree] \cup {who}
<1> DEFINE v == edits + 1
<1>1. v \in Versions /\ tree' = v /\ edits' = v /\ makers' = [makers EXCEPT ![v] = makers[tree] \cup {who}]
  BY BoundsAssumption DEF Versioned, Writes, Versions
<1> HIDE DEF v
<1>2. makers' = [w \in Versions |-> makers'[w]] /\ makers'[v] = makers[tree] \cup {who}
  BY <1>1 DEF Versioned
<1>3. QED
  BY <1>1, <1>2 DEF Versioned

LEMMA MayWriteVersioned == ASSUME Versioned, NEW who, MayWrite(who) PROVE Versioned'
BY WritesVersioned DEF MayWrite, Versioned

\* A task that fails is put back, is marked as not, or was fine.
LEMMA FailTaskFine ==
  ASSUME FragmentInv, at # "idle", NEW stage, NEW restored, FailTask(stage, restored),
         restored \/ Fine, UNCHANGED <<candidates, decision, makers, attested, edits, struck>>
  PROVE  Versioned' /\ FragmentsAreKnown'
<1>1. at' = "idle" /\ Versioned'
  BY BoundsAssumption DEF FragmentInv, Versioned, FailTask, RestoreOr, Move, Leave, Versions
<1>2. Fine'
  <2>1. CASE UNCHANGED <<tree, unrestored>> /\ Fine
    BY <2>1, StaysFine
  <2>2. CASE restored
    BY <2>2 DEF FailTask, RestoreOr, Fine
  <2>3. QED
    BY <2>1, <2>2 DEF FailTask
<1>3. QED
  BY <1>1, <1>2, LeftFine

LEMMA InitFragment == Init => FragmentInv
BY InitInv, BoundsAssumption, FreshIsRun
   DEF Init, Implementing, FragmentInv, FragmentsAreKnown, Versioned, Versions, Fine, Fresh

LEMMA PlannedFine ==
  ASSUME FragmentInv, ParkBefore \/ BlockUnrouted \/ TakeUp \/ StartImplementing
  PROVE  Versioned' /\ FragmentsAreKnown'
<1> USE DEF Implementing, FragmentInv, FragmentsAreKnown, record, ghosts
<1>1. CASE ParkBefore
  BY <1>1, LeavesFine DEF ParkBefore, Move
<1>2. CASE BlockUnrouted
  BY <1>2, LeavesFine DEF BlockUnrouted, Move
<1>3. CASE TakeUp
  <2>1. /\ Versioned' /\ at' = "credit" /\ state' # "failed" /\ (candidates # {} \/ Fine)
        /\ UNCHANGED <<tree, makers, attested, struck, unrestored, decision>>
    BY <1>3 DEF TakeUp, Versioned
  <2>2. Fine => Fine'
    BY <2>1, StaysFine
  <2>3. ~run'.approved /\ ((run'.fragment /\ candidates' # {}) \/ (~run'.fragment /\ candidates = {}))
    BY <1>3 DEF TakeUp, RunInv, OnlyVerifies, IsRun, RunFields, Parked, Candidate
  <2>4. QED
    BY <2>1, <2>2, <2>3
<1>4. CASE StartImplementing
  <2>1. /\ Versioned' /\ at' = "attempt" /\ state' # "failed" /\ tree' = 0
    BY <1>4 DEF StartImplementing, Versioned, Interrupted
  <2>2. ~run'.approved /\ (run'.fragment => candidates' # {})
    BY <1>4 DEF StartImplementing, RunInv, OnlyVerifies, IsRun, RunFields
  <2>3. QED
    BY <2>1, <2>2
<1>5. QED
  BY <1>1, <1>2, <1>3, <1>4

\* The attempt loop: a fragment is rolled back, put on file as a candidate, or marked.
LEMMA ImplementationFine ==
  ASSUME FragmentInv, Implementation PROVE Versioned' /\ FragmentsAreKnown'
<1> USE DEF Implementing, FragmentInv, FragmentsAreKnown, ghosts, record
<1>0. /\ at \in Implementing => ~run.approved /\ IsRun(run) /\ state # "failed"
      /\ \A r : IsRun([run EXCEPT !.fragment = r]) /\ IsRun([run EXCEPT !.result = r])
  BY DEF RunInv, OnlyVerifies, IsRun, RunFields
<1>1. CASE NotInstalled
  <2>1. /\ at' = "judge" /\ Versioned' /\ UNCHANGED <<state, candidates>>
        /\ ~run'.approved /\ run'.fragment = run.fragment /\ run'.result = "eligible"
    BY <1>0, <1>1 DEF NotInstalled, IsRun, RunFields, Versioned
  <2>2. QED
    BY <1>0, <1>1, <2>1 DEF NotInstalled
<1>2. CASE Launch
  <2>1. CASE UNCHANGED state /\ Leave
    <3>1. Fine
      BY <1>2 DEF Launch, Fine
    <3>2. QED
      BY <1>2, <2>1, <3>1, LeavesFine DEF Launch
  <2>2. CASE at' = "working" /\ UNCHANGED run /\ state' = "implementing"
    BY <1>2, <2>2, <1>0 DEF Launch, Versioned
  <2>3. QED
    BY <1>2, <2>1, <2>2 DEF Launch, MoveUnless, Move
<1>3. CASE Succeed
  <2>1. /\ at' = "credit" /\ Versioned' /\ UNCHANGED <<state, candidates, tree, makers, attested, struck, unrestored, decision>>
        /\ ~run'.approved /\ run'.fragment = run.fragment /\ Fine
    BY <1>0, <1>3 DEF Succeed, IsRun, RunFields, Versioned
  <2>2. Fine'
    BY <2>1, StaysFine
  <2>3. QED
    BY <1>0, <1>3, <2>1, <2>2 DEF Succeed
<1>4. CASE Rollback
  <2>1. Versioned' /\ at' = "handoff" /\ UNCHANGED <<state, candidates, run>> /\ tree' = 0
    BY <1>4, BoundsAssumption DEF Rollback, Versioned, Versions
  <2>2. QED
    BY <1>0, <1>4, <2>1 DEF Rollback
<1>5. CASE HandOff
  <2>1. /\ at' = "attempt" /\ Versioned' /\ UNCHANGED <<state, candidates, tree>>
        /\ ~run'.approved /\ run'.fragment = run.fragment
    BY <1>0, <1>5 DEF HandOff, IsRun, RunFields, Versioned
  <2>2. QED
    BY <1>0, <1>5, <2>1 DEF HandOff
<1>6. CASE Govern
  <2>1. /\ at' = "credit" /\ Versioned' /\ UNCHANGED <<state, tree>>
        /\ ~run'.approved /\ run'.fragment /\ candidates' # {}
    BY <1>0, <1>6 DEF Govern, IsRun, RunFields, Versioned, Candidate
  <2>2. QED
    BY <1>0, <1>6, <2>1 DEF Govern
<1>7. CASE FailImplementation
  BY <1>7, FailTaskFine DEF FailImplementation
<1>8. CASE FailRollback
  <2>1. at' = "idle" /\ Versioned' /\ unrestored'
    BY <1>8 DEF FailRollback, Versioned, Move, Leave
  <2>2. QED
    BY <2>1, LeftFine DEF Fine
<1>9. CASE \E result \in Results : Report(result)
  <2>1. PICK result \in Results : Report(result)
    BY <1>9
  <2>2. Versioned' /\ at' = "judge" /\ UNCHANGED <<state, candidates>>
    BY <2>1, MayWriteVersioned DEF Report
  <2>3. ~run'.approved /\ run'.fragment = run.fragment /\ run'.result = result
    BY <1>0, <2>1 DEF Report, IsRun, RunFields
  <2>4. result = "success" => Fine'
    BY <2>1 DEF Report, Fine
  <2>5. QED
    BY <1>0, <2>1, <2>2, <2>3, <2>4 DEF Report
<1>10. CASE \E p \in Providers : HandOver(p)
  <2>1. PICK p : HandOver(p)
    BY <1>10
  <2>2. /\ at' = "rollback" /\ Versioned' /\ UNCHANGED <<state, candidates>>
        /\ ~run'.approved /\ run'.fragment = run.fragment
    BY <1>0, <2>1 DEF HandOver, IsRun, RunFields, Versioned
  <2>3. QED
    BY <1>0, <2>1, <2>2 DEF HandOver
<1>11. CASE \E s \in salvage : Promote(s)
  <2>1. PICK s : Promote(s)
    BY <1>11
  <2>2. at' = "promoting" /\ UNCHANGED <<state, candidates, edits, makers>> /\ ~run'.approved /\ run'.fragment = run.fragment
    BY <1>0, <2>1 DEF Promote, IsRun, RunFields
  <2>3. Versioned'
    BY <2>1, <2>2 DEF Versioned, Promote
  <2>4. QED
    BY <1>0, <2>1, <2>2, <2>3 DEF Promote
<1>12. CASE \E s \in salvage : CapturePromoted(s)
  <2>1. PICK s : CapturePromoted(s)
    BY <1>12
  <2>2. /\ at' = "credit" /\ Versioned' /\ UNCHANGED <<state, tree>>
        /\ ~run'.approved /\ run'.fragment /\ candidates' # {}
    BY <1>0, <2>1 DEF CapturePromoted, Salvaged, IsRun, RunFields, Versioned, Candidate
  <2>3. QED
    BY <1>0, <2>1, <2>2 DEF CapturePromoted
<1>13. CASE \E s \in salvage : Abandon(s)
  BY <1>13, FailTaskFine DEF Abandon
<1>14. QED
  BY <1>1, <1>2, <1>3, <1>4, <1>5, <1>6, <1>7, <1>8, <1>9, <1>10, <1>11, <1>12, <1>13
     DEF Implementation

\* Credit, reviews and remediation: what is written here is claimed finished.
LEMMA ReviewFine ==
  ASSUME FragmentInv, Review PROVE Versioned' /\ FragmentsAreKnown'
<1> USE DEF Implementing, FragmentInv, FragmentsAreKnown, ghosts, record, Closing
<1>0. at \in {"credit"} \cup Reviewed => IsRun(run) /\ state # "failed" /\ (Fine \/ candidates # {})
  BY DEF RunInv
<1>1. CASE ParkFragment
  BY <1>0, <1>1, LeavesFine DEF ParkFragment, Credit, Park, Move
<1>2. CASE ParkUnindependent \/ ParkAtLimit
  BY <1>0, <1>2, LeavesFine DEF ParkUnindependent, ParkAtLimit, Park, Move
<1>3. ASSUME at \in {"credit"} \cup Reviewed, at' \in Reviewed, UNCHANGED <<tree, makers, attested, edits, unrestored, decision, struck>>,
             candidates' = candidates, state' # "failed",
             run'.fragment = run.fragment, run'.approved = run.approved
      PROVE  Versioned' /\ FragmentsAreKnown'
  <2>1. Versioned' /\ (Fine => Fine')
    BY <1>3, StaysFine DEF Versioned
  <2>2. QED
    BY <1>3, <2>1
<1>4. CASE OpenReviews
  <2>1. CASE UNCHANGED <<state, chk>> /\ Leave
    BY <1>0, <1>4, <2>1, LeavesFine DEF OpenReviews, Credit
  <2>2. CASE state' = "reviewing" /\ Reviewing(Roles)
    <3>1. at' = "review" /\ run'.fragment = run.fragment /\ run'.approved = run.approved
      BY <1>0, <1>4, <2>2 DEF OpenReviews, Credit, Reviewing, IsRun, RunFields
    <3>2. QED
      BY <1>3, <1>4, <2>2, <3>1 DEF OpenReviews, Credit
  <2>3. QED
    BY <1>4, <2>1, <2>2 DEF OpenReviews
<1>5. CASE AcceptReviews
  BY <1>0, <1>3, <1>5 DEF AcceptReviews
<1>6. CASE StartRemediation
  <2>1. CASE UNCHANGED state /\ Leave
    BY <1>0, <1>6, <2>1, LeavesFine DEF StartRemediation
  <2>2. CASE state' = "remediating" /\ at' = "remediate" /\ run' = [run EXCEPT !.rem = NextRound]
    <3>1. run'.fragment = run.fragment /\ run'.approved = run.approved
      BY <1>0, <1>6, <2>2 DEF StartRemediation, IsRun, RunFields
    <3>2. QED
      BY <1>3, <1>6, <2>2, <3>1 DEF StartRemediation
  <2>3. QED
    BY <1>6, <2>1, <2>2 DEF StartRemediation, Move
<1>7. CASE Remediate
  <2>1. Versioned' /\ Fine'
    BY <1>7, MayWriteVersioned DEF Remediate, Fine
  <2>2. CASE UNCHANGED state /\ Leave
    BY <2>1, <2>2, LeftFine DEF Leave
  <2>3. CASE state' = "reviewing" /\ Reviewing(CalledIn)
    <3>1. at' = "review" /\ run'.fragment = run.fragment /\ ~run'.approved
      BY <1>0, <1>7, <2>3 DEF Remediate, Reviewing, IsRun, RunFields, RunInv, OnlyVerifies
    <3>2. QED
      BY <1>7, <2>1, <2>3, <3>1 DEF Remediate
  <2>4. QED
    BY <1>7, <2>2, <2>3 DEF Remediate, Move
<1>8. CASE FailRemediation
  BY <1>8, FailTaskFine DEF FailRemediation
<1>9. CASE (\E r \in Roles : Reuse(r)) \/ \E r \in Roles, by \in Providers, s \in Outcomes : Ask(r, by, s)
  <2>1. PICK r, heard : run' = Heard(r, heard)
    BY <1>9, Zenon DEF Reuse, Ask, Conclude
  <2>2. at = "review" /\ at' = "review" /\ UNCHANGED <<state, candidates, tree, decision, makers, attested, edits, unrestored, struck>>
    BY <1>9 DEF Reuse, Ask
  <2>3. run'.fragment = run.fragment /\ run'.approved = run.approved
    BY <1>0, <2>1, <2>2 DEF Heard, IsRun, RunFields
  <2>4. QED
    BY <1>0, <1>3, <2>2, <2>3
<1>10. QED
  BY <1>1, <1>2, <1>4, <1>5, <1>6, <1>7, <1>8, <1>9 DEF Review

\* A fragment that fails its verification is rolled back; anything else is fine as it is.
LEMMA SettleFine ==
  ASSUME FragmentInv, Settle PROVE Versioned' /\ FragmentsAreKnown'
<1> USE DEF Implementing, FragmentInv, FragmentsAreKnown, ghosts, record
<1>0. at \in Reviewed => state # "failed" /\ (Fine \/ candidates # {}) /\ (run.approved => Fine)
  BY DEF Fine
<1>1. ASSUME at \in Reviewed, at' \in Reviewed, UNCHANGED <<tree, makers, attested, edits, unrestored, decision, struck>>,
             candidates' = candidates, state' # "failed", run' = run
      PROVE  Versioned' /\ FragmentsAreKnown'
  <2>1. Versioned' /\ (Fine => Fine')
    BY <1>1, StaysFine DEF Versioned
  <2>2. QED
    BY <1>1, <2>1
<1>2. CASE StartVerification
  <2>1. CASE UNCHANGED state /\ Leave
    BY <1>0, <1>2, <2>1, LeavesFine DEF StartVerification
  <2>2. CASE at' = "verifying" /\ UNCHANGED run /\ state' = "verifying"
    BY <1>1, <1>2, <2>2 DEF StartVerification
  <2>3. QED
    BY <1>2, <2>1, <2>2 DEF StartVerification, MoveUnless, Move
<1>3. CASE Pass
  BY <1>0, <1>1, <1>3 DEF Pass
<1>4. CASE FailVerification
  <2>1. CASE run.approved
    BY <1>0, <1>4, <2>1, LeavesFine DEF FailVerification, Move
  <2>2. CASE ~run.approved
    BY <1>4, <2>2, FailTaskFine DEF FailVerification
  <2>3. QED
    BY <2>1, <2>2
<1>5. CASE BlockUnverified \/ ParkAtBoundary \/ BlockCompletion
  BY <1>0, <1>5, LeavesFine DEF BlockUnverified, ParkAtBoundary, BlockCompletion, Move
<1>6. CASE Complete
  <2>1. CASE UNCHANGED state /\ Leave
    BY <1>0, <1>6, <2>1, LeavesFine DEF Complete
  <2>2. CASE at' = "idle" /\ UNCHANGED run /\ state' = "complete"
    <3>1. Versioned' /\ (Fine => Fine')
      BY <1>6, StaysFine DEF Complete, Versioned
    <3>2. QED
      BY <1>0, <1>6, <2>2, <3>1, LeftFine DEF Complete
  <2>3. QED
    BY <1>6, <2>1, <2>2 DEF Complete, Move
<1>7. QED
  BY <1>2, <1>3, <1>4, <1>5, <1>6 DEF Settle

\* People only touch, approve or give up; a death in a stage where providers write is marked.
LEMMA PeopleFine ==
  ASSUME FragmentInv, \/ Prepare \/ Approve \/ ResumeApproved \/ Cancel \/ Edit \/ Crash
                      \/ \E s \in Resources : Begin(s)
  PROVE  Versioned' /\ FragmentsAreKnown'
<1> USE DEF Implementing, FragmentInv, FragmentsAreKnown, ghosts, record
<1>1. ASSUME at = "idle", at' = "idle", UNCHANGED <<tree, makers, attested, edits, unrestored, struck, candidates>>,
             decision' \in {decision, tree}, state' # "failed"
      PROVE  Versioned' /\ FragmentsAreKnown'
  <2>1. Versioned' /\ (Fine => Fine')
    BY <1>1, StaysFine DEF Versioned
  <2>2. QED
    BY <1>1, <2>1, LeftFine
<1>2. CASE Prepare \/ Approve \/ Cancel
  BY <1>1, <1>2 DEF Prepare, Approve, Cancel
<1>3. CASE ResumeApproved
  <2>1. /\ Versioned' /\ at' \in Reviewed /\ tree' = decision' /\ state' # "failed"
        /\ ~run'.fragment /\ run'.approved
    BY <1>3 DEF ResumeApproved, StillApproved, Versioned, Fresh
  <2>2. QED
    BY <2>1 DEF Fine
<1>4. CASE Edit
  <2>1. Versioned' /\ makers'[tree'] = makers[tree] \cup {Person}
    BY <1>4, WritesVersioned DEF Edit
  <2>2. at' = "idle"
    BY <1>4 DEF Edit
  <2>3. QED
    BY <2>1, <2>2, LeftFine DEF Fine
<1>5. CASE Crash
  <2>1. CASE at \in {"working", "remediate"}
    <3>1. Versioned'
      BY <1>5, WritesVersioned DEF Crash, Versioned
    <3>2. StageOf \in struck' \cap {"implementing", "remediating"}
      BY <1>5, <2>1 DEF Crash, StageOf
    <3>3. at' = "idle" /\ Fine'
      BY <1>5, <3>2 DEF Crash, Leave, Fine, CutShort
    <3>4. QED
      BY <3>1, <3>3, LeftFine
  <2>2. CASE at \in Implementing \ {"working"}
    <3>1. Versioned'
      BY <1>5, <2>2 DEF Crash, Versioned
    <3>2. StageOf \in struck' \cap {"implementing", "remediating"}
      BY <1>5, <2>2 DEF Crash, StageOf
    <3>3. at' = "idle" /\ Fine'
      BY <1>5, <3>2 DEF Crash, Leave, Fine, CutShort
    <3>4. QED
      BY <3>1, <3>3, LeftFine
  <2>3. CASE at \notin Implementing \cup {"remediate"}
    <3>1. at # "idle" /\ state' # "failed" /\ (Fine \/ candidates # {})
      BY <1>5, <2>3 DEF Crash, Fine
    <3>2. UNCHANGED <<edits, tree, makers, attested, unrestored, decision, candidates>> /\ Leave /\ struck \subseteq struck'
      BY <1>5, <2>3 DEF Crash
    <3>3. QED
      BY <3>1, <3>2, LeavesFine
  <2>4. QED
    BY <2>1, <2>2, <2>3
<1>6. CASE \E s \in Resources : Begin(s)
  <2>1. /\ Versioned' /\ at' = "planned" /\ state' # "failed" /\ candidates' = candidates
        /\ ~run'.fragment /\ ~run'.approved
    BY <1>6 DEF Begin, Versioned, Fresh, Ended
  <2>2. Fine => Fine'
    BY <1>6, StaysFine DEF Begin
  <2>3. at = "idle"
    BY <1>6 DEF Begin
  <2>4. QED
    BY <2>1, <2>2, <2>3
<1>7. QED
  BY <1>2, <1>3, <1>4, <1>5, <1>6

LEMMA NextFragment == ASSUME FragmentInv, [Next]_vars PROVE FragmentInv'
<1>1. RunInv'
  BY NextInv DEF FragmentInv
<1>2. CASE UNCHANGED vars
  BY <1>1, <1>2 DEF vars, record, ghosts, FragmentInv, FragmentsAreKnown, Versioned, Fine, CutShort
<1>3. Next => Versioned' /\ FragmentsAreKnown'
  BY PlannedFine, ImplementationFine, ReviewFine, SettleFine, PeopleFine DEF Next, Step
<1>4. QED
  BY <1>1, <1>2, <1>3 DEF FragmentInv

\* What a failed task leaves in the repository was claimed finished, touched or approved by a
\* person, or could not be put back - unless a process died in a stage where providers write:
\* through failover, salvage, promotion, resume and remediation, a fragment is always known as
\* one, by the run or by the candidate it left on file, and rolled back (_fail_task, resume).
THEOREM RejectedFragmentIsUndoneCorrect == Spec => []RejectedFragmentIsUndone
<1>1. FragmentInv => RejectedFragmentIsUndone
  BY DEF FragmentInv, FragmentsAreKnown, Fine, CutShort, RejectedFragmentIsUndone
<1>2. QED
  BY <1>1, InitFragment, NextFragment, PTL DEF Spec
=============================================================================
