--------------------------- MODULE TaskQueueProofs ---------------------------
(***************************************************************************)
(* A worktree holds two resumable sessions only after one was discarded    *)
(* while it ran, and a mission's limits hold, for any runs, tasks,         *)
(* revisions and worktrees, whatever people and crashes do.  Bound to a    *)
(* mission, the queue also loses no session it started, and starts only    *)
(* what is due; a discard of a running session aside.                      *)
(***************************************************************************)
EXTENDS TaskQueue, SequenceTheorems, FiniteSetTheorems, WellFoundedInduction, TLAPS

IsSeq(q) == \E S : q \in Seq(S)

LEMMA SeqDomain ==
  ASSUME NEW q, IsSeq(q) PROVE Len(q) \in Nat /\ DOMAIN q = 1 .. Len(q)
BY LenProperties DEF IsSeq

LEMMA SeqChanged ==
  ASSUME NEW q, IsSeq(q), NEW s \in DOMAIN q, NEW v, NEW n, n = [q EXCEPT ![s] = v]
  PROVE  /\ IsSeq(n) /\ DOMAIN n = DOMAIN q
         /\ \A i \in DOMAIN q : n[i] = IF i = s THEN v ELSE q[i]
<1>1. PICK S : q \in Seq(S)
  BY DEF IsSeq
<1>2. q \in Seq(S \cup {v})
  BY <1>1, SeqMonotonic
<1>3. s \in 1 .. Len(q)
  BY SeqDomain
<1>4. n \in Seq(S \cup {v})
  BY <1>2, <1>3, ExceptSeq
<1>5. QED
  BY <1>4 DEF IsSeq

LEMMA SeqAppended ==
  ASSUME NEW q, IsSeq(q), NEW v
  PROVE  LET n == Append(q, v) IN
         /\ IsSeq(n) /\ Len(q) \in Nat /\ DOMAIN q = 1 .. Len(q) /\ DOMAIN n = 1 .. Len(q) + 1
         /\ \A i \in 1 .. Len(q) : n[i] = q[i]
         /\ n[Len(q) + 1] = v
<1> DEFINE n == Append(q, v)
<1>1. PICK S : q \in Seq(S)
  BY DEF IsSeq
<1>2. q \in Seq(S \cup {v})
  BY <1>1, SeqMonotonic
<1>3. n \in Seq(S \cup {v}) /\ Len(n) = Len(q) + 1
  BY <1>2
<1>4. \A i \in 1 .. Len(q) : n[i] = q[i]
  BY <1>2
<1>5. n[Len(q) + 1] = v
  BY <1>2
<1>6. DOMAIN n = 1 .. Len(q) + 1
  BY <1>3, LenProperties
<1>7. QED
  BY <1>3, <1>4, <1>5, <1>6, SeqDomain DEF IsSeq

-----------------------------------------------------------------------------
(* One resumable session per worktree.                                       *)

IsSession(x) == x = [f \in {"repo", "goal", "st", "live", "pulled"} |-> x[f]]

\* A session that can be resumed and was never discarded while somebody ran it.
Sound(s) == Open(s) /\ ~sessions[s].pulled
\* What somebody may run.
Held(s) == Open(s) \/ sessions[s].pulled

\* A session is somebody's only while it can be resumed or was discarded then, and of the
\* sound ones of a worktree no two can be resumed.
SessionsInv ==
  /\ IsSeq(sessions) /\ \A s \in Ids : IsSession(sessions[s])
  /\ \A s \in Ids : sessions[s].live # None => sessions[s].st = "open" \/ sessions[s].pulled
  /\ \A s, u \in Ids : Sound(s) /\ Sound(u) /\ sessions[s].repo = sessions[u].repo => s = u

\* A session that was open, or came back, changes hands or ends.
LEMMA BecomesInv ==
  ASSUME SessionsInv, NEW s \in Ids, Held(s), NEW st, NEW who,
         st = "open" \/ who = None, sessions' = Becomes(s, st, who)
  PROVE  SessionsInv'
<1> DEFINE x == [sessions[s] EXCEPT !.st = st, !.live = who]
<1>1. sessions' = [sessions EXCEPT ![s] = x]
  BY DEF Becomes
<1>2. /\ IsSession(x) /\ x.st = st /\ x.live = who /\ x.repo = sessions[s].repo
      /\ x.pulled = sessions[s].pulled
  BY DEF SessionsInv, IsSession
<1> HIDE DEF x
<1>a. IsSeq(sessions)
  BY DEF SessionsInv
<1>3. /\ IsSeq(sessions') /\ DOMAIN sessions' = DOMAIN sessions
      /\ \A i \in DOMAIN sessions : sessions'[i] = IF i = s THEN x ELSE sessions[i]
  BY <1>1, <1>a, SeqChanged DEF Ids
<1>4. QED
  BY <1>2, <1>3 DEF SessionsInv, Ids, Open, Sound, Held

\* A new one begins where there is none.
LEMMA NewSessionInv ==
  ASSUME SessionsInv, NEW r, NEW goal, NEW who, OpenIn(r) = {},
         sessions' = Append(sessions, NewSession(r, goal, who))
  PROVE  SessionsInv'
<1> DEFINE x == NewSession(r, goal, who)
<1>1. IsSession(x) /\ x.st = "open" /\ x.repo = r /\ ~x.pulled
  BY DEF NewSession, IsSession
<1>a. IsSeq(sessions) /\ sessions' = Append(sessions, x)
  BY DEF SessionsInv
<1> HIDE DEF x
<1>2. /\ IsSeq(sessions') /\ Len(sessions) \in Nat
      /\ DOMAIN sessions = 1 .. Len(sessions) /\ DOMAIN sessions' = 1 .. Len(sessions) + 1
      /\ \A i \in 1 .. Len(sessions) : sessions'[i] = sessions[i]
      /\ sessions'[Len(sessions) + 1] = x
  <2>1. LET n == Append(sessions, x) IN
        /\ IsSeq(n) /\ Len(sessions) \in Nat
        /\ DOMAIN sessions = 1 .. Len(sessions) /\ DOMAIN n = 1 .. Len(sessions) + 1
        /\ \A i \in 1 .. Len(sessions) : n[i] = sessions[i]
        /\ n[Len(sessions) + 1] = x
    BY <1>a, SeqAppended, Zenon
  <2>2. QED
    BY <1>a, <2>1, Zenon
<1>3. \A s \in Ids : Open(s) => sessions[s].repo # r
  BY DEF OpenIn
<1> DEFINE k == Len(sessions)
<1> HIDE DEF k
<1>4. k \in Nat => \A i \in 1 .. k + 1 : i \in 1 .. k \/ i = k + 1
  OBVIOUS
<1>5. /\ Ids = 1 .. k /\ k \in Nat /\ Ids' = 1 .. k + 1
      /\ \A i \in 1 .. k : sessions'[i] = sessions[i]
      /\ sessions'[k + 1] = x
  BY <1>2 DEF Ids, k
<1>6. \A i \in Ids' : IF i \in Ids THEN sessions'[i] = sessions[i]
                                  ELSE i = k + 1 /\ sessions'[i] = x
  BY <1>4, <1>5
<1>7. QED
  BY <1>1, <1>2, <1>3, <1>6 DEF SessionsInv, Open, Ids, Sound

LEMMA EndsInv == ASSUME SessionsInv, NEW who, who # None, Ends(who) PROVE SessionsInv'
<1>1. PICK s, st : s \in Ids /\ sessions[s].live = who /\ sessions' = Becomes(s, st, None)
  BY Zenon DEF Ends
<1>2. Held(s)
  BY <1>1 DEF SessionsInv, Open, Held
<1>3. QED
  BY <1>1, <1>2, BecomesInv

\* The leases of the dead lapse together.
LEMMA CrashInv == ASSUME SessionsInv, NEW p \in Procs, Crash(p) PROVE SessionsInv'
<1> DEFINE x(s) == [sessions[s] EXCEPT !.live = IF @ = p THEN None ELSE @]
<1>1. sessions' = [s \in Ids |-> x(s)]
  BY DEF Crash
<1>2. \A s \in Ids : /\ IsSession(x(s)) /\ x(s).st = sessions[s].st /\ x(s).repo = sessions[s].repo
                     /\ x(s).live \in {sessions[s].live, None} /\ x(s).pulled = sessions[s].pulled
  BY DEF SessionsInv, IsSession
<1> HIDE DEF x
<1>3. Len(sessions) \in Nat /\ Ids = 1 .. Len(sessions)
  BY SeqDomain DEF SessionsInv, Ids
<1>4. sessions' \in [1 .. Len(sessions) -> {x(s) : s \in Ids}]
  BY <1>1, <1>3
<1>5. IsSeq(sessions')
  BY <1>3, <1>4, SeqDef DEF IsSeq
<1>6. DOMAIN sessions' = Ids /\ \A s \in Ids : sessions'[s] = x(s)
  BY <1>1
<1>7. QED
  BY <1>2, <1>5, <1>6 DEF SessionsInv, Ids, Open, Sound

\* All that can be resumed in a worktree goes, and what somebody ran is pulled.
Discarding(r) ==
    sessions' = [s \in Ids |-> IF s \in OpenIn(r)
                   THEN [sessions[s] EXCEPT !.st = "discarded",
                            !.pulled = @ \/ sessions[s].live # None]
                   ELSE sessions[s]]

LEMMA DiscardsInv ==
  ASSUME SessionsInv, NEW r, Discarding(r)
  PROVE  /\ SessionsInv' /\ Ids' = Ids /\ Len(sessions') = Len(sessions)
         /\ \A s \in Ids : /\ sessions'[s].repo = sessions[s].repo
                           /\ sessions'[s].goal = sessions[s].goal
                           /\ sessions[s].pulled => sessions'[s].pulled
                           /\ ~Open(s) => sessions'[s].st = sessions[s].st
                           /\ Sound(s)' => Sound(s)
<1> DEFINE y(s) == [sessions[s] EXCEPT !.st = "discarded", !.pulled = @ \/ sessions[s].live # None]
           x(s) == IF s \in OpenIn(r) THEN y(s) ELSE sessions[s]
<1>1. sessions' = [s \in Ids |-> x(s)]
  BY DEF Discarding
<1>2. \A s \in Ids : /\ IsSession(y(s)) /\ y(s).st = "discarded" /\ y(s).repo = sessions[s].repo
                     /\ y(s).live = sessions[s].live /\ y(s).goal = sessions[s].goal
                     /\ y(s).pulled <=> sessions[s].pulled \/ sessions[s].live # None
  BY DEF SessionsInv, IsSession
<1> HIDE DEF y
<1>a. \A s \in Ids : x(s) = sessions[s] \/ (x(s) = y(s) /\ Open(s))
  BY DEF OpenIn
<1> HIDE DEF x
<1>3. Len(sessions) \in Nat /\ Ids = 1 .. Len(sessions)
  BY SeqDomain DEF SessionsInv, Ids
<1>4. sessions' \in [1 .. Len(sessions) -> {x(s) : s \in Ids}]
  BY <1>1, <1>3
<1>5. IsSeq(sessions')
  BY <1>3, <1>4, SeqDef DEF IsSeq
<1>6. DOMAIN sessions' = Ids /\ \A s \in Ids : sessions'[s] = x(s)
  BY <1>1
<1>7. Len(sessions') = Len(sessions)
  <2>1. Len(sessions') \in Nat /\ DOMAIN sessions' = 1 .. Len(sessions')
    BY <1>5, SeqDomain
  <2>2. QED
    BY <1>3, <1>6, <2>1
<1>8. \A s \in Ids : /\ IsSession(x(s)) /\ x(s).repo = sessions[s].repo
                     /\ x(s).live = sessions[s].live /\ x(s).goal = sessions[s].goal
                     /\ sessions[s].pulled => x(s).pulled
                     /\ ~Open(s) => x(s).st = sessions[s].st
                     /\ x(s).st = sessions[s].st \/ (x(s).st = "discarded" /\ Open(s))
                     /\ x(s).live # None => x(s).st = "open" \/ x(s).pulled
                     /\ x(s).st = "open" /\ ~x(s).pulled => Sound(s)
  BY <1>2, <1>a DEF SessionsInv, Open, Sound
<1>9. \A s \in Ids : Sound(s)' => Sound(s)
  BY <1>6, <1>8 DEF Sound, Open
<1>10. SessionsInv'
  BY <1>5, <1>6, <1>8, <1>9 DEF SessionsInv, Ids
<1>11. QED
  BY <1>6, <1>7, <1>8, <1>9, <1>10 DEF Ids

LEMMA GreatestIsOf ==
  ASSUME NEW k \in Nat, NEW S, S \subseteq 1 .. k, S # {}
  PROVE  Max(S) \in S /\ \A y \in S : y <= Max(S)
<1> DEFINE T == {k - x : x \in S}
<1>1. T \subseteq Nat /\ T # {}
  <2>1. \A x \in S : k - x \in Nat
    OBVIOUS
  <2>2. QED
    BY <2>1
<1>2. PICK z \in T : \A y \in T : ~(<<y, z>> \in OpToRel(<, Nat))
  BY <1>1, NatLessThanWellFounded, WFMin
<1>3. PICK x \in S : z = k - x
  OBVIOUS
<1>4. ASSUME NEW y \in S, x < y PROVE FALSE
  <2>1. k - y \in T /\ k - y \in Nat /\ k - x \in Nat /\ k - y < k - x
    BY <1>4
  <2>2. <<k - y, k - x>> \in Nat \X Nat
        /\ <<k - y, k - x>>[1] = k - y /\ <<k - y, k - x>>[2] = k - x
    BY <2>1
  <2>3. QED
    BY <1>2, <1>3, <2>1, <2>2 DEF OpToRel
<1>5. ASSUME NEW y \in S PROVE x >= y
  BY <1>4, <1>5
<1>6. QED
  BY <1>5 DEF Max

LEMMA NewestIs ==
  ASSUME NEW k \in Nat, NEW S, S \subseteq 1 .. k
  PROVE  IF S = {} THEN Newest(S) = 0
         ELSE Newest(S) \in S /\ Newest(S) # 0 /\ \A y \in S : y <= Newest(S)
<1>1. CASE S = {}
  BY <1>1 DEF Newest
<1>2. CASE S # {}
  <2>1. Newest(S) = Max(S) /\ Max(S) \in S /\ \A y \in S : y <= Max(S)
    BY <1>2, GreatestIsOf DEF Newest
  <2>2. Max(S) # 0
    BY <2>1
  <2>3. QED
    BY <1>2, <2>1, <2>2
<1>3. QED
  BY <1>1, <1>2

LEMMA IdsAre == ASSUME SessionsInv PROVE Len(sessions) \in Nat /\ Ids = 1 .. Len(sessions)
BY SeqDomain DEF SessionsInv, Ids

\* The newest open session of a worktree is one of them.
LEMMA NewestIsOpen ==
  ASSUME SessionsInv, NEW r, Newest(OpenIn(r)) # 0
  PROVE  Newest(OpenIn(r)) \in Ids /\ Open(Newest(OpenIn(r)))
<1>1. OpenIn(r) \subseteq 1 .. Len(sessions) /\ Len(sessions) \in Nat
  BY IdsAre DEF OpenIn
<1>2. Newest(OpenIn(r)) \in OpenIn(r)
  BY <1>1, NewestIs
<1>3. QED
  BY <1>2 DEF OpenIn

LEMMA RunKeepsSessions == ASSUME SessionsInv, NEW p \in Procs, Run(p) PROVE SessionsInv'
<1>1. p # None
  BY NamesDiffer
<1>2. ASSUME UNCHANGED sessions PROVE SessionsInv'
  BY <1>2 DEF SessionsInv, Ids, Open, Sound
<1>3. CASE Retire(p)
  <2>1. PICK s : Open(s) /\ sessions' = Becomes(s, "superseded", None)
    BY <1>3 DEF Retire
  <2>2. s \in Ids /\ Held(s)
    BY <2>1 DEF Open, Held
  <2>3. QED
    BY <2>1, <2>2, BecomesInv
<1>4. CASE LaunchStart(p)
  BY <1>4, NewSessionInv DEF LaunchStart
<1>5. CASE LaunchResume(p)
  <2>1. PICK r : Newest(OpenIn(r)) # 0 /\ sessions' = Becomes(Newest(OpenIn(r)), "open", p)
    BY <1>5 DEF LaunchResume
  <2>2. QED
    BY <2>1, BecomesInv, NewestIsOpen DEF Held
<1>6. CASE SessionEnds(p)
  BY <1>1, <1>6, EndsInv DEF SessionEnds
<1>7. CASE Crash(p)
  BY <1>7, CrashInv
<1>8. CASE \/ OpenQueue(p) \/ Enter(p) \/ Refused(p) \/ Choose(p) \/ Withhold(p)
           \/ Contradicted(p) \/ Finish(p) \/ RetireRefused(p) \/ Note(p)
           \/ Begin(p) \/ LaunchFails(p) \/ Report(p)
  BY <1>2, <1>8, Zenon DEF OpenQueue, Enter, Refused, Choose, Withhold, Contradicted, Finish,
     RetireRefused, Note, Begin, LaunchFails, Report, data
<1>9. QED
  BY <1>3, <1>4, <1>5, <1>6, <1>7, <1>8 DEF Run

LEMMA PeopleKeepSessions == ASSUME SessionsInv, People PROVE SessionsInv'
<1>1. Human # None
  BY NamesDiffer
<1>2. ASSUME UNCHANGED sessions PROVE SessionsInv'
  BY <1>2 DEF SessionsInv, Ids, Open, Sound
<1>3. CASE HumanStarts
  <2>1. PICK r : OpenIn(r) = {} /\ sessions' = Append(sessions, NewSession(r, None, Human))
    BY <1>3 DEF HumanStarts
  <2>2. QED
    BY <2>1, NewSessionInv
<1>4. CASE HumanResumes
  <2>1. PICK r : Newest(OpenIn(r)) # 0
                 /\ sessions' = Becomes(Newest(OpenIn(r)), "open", Human)
    BY <1>4 DEF HumanResumes
  <2>2. QED
    BY <2>1, BecomesInv, NewestIsOpen DEF Held
<1>5. CASE HumanEnds
  BY <1>1, <1>5, EndsInv DEF HumanEnds
<1>6. CASE HumanDiscards
  <2>1. PICK r : Discarding(r)
    BY <1>6 DEF HumanDiscards, Discarding
  <2>2. QED
    BY <2>1, DiscardsInv
<1>a. CASE SavedBack
  <2>1. PICK s \in Ids : /\ sessions[s].st = "discarded" /\ sessions[s].live # None
                        /\ sessions' = Becomes(s, "open", sessions[s].live)
    BY <1>a DEF SavedBack
  <2>2. Held(s)
    BY <2>1 DEF SessionsInv, Held
  <2>3. QED
    BY <2>1, <2>2, BecomesInv
<1>7. CASE Edit \/ Clean
  BY <1>2, <1>7 DEF Edit, Clean
<1>8. QED
  BY <1>3, <1>4, <1>5, <1>6, <1>a, <1>7 DEF People

LEMMA NoneOrOne ==
  ASSUME SessionsInv, NEW r PROVE Cardinality({s \in OpenIn(r) : ~sessions[s].pulled}) <= 1
<1> DEFINE S == {s \in OpenIn(r) : ~sessions[s].pulled}
<1>0. \A s \in S : s \in Ids /\ Sound(s) /\ sessions[s].repo = r
  BY DEF OpenIn, Sound
<1> HIDE DEF S
<1>1. CASE S = {}
  BY <1>1, FS_EmptySet DEF S
<1>2. CASE S # {}
  <2>1. PICK s : s \in S
    BY <1>2
  <2>2. S = {s}
    BY <1>0, <2>1 DEF SessionsInv
  <2>3. Cardinality({s}) = 1
    BY FS_Singleton
  <2>4. QED
    BY <2>2, <2>3 DEF S
<1>3. QED
  BY <1>1, <1>2

LEMMA SessionsStep == SessionsInv /\ [Next]_vars => SessionsInv'
<1>1. SUFFICES ASSUME SessionsInv, [Next]_vars PROVE SessionsInv'
  OBVIOUS
<1>2. CASE UNCHANGED vars
  BY <1>1, <1>2 DEF vars, SessionsInv, Ids, Open, Sound
<1>3. QED
  BY <1>1, <1>2, RunKeepsSessions, PeopleKeepSessions DEF Next

LEMMA InitSessions == Init => SessionsInv
<1>1. SUFFICES ASSUME Init PROVE SessionsInv
  OBVIOUS
<1>2. sessions = <<>> /\ IsSeq(sessions) /\ Ids = {}
  BY <1>1, EmptySeq DEF Init, IsSeq, Ids
<1>3. QED
  BY <1>2 DEF SessionsInv

\* Two sessions of a repository can be resumed (task_queue.py, _dispatch) only if one of
\* them was discarded while somebody ran it, however many runs, people and crashes there
\* are: each that begins one finds none that can.
THEOREM OneResumableCorrect == Spec => []OneResumablePerRepository
<1>1. SessionsInv => OneResumablePerRepository
  BY NoneOrOne DEF OneResumablePerRepository
<1>2. QED
  BY <1>1, InitSessions, SessionsStep, PTL DEF Spec

-----------------------------------------------------------------------------
(* The limits of a mission.                                                  *)

Inside == {"choose", "retire", "note", "begin", "launch", "session", "report"}
Decided == {"retire", "note", "begin"}

IsMem(x) == x = [f \in {"revs", "view", "retry", "tried", "task", "own", "stale", "retired",
                         "before"} |-> x[f]]

Shape == /\ pc = [q \in Procs |-> pc[q]] /\ mem = [q \in Procs |-> mem[q]]
         /\ \A q \in Procs : IsMem(mem[q])
         /\ IsSeq(ledger)
OneInside == \A q \in Procs : pc[q] \in Inside => lock = q
\* Under the lock a mission's run holds the ledger there is, ...
SeesAll == Mission => \A q \in Procs : pc[q] \in Inside => mem[q].view = ledger
\* ... so what it was allowed to begin is still allowed when it does.
StillAdmitted == \A q \in Procs : pc[q] \in Decided => Admitted(mem[q], mem[q].task)

LimitsInv == Shape /\ OneInside /\ SeesAll /\ StillAdmitted /\ MissionLimitsHold

LEMMA StartsFinite ==
  ASSUME NEW v, IsSeq(v)
  PROVE  /\ \A S : IsFiniteSet(Starts(v, S)) /\ Cardinality(Starts(v, S)) \in Nat
         /\ IsFiniteSet(Reserved(v)) /\ Cardinality(Reserved(v)) \in Nat
<1>1. IsFiniteSet(DOMAIN v)
  BY SeqDomain, FS_Interval
<1>2. \A S : IsFiniteSet(Starts(v, S))
  <2>1. TAKE S
  <2>2. Starts(v, S) \subseteq DOMAIN v
    BY DEF Starts
  <2>3. QED
    BY <1>1, <2>2, FS_Subset
<1>3. IsFiniteSet({v[n].task : n \in Starts(v, Tasks)})
  <2> DEFINE S == Starts(v, Tasks)
             f == [n \in S |-> v[n].task]
             T == {v[n].task : n \in S}
  <2>1. IsFiniteSet(S)
    BY <1>2
  <2> HIDE DEF S
  <2>2. f \in Surjection(S, T)
    BY DEF Surjection
  <2>3. IsFiniteSet(T)
    BY <2>1, <2>2, FS_Surjection
  <2>4. QED
    BY <2>3 DEF S
<1>4. QED
  BY <1>2, <1>3, FS_CardinalityType DEF Reserved

\* A record of anything but a start leaves the counts alone.
LEMMA NoStart ==
  ASSUME NEW v, IsSeq(v), NEW e, e.event # "started"
  PROVE  /\ \A S : Starts(Append(v, e), S) = Starts(v, S)
         /\ Reserved(Append(v, e)) = Reserved(v)
<1> DEFINE n == Append(v, e)
           k == Len(v)
<1>1. /\ k \in Nat /\ DOMAIN v = 1 .. k /\ DOMAIN n = 1 .. k + 1
      /\ \A i \in 1 .. k : n[i] = v[i]
      /\ n[k + 1] = e
  BY SeqAppended
<1> HIDE DEF n, k
<1>2. \A i \in DOMAIN n : IF i \in DOMAIN v THEN n[i] = v[i] ELSE n[i] = e
  BY <1>1
<1>3. DOMAIN v \subseteq DOMAIN n
  BY <1>1
<1>4. \A S : Starts(n, S) = Starts(v, S)
  BY <1>2, <1>3 DEF Starts
<1>5. Reserved(n) = Reserved(v)
  <2>1. \A i \in Starts(v, Tasks) : n[i] = v[i]
    BY <1>2, <1>3 DEF Starts
  <2>2. QED
    BY <1>4, <2>1 DEF Reserved
<1>6. QED
  BY <1>4, <1>5 DEF n

\* A start adds one.
LEMMA OneStart ==
  ASSUME NEW v, IsSeq(v), NEW e, e.event = "started"
  PROVE  /\ \A S : Starts(Append(v, e), S) =
                   IF e.task \in S THEN Starts(v, S) \cup {Len(v) + 1} ELSE Starts(v, S)
         /\ Reserved(Append(v, e)) =
                   IF e.task \in Tasks THEN Reserved(v) \cup {e.task} ELSE Reserved(v)
<1> DEFINE n == Append(v, e)
           k == Len(v)
<1>1. /\ k \in Nat /\ DOMAIN v = 1 .. k /\ DOMAIN n = 1 .. k + 1
      /\ \A i \in 1 .. k : n[i] = v[i]
      /\ n[k + 1] = e
  BY SeqAppended
<1> HIDE DEF n, k
<1>2. \A i \in DOMAIN n : IF i \in DOMAIN v THEN n[i] = v[i] ELSE n[i] = e /\ i = k + 1
  BY <1>1
<1>3. DOMAIN v \subseteq DOMAIN n /\ k + 1 \in DOMAIN n /\ k + 1 \notin DOMAIN v
  BY <1>1
<1>4. \A S : Starts(n, S) = IF e.task \in S THEN Starts(v, S) \cup {k + 1} ELSE Starts(v, S)
  BY <1>2, <1>3 DEF Starts
<1>5. Reserved(n) = IF e.task \in Tasks THEN Reserved(v) \cup {e.task} ELSE Reserved(v)
  <2>1. \A i \in Starts(v, Tasks) : n[i] = v[i]
    BY <1>2, <1>3 DEF Starts
  <2>2. n[k + 1] = e
    BY <1>1
  <2>3. QED
    BY <1>4, <2>1, <2>2 DEF Reserved
<1>6. QED
  BY <1>4, <1>5 DEF n, k

-----------------------------------------------------------------------------
(* Steps of one run.                                                         *)

\* What a step of p may not break, besides what it says of p itself.
LEMMA StepOf ==
  ASSUME LimitsInv, NEW p \in Procs, NEW l, NEW m, IsMem(m),
         pc' = [pc EXCEPT ![p] = l], mem' = [mem EXCEPT ![p] = m],
         IsSeq(ledger'),
         l \in Inside => lock' = p,
         Mission /\ l \in Inside => m.view = ledger',
         l \in Decided => Admitted(m, m.task),
         \A q \in Procs \ {p} : pc[q] \in Inside => lock' = lock /\ ledger' = ledger,
         MissionLimitsHold'
  PROVE  LimitsInv'
<1>1. \A q \in Procs : pc'[q] = (IF q = p THEN l ELSE pc[q]) /\ mem'[q] = (IF q = p THEN m ELSE mem[q])
  BY DEF LimitsInv, Shape
<1>2. Shape'
  BY <1>1 DEF LimitsInv, Shape
<1>3. OneInside'
  BY <1>1 DEF LimitsInv, OneInside
<1>4. SeesAll'
  BY <1>1 DEF LimitsInv, SeesAll
<1>5. StillAdmitted'
  BY <1>1 DEF LimitsInv, StillAdmitted
<1>6. QED
  BY <1>2, <1>3, <1>4, <1>5 DEF LimitsInv

\* The same for steps that leave the ledger alone.
LEMMA QuietStepOf ==
  ASSUME LimitsInv, NEW p \in Procs, NEW l, NEW m, IsMem(m),
         pc' = [pc EXCEPT ![p] = l], mem' = [mem EXCEPT ![p] = m], UNCHANGED ledger,
         l \in Inside => lock' = p /\ m.view = ledger,
         l \in Decided => Admitted(m, m.task),
         \A q \in Procs \ {p} : pc[q] \in Inside => lock' = lock
  PROVE  LimitsInv'
<1>1. MissionLimitsHold'
  BY DEF LimitsInv, MissionLimitsHold
<1>2. IsSeq(ledger')
  BY DEF LimitsInv, Shape
<1>3. QED
  BY <1>1, <1>2, StepOf

LEMMA StaysInv == ASSUME LimitsInv, UNCHANGED <<ledger, lock, pc, mem>> PROVE LimitsInv'
BY DEF LimitsInv, Shape, OneInside, SeesAll, StillAdmitted, MissionLimitsHold

LEMMA BlankIsMem == IsMem(Blank)
BY DEF IsMem, Blank

LEMMA LeaveInv ==
  ASSUME LimitsInv, NEW p \in Procs, Leave(p), UNCHANGED ledger PROVE LimitsInv'
<1>1. pc' = [pc EXCEPT ![p] = "off"] /\ mem' = [mem EXCEPT ![p] = Blank]
  BY DEF Leave, GoTo
<1>2. \A q \in Procs \ {p} : pc[q] \in Inside => lock' = lock
  BY DEF Leave, LimitsInv, OneInside
<1>3. "off" \notin Inside /\ "off" \notin Decided
  BY DEF Inside, Decided
<1>4. QED
  BY <1>1, <1>2, <1>3, BlankIsMem, QuietStepOf

\* A step of the run that has the lock, which changes neither the ledger nor the lock.
LEMMA InsideInv ==
  ASSUME LimitsInv, NEW p \in Procs, pc[p] \in Inside, NEW l, NEW m, IsMem(m),
         pc' = [pc EXCEPT ![p] = l], mem' = [mem EXCEPT ![p] = m], UNCHANGED <<ledger, lock>>,
         m.view = mem[p].view, l \in Decided => Admitted(m, m.task)
  PROVE  LimitsInv'
<1>1. Mission => m.view = ledger
  BY DEF LimitsInv, SeesAll
<1>2. lock = p
  BY DEF LimitsInv, OneInside
<1>3. IsSeq(ledger') /\ MissionLimitsHold'
  BY DEF LimitsInv, Shape, MissionLimitsHold
<1>4. QED
  BY <1>1, <1>2, <1>3, StepOf

\* It goes on with what it holds.
LEMMA GoesOnInv ==
  ASSUME LimitsInv, NEW p \in Procs, pc[p] \in Inside, NEW l, GoTo(p, l),
         UNCHANGED <<ledger, lock, mem>>, l \in Decided => pc[p] \in Decided
  PROVE  LimitsInv'
<1>1. mem' = [mem EXCEPT ![p] = mem[p]] /\ IsMem(mem[p])
  BY DEF LimitsInv, Shape
<1>2. l \in Decided => Admitted(mem[p], mem[p].task)
  BY DEF LimitsInv, StillAdmitted
<1>3. QED
  BY <1>1, <1>2, InsideInv DEF GoTo

LEMMA OpenInv == ASSUME LimitsInv, NEW p \in Procs, OpenQueue(p) PROVE LimitsInv'
<1>1. PICK retry : mem' = [mem EXCEPT ![p] = [Blank EXCEPT !.revs = queue, !.retry = retry,
                                            !.view = IF Mission THEN <<>> ELSE ledger]]
  BY DEF OpenQueue
<1> DEFINE m == [Blank EXCEPT !.revs = queue, !.retry = retry,
                              !.view = IF Mission THEN <<>> ELSE ledger]
<1>2. IsMem(m)
  BY BlankIsMem DEF IsMem
<1>3. pc' = [pc EXCEPT ![p] = "opened"] /\ UNCHANGED <<ledger, lock>>
  BY DEF OpenQueue, GoTo, data
<1>4. "opened" \notin Inside /\ "opened" \notin Decided
  BY DEF Inside, Decided
<1>5. mem' = [mem EXCEPT ![p] = m]
  BY <1>1
<1> HIDE DEF m
<1>6. QED
  BY <1>2, <1>3, <1>4, <1>5, QuietStepOf

\* The lock was free, so nobody else is inside.
LEMMA EnterInv == ASSUME LimitsInv, NEW p \in Procs, Enter(p) PROVE LimitsInv'
<1> DEFINE m == IF Mission THEN [mem[p] EXCEPT !.view = ledger] ELSE mem[p]
<1>1. IsMem(m) /\ (Mission => m.view = ledger)
  BY DEF LimitsInv, Shape, IsMem
<1>2. mem' = [mem EXCEPT ![p] = m]
  BY DEF Enter, LimitsInv, Shape
<1>3. pc' = [pc EXCEPT ![p] = "choose"] /\ lock' = p /\ lock = None /\ UNCHANGED ledger
  BY DEF Enter, GoTo, data
<1>4. \A q \in Procs : pc[q] \notin Inside
  BY <1>3, NamesDiffer DEF LimitsInv, OneInside
<1>5. "choose" \notin Decided
  BY DEF Decided
<1>6. IsSeq(ledger') /\ MissionLimitsHold'
  BY <1>3 DEF LimitsInv, Shape, MissionLimitsHold
<1> HIDE DEF m
<1>7. QED
  BY <1>1, <1>2, <1>3, <1>4, <1>5, <1>6, StepOf

LEMMA ChooseInv == ASSUME LimitsInv, NEW p \in Procs, Choose(p) PROVE LimitsInv'
<1> DEFINE k == Chosen(p)
           m == [mem[p] EXCEPT !.tried = @ \cup {k}, !.task = k,
                               !.own = Own(mem[p].view, k, mem[p].revs[k]),
                               !.stale = Stale(mem[p].view, k, mem[p].revs[k])]
           l == IF Stale(mem[p].view, k, mem[p].revs[k]) = {} THEN "begin" ELSE "retire"
<1>1. mem' = [mem EXCEPT ![p] = m] /\ pc' = [pc EXCEPT ![p] = l] /\ UNCHANGED <<ledger, lock>>
  BY DEF Choose, GoTo, data
<1>2. IsMem(m) /\ m.view = mem[p].view /\ m.task = k
  BY DEF LimitsInv, Shape, IsMem
<1>3. Admitted(mem[p], k)
  BY DEF Choose
<1> HIDE DEF m, l
<1>4. Admitted(m, m.task)
  BY <1>2, <1>3 DEF Admitted
<1>5. pc[p] \in Inside
  BY DEF Choose, MayChoose, At, Inside
<1>6. QED
  BY <1>1, <1>2, <1>4, <1>5, InsideInv

LEMMA WithholdInv == ASSUME LimitsInv, NEW p \in Procs, Withhold(p) PROVE LimitsInv'
<1> DEFINE m == [mem[p] EXCEPT !.tried = mem[p].tried \cup {Chosen(p)}]
<1>b. mem' = [mem EXCEPT ![p] = m]
  BY DEF Withhold
<1>1. pc[p] = "choose" /\ pc' = pc /\ UNCHANGED <<ledger, lock>>
  BY DEF Withhold, MayChoose, At, data
<1>a. pc' = [pc EXCEPT ![p] = "choose"]
  BY <1>1 DEF LimitsInv, Shape
<1>2. IsMem(m) /\ m.view = mem[p].view
  BY DEF LimitsInv, Shape, IsMem
<1>3. pc[p] \in Inside /\ "choose" \notin Decided
  BY <1>1 DEF Inside, Decided
<1> HIDE DEF m
<1>4. QED
  BY <1>b, <1>1, <1>a, <1>2, <1>3, InsideInv

LEMMA RetireInv == ASSUME LimitsInv, NEW p \in Procs, Retire(p) PROVE LimitsInv'
<1>1. PICK s : mem' = [mem EXCEPT ![p] = [@ EXCEPT !.retired = s]]
  BY DEF Retire
<1> DEFINE m == [mem[p] EXCEPT !.retired = s]
<1>2. mem' = [mem EXCEPT ![p] = m] /\ pc' = [pc EXCEPT ![p] = "note"] /\ UNCHANGED <<ledger, lock>>
  BY <1>1 DEF Retire, GoTo, LimitsInv, Shape
<1>3. IsMem(m) /\ m.view = mem[p].view /\ m.task = mem[p].task
  BY DEF LimitsInv, Shape, IsMem
<1>4. pc[p] \in Inside /\ pc[p] \in Decided
  BY DEF Retire, At, Inside, Decided
<1> HIDE DEF m
<1>5. Admitted(m, m.task)
  BY <1>3, <1>4 DEF LimitsInv, StillAdmitted, Admitted
<1>6. QED
  BY <1>2, <1>3, <1>4, <1>5, InsideInv

\* What the run records, it also holds.
LEMMA RecordInv ==
  ASSUME LimitsInv, NEW p \in Procs, pc[p] \in Inside, NEW m, IsMem(m), m.view = mem[p].view,
         NEW e, Record(p, m, e), NEW l, GoTo(p, l), UNCHANGED lock,
         l \in Decided => Admitted([m EXCEPT !.view = Append(m.view, e)], m.task),
         MissionLimitsHold'
  PROVE  LimitsInv'
<1> DEFINE n == [m EXCEPT !.view = Append(m.view, e)]
<1>1. IsMem(n) /\ n.view = Append(m.view, e) /\ n.task = m.task
  BY DEF IsMem
<1>2. mem' = [mem EXCEPT ![p] = n] /\ ledger' = Append(ledger, e)
  BY DEF Record
<1>3. l \in Decided => Admitted(n, n.task)
  BY <1>1
<1> HIDE DEF n
<1>4. lock' = p /\ \A q \in Procs \ {p} : pc[q] \notin Inside
  BY DEF LimitsInv, OneInside
<1>5. Mission => n.view = ledger'
  BY <1>1, <1>2 DEF LimitsInv, SeesAll
<1>6. IsSeq(ledger')
  BY <1>2, SeqAppended DEF LimitsInv, Shape
<1>7. QED
  BY <1>1, <1>2, <1>3, <1>4, <1>5, <1>6, StepOf DEF GoTo

LEMMA LimitsAfterNoStart ==
  ASSUME LimitsInv, NEW e, e.event # "started", ledger' = Append(ledger, e)
  PROVE  MissionLimitsHold'
<1>1. /\ \A S : Starts(ledger', S) = Starts(ledger, S)
      /\ Reserved(ledger') = Reserved(ledger)
  BY NoStart DEF LimitsInv, Shape
<1>2. QED
  BY <1>1 DEF LimitsInv, MissionLimitsHold

LEMMA NoteInv == ASSUME LimitsInv, NEW p \in Procs, Note(p) PROVE LimitsInv'
<1> DEFINE s == mem[p].retired
           m == [mem[p] EXCEPT !.stale = @ \ {s}, !.retired = 0]
           x == CHOOSE n \in Runs(mem[p].view, mem[p].task) : mem[p].view[n].session = s
           e == Entry("superseded", mem[p].task, mem[p].view[x].rev, s, "superseded", 0)
           l == IF mem[p].stale = {s} THEN "begin" ELSE "retire"
<1>1. pc[p] = "note" /\ Record(p, m, e) /\ GoTo(p, l) /\ UNCHANGED lock
  BY DEF Note, At
<1>2. e.event # "started"
  BY DEF Entry
<1>3. IsMem(m) /\ m.view = mem[p].view /\ m.task = mem[p].task
  BY DEF LimitsInv, Shape, IsMem
<1> HIDE DEF m, e, l, s
<1>4. pc[p] \in Inside /\ pc[p] \in Decided
  BY <1>1 DEF Inside, Decided
<1>5. MissionLimitsHold'
  BY <1>1, <1>2, LimitsAfterNoStart DEF Record
<1>6. Admitted([m EXCEPT !.view = Append(m.view, e)], m.task)
  <2> DEFINE n == [m EXCEPT !.view = Append(m.view, e)]
  <2>1. n.view = Append(m.view, e)
    BY <1>3 DEF IsMem
  <2> HIDE DEF n
  <2>2. Admitted(m, m.task)
    BY <1>3, <1>4 DEF LimitsInv, StillAdmitted, Admitted
  <2>3. CASE Mission
    <3>1. IsSeq(m.view)
      BY <1>3, <1>4, <2>3 DEF LimitsInv, SeesAll, Shape
    <3>2. /\ \A S : Starts(n.view, S) = Starts(m.view, S)
          /\ Reserved(n.view) = Reserved(m.view)
      BY <1>2, <2>1, <3>1, NoStart
    <3>3. QED
      BY <2>2, <3>2 DEF Admitted, n
  <2>4. QED
    BY <2>3 DEF Admitted
<1>7. QED
  BY <1>1, <1>3, <1>4, <1>5, <1>6, RecordInv

LEMMA ReportInv == ASSUME LimitsInv, NEW p \in Procs, Report(p) PROVE LimitsInv'
<1> DEFINE m == [mem[p] EXCEPT !.task = 0, !.own = 0, !.before = {}]
           s == IF mem[p].own # 0 THEN (IF Exists(mem[p].own) THEN mem[p].own ELSE 0)
                ELSE Newest(KnownIn(RepoOf[mem[p].task]) \ mem[p].before)
           e == Entry("finished", mem[p].task, mem[p].revs[mem[p].task], s,
                      IF s = 0 THEN "failed" ELSE sessions[s].st, 0)
<1>1. pc[p] = "report" /\ Record(p, m, e) /\ GoTo(p, "choose") /\ UNCHANGED lock
  BY DEF Report, At
<1>2. e.event # "started"
  BY DEF Entry
<1>3. IsMem(m) /\ m.view = mem[p].view
  BY DEF LimitsInv, Shape, IsMem
<1> HIDE DEF m, e, s
<1>4. pc[p] \in Inside /\ "choose" \notin Decided
  BY <1>1 DEF Inside, Decided
<1>5. MissionLimitsHold'
  BY <1>1, <1>2, LimitsAfterNoStart DEF Record
<1>6. QED
  BY <1>1, <1>3, <1>4, <1>5, RecordInv

\* What was admitted is still admitted when its start is recorded.
LEMMA LimitsAfterStart ==
  ASSUME LimitsInv, NEW p \in Procs, At(p, "begin"), NEW e, e.event = "started",
         e.task = mem[p].task, ledger' = Append(ledger, e)
  PROVE  MissionLimitsHold'
<1> DEFINE k == mem[p].task
<1>1. SUFFICES ASSUME Mission PROVE MissionLimitsHold'
  BY DEF MissionLimitsHold
<1>2. mem[p].view = ledger /\ Admitted(mem[p], k)
  BY <1>1 DEF LimitsInv, SeesAll, StillAdmitted, At, Inside, Decided
<1>3. /\ Cardinality(Starts(ledger, Sharing(k))) < RepairLimit
      /\ k \in Reserved(ledger) \/ Cardinality(Reserved(ledger)) < Slots
  BY <1>1, <1>2 DEF Admitted
<1> HIDE DEF k
<1>4. IsSeq(ledger)
  BY DEF LimitsInv, Shape
<1>5. e.task = k
  BY DEF k
<1>a. Reserved(ledger') = IF k \in Tasks THEN Reserved(ledger) \cup {k} ELSE Reserved(ledger)
  BY <1>4, <1>5, OneStart
<1>6. ASSUME NEW u \in Tasks PROVE Cardinality(Starts(ledger', Sharing(u))) <= RepairLimit
  <2>1. CASE k \in Sharing(u)
    <3>1. Sharing(u) = Sharing(k)
      BY <2>1 DEF Sharing
    <3>2. Starts(ledger', Sharing(k)) = Starts(ledger, Sharing(k)) \cup {Len(ledger) + 1}
      BY <1>4, <1>5, <2>1, <3>1, OneStart
    <3> DEFINE S == Starts(ledger, Sharing(k))
    <3>3. IsFiniteSet(S) /\ Cardinality(S) \in Nat
      BY <1>4, StartsFinite
    <3>4. Cardinality(S) < RepairLimit
      BY <1>3
    <3>5. Starts(ledger', Sharing(u)) = S \cup {Len(ledger) + 1}
      BY <3>1, <3>2
    <3> HIDE DEF S
    <3>6. Cardinality(S \cup {Len(ledger) + 1}) \in {Cardinality(S), Cardinality(S) + 1}
      BY <3>3, FS_AddElement
    <3>7. QED
      BY <3>3, <3>4, <3>5, <3>6, MissionData
  <2>2. CASE k \notin Sharing(u)
    <3>1. Starts(ledger', Sharing(u)) = Starts(ledger, Sharing(u))
      BY <1>4, <1>5, <2>2, OneStart
    <3>2. QED
      BY <1>1, <3>1 DEF LimitsInv, MissionLimitsHold
  <2>3. QED
    BY <2>1, <2>2
<1>7. Cardinality(Reserved(ledger')) <= Slots
  <2>1. Cardinality(Reserved(ledger)) <= Slots
    BY <1>1 DEF LimitsInv, MissionLimitsHold
  <2>2. CASE k \notin Tasks \/ k \in Reserved(ledger)
    <3>1. Reserved(ledger') = Reserved(ledger)
      BY <1>a, <2>2
    <3>2. QED
      BY <2>1, <3>1
  <2>3. CASE k \in Tasks /\ k \notin Reserved(ledger)
    <3>1. Reserved(ledger') = Reserved(ledger) \cup {k}
      BY <1>a, <2>3
    <3>2. Cardinality(Reserved(ledger')) = Cardinality(Reserved(ledger)) + 1
      BY <1>4, <2>3, <3>1, StartsFinite, FS_AddElement
    <3>3. Cardinality(Reserved(ledger)) \in Nat
      BY <1>4, StartsFinite
    <3>4. QED
      BY <1>3, <2>3, <3>2, <3>3, MissionData
  <2>4. QED
    BY <2>2, <2>3
<1>8. QED
  BY <1>6, <1>7 DEF MissionLimitsHold

LEMMA BeginInv == ASSUME LimitsInv, NEW p \in Procs, Begin(p) PROVE LimitsInv'
<1> DEFINE m == [mem[p] EXCEPT !.before = KnownIn(RepoOf[mem[p].task])]
           e == Entry("started", mem[p].task, mem[p].revs[mem[p].task], mem[p].own, "none",
                      Len(sessions))
<1>1. At(p, "begin") /\ Record(p, m, e) /\ GoTo(p, "launch") /\ UNCHANGED lock
  BY DEF Begin
<1>2. e.event = "started" /\ e.task = mem[p].task
  BY DEF Entry
<1>3. IsMem(m) /\ m.view = mem[p].view
  BY DEF LimitsInv, Shape, IsMem
<1> HIDE DEF m, e
<1>4. pc[p] \in Inside /\ "launch" \notin Decided
  BY <1>1 DEF At, Inside, Decided
<1>5. MissionLimitsHold'
  BY <1>1, <1>2, LimitsAfterStart DEF Record
<1>6. QED
  BY <1>1, <1>3, <1>4, <1>5, RecordInv

LEMMA RunKeepsLimits == ASSUME LimitsInv, NEW p \in Procs, Run(p) PROVE LimitsInv'
<1>1. CASE Refused(p) \/ Contradicted(p) \/ Finish(p) \/ Crash(p)
  BY <1>1, LeaveInv DEF Refused, Contradicted, Finish, Crash, data
<1>2. CASE RetireRefused(p)
  BY <1>2, GoesOnInv DEF RetireRefused, At, Inside, Decided, data
<1>3. CASE LaunchStart(p) \/ LaunchResume(p) \/ LaunchFails(p)
  BY <1>3, GoesOnInv DEF LaunchStart, LaunchResume, LaunchFails, At, Inside, Decided, data
<1>4. CASE SessionEnds(p)
  BY <1>4, GoesOnInv DEF SessionEnds, At, Inside, Decided
<1>5. QED
  BY <1>1, <1>2, <1>3, <1>4, OpenInv, EnterInv, ChooseInv, WithholdInv, RetireInv, NoteInv,
     BeginInv, ReportInv DEF Run

LEMMA InitLimits == Init => LimitsInv
<1>1. SUFFICES ASSUME Init PROVE LimitsInv
  OBVIOUS
<1>2. ledger = <<>> /\ IsSeq(ledger)
  BY <1>1, EmptySeq DEF Init, IsSeq
<1>3. Shape
  BY <1>1, <1>2, BlankIsMem DEF Init, Shape
<1>4. \A q \in Procs : pc[q] \notin Inside /\ pc[q] \notin Decided
  BY <1>1 DEF Init, Inside, Decided
<1>5. MissionLimitsHold
  <2>1. Reserved(ledger) = {} /\ \A u \in Tasks : Starts(ledger, Sharing(u)) = {}
    BY <1>2 DEF Reserved, Starts
  <2>2. QED
    BY <2>1, FS_EmptySet, MissionData DEF MissionLimitsHold
<1>6. QED
  BY <1>3, <1>4, <1>5 DEF LimitsInv, OneInside, SeesAll, StillAdmitted

LEMMA LimitsStep == LimitsInv /\ [Next]_vars => LimitsInv'
<1>1. SUFFICES ASSUME LimitsInv, [Next]_vars PROVE LimitsInv'
  OBVIOUS
<1>2. CASE People \/ UNCHANGED vars
  BY <1>1, <1>2, StaysInv, Zenon DEF People, Edit, Clean, HumanStarts, HumanResumes, HumanEnds,
     HumanDiscards, SavedBack, runsOfQueue, vars
<1>3. QED
  BY <1>1, <1>2, RunKeepsLimits DEF Next

\* A mission's repair limit and its reserved slots hold for good (mission_binding.py): what a
\* run was admitted for stays admitted until its start is recorded, because the run has the
\* lock and the whole ledger then; crashes, new revisions and other runs give nothing back.
THEOREM MissionLimitsCorrect == Spec => []MissionLimitsHold
<1>1. LimitsInv => MissionLimitsHold
  BY DEF LimitsInv
<1>2. QED
  BY <1>1, InitLimits, LimitsStep, PTL DEF Spec

-----------------------------------------------------------------------------
(* What a mission's run knows of sessions and records.                       *)

Working  == Inside \ {"choose"}
Launched == {"launch", "session", "report"}

\* A sound session that can be resumed is the newest of its worktree.
NewestInv ==
  \A s, u \in Ids : Sound(s) /\ sessions[u].repo = sessions[s].repo => u <= s

GoalsInv == \A s \in Ids : sessions[s].goal # None =>
               sessions[s].goal \in Tasks /\ sessions[s].repo = RepoOf[sessions[s].goal]

\* No session, or one of the task's worktree.
Of(s, t) == s # 0 => s \in Ids /\ sessions[s].repo = RepoOf[t]

LedgerInv == \A n \in DOMAIN ledger : ledger[n].event # "superseded" =>
    /\ ledger[n].task \in Tasks /\ ledger[n].rev \in Revs
    /\ Of(ledger[n].session, ledger[n].task) /\ ledger[n].since \in 0 .. Len(sessions)

\* Some revision's record names the session, or is the start it was launched by.
Last(t, rev) == ledger[Max(RunsOf(ledger, t, rev))]
Recorded(s, t, rev) == \E n \in RunsOf(ledger, t, rev) : ledger[n].session = s
Launches(s, t, rev) == /\ RunsOf(ledger, t, rev) # {}
                       /\ Last(t, rev).event = "started" /\ Last(t, rev).session = 0
                       /\ s > Last(t, rev).since
Answered(s) == \E rev \in Revs : \/ Launches(s, sessions[s].goal, rev)
                                 \/ Recorded(s, sessions[s].goal, rev)
AnsweredInv == \A s \in Ids : Sound(s) /\ sessions[s].goal # None => Answered(s)

World == NewestInv /\ GoalsInv /\ LedgerInv /\ AnsweredInv /\ queue \in [Tasks -> Revs]

\* A run that decided to begin a task resumes the session its last start launched, ...
RevOf(q) == mem[q].revs[mem[q].task]
Kept(q) == \A s \in Ids :
    Sound(s) /\ sessions[s].goal = mem[q].task /\ Launches(s, mem[q].task, RevOf(q))
      => mem[q].own = s
\* ... and the task is still due, but for what a discard of a running session may change.
Pulled(r) == \E s \in Ids : sessions[s].pulled /\ sessions[s].repo = r
Due(q) == /\ mem[q].task \in mem[q].retry \/ RunsOf(ledger, mem[q].task, RevOf(q)) = {}
          /\ \A d \in DependsOn[mem[q].task] :
                Completed(ledger, d, mem[q].revs[d]) \/ Pulled(RepoOf[d])
\* A run that began one has recorded it last.
Begun(q) ==
    /\ RunsOf(ledger, mem[q].task, RevOf(q)) # {}
    /\ Last(mem[q].task, RevOf(q)).event = "started"
    /\ Last(mem[q].task, RevOf(q)).session = mem[q].own
    /\ \A s \in mem[q].before : s <= Last(mem[q].task, RevOf(q)).since

Knows(q) ==
    /\ pc[q] # "off" => mem[q].revs \in [Tasks -> Revs]
    /\ pc[q] \in Working => mem[q].task \in Tasks /\ Of(mem[q].own, mem[q].task)
    /\ pc[q] \in Decided => Kept(q) /\ Due(q)
    /\ pc[q] \in Launched => Begun(q)

SessionsKnown == World /\ \A q \in Procs : Knows(q)

LEMMA LeastIsOf ==
  ASSUME NEW S, S \subseteq Nat, S # {}
  PROVE  Min(S) \in S
<1>1. PICK x \in S : \A y \in S : ~(<<y, x>> \in OpToRel(<, Nat))
  BY NatLessThanWellFounded, WFMin
<1>2. ASSUME NEW y \in S, y < x PROVE FALSE
  <2>1. <<y, x>> \in Nat \X Nat /\ <<y, x>>[1] = y /\ <<y, x>>[2] = x
    OBVIOUS
  <2>2. QED
    BY <1>1, <1>2, <2>1 DEF OpToRel
<1>3. ASSUME NEW y \in S PROVE x <= y
  BY <1>2, <1>3
<1>4. QED
  BY <1>3 DEF Min

\* A session found by its goal is the newest of the worktree with that goal.
OfGoal(s, t, since) ==
    Exists(s) /\ sessions[s].repo = RepoOf[t] /\ s > since /\ sessions[s].goal = t
IsNewest(x, t, since) ==
    \/ x = 0 /\ \A s \in Ids : ~OfGoal(s, t, since)
    \/ x \in Ids /\ OfGoal(x, t, since) /\ \A s \in Ids : OfGoal(s, t, since) => s <= x

LEMMA FoundIs ==
  ASSUME SessionsInv, NEW t, NEW since PROVE IsNewest(Found(t, since), t, since)
<1> DEFINE S == {s \in KnownIn(RepoOf[t]) : s > since /\ sessions[s].goal = t}
<1>1. S \subseteq 1 .. Len(sessions) /\ Len(sessions) \in Nat
  BY IdsAre DEF KnownIn
<1>2. Found(t, since) = Newest(S)
  BY DEF Found
<1>3. \A s : s \in S <=> s \in Ids /\ OfGoal(s, t, since)
  BY DEF KnownIn, OfGoal
<1> HIDE DEF S
<1>4. IF S = {} THEN Newest(S) = 0
      ELSE Newest(S) \in S /\ Newest(S) # 0 /\ \A y \in S : y <= Newest(S)
  BY <1>1, NewestIs
<1>5. QED
  BY <1>2, <1>3, <1>4 DEF IsNewest

\* What a revision's records say now: by the last of them and the sessions there are.
Says(t, rev) == IF Last(t, rev).event = "started" /\ ~Exists(Last(t, rev).session)
                THEN Found(t, Last(t, rev).since) ELSE Last(t, rev).session
SaysComplete(t, rev) ==
    \/ \E n \in RunsOf(ledger, t, rev) : ledger[n].status = "complete"
    \/ IF Exists(Says(t, rev)) THEN sessions[Says(t, rev)].st = "complete"
       ELSE Last(t, rev).event # "started" /\ Last(t, rev).status = "complete"
Reading == \A t \in Tasks, rev \in Revs :
    IF RunsOf(ledger, t, rev) = {}
    THEN Own(ledger, t, rev) = 0 /\ ~Completed(ledger, t, rev)
    ELSE /\ Of(Last(t, rev).session, t) /\ Last(t, rev).since \in 0 .. Len(sessions)
         /\ Own(ledger, t, rev) = IF Open(Says(t, rev)) THEN Says(t, rev) ELSE 0
         /\ Completed(ledger, t, rev) <=> SaysComplete(t, rev)
         /\ IF Last(t, rev).event = "started" /\ ~Exists(Last(t, rev).session)
            THEN IsNewest(Says(t, rev), t, Last(t, rev).since)
            ELSE Says(t, rev) = Last(t, rev).session

LEMMA LastIsOf ==
  ASSUME IsSeq(ledger), NEW t, NEW rev, RunsOf(ledger, t, rev) # {}
  PROVE  /\ Max(RunsOf(ledger, t, rev)) \in RunsOf(ledger, t, rev)
         /\ \A n \in RunsOf(ledger, t, rev) : n <= Max(RunsOf(ledger, t, rev))
<1>1. RunsOf(ledger, t, rev) \subseteq 1 .. Len(ledger) /\ Len(ledger) \in Nat
  BY SeqDomain DEF RunsOf, Runs
<1>2. QED
  BY <1>1, GreatestIsOf

LEMMA Reads == SessionsInv /\ LedgerInv /\ IsSeq(ledger) => Reading
<1> SUFFICES ASSUME SessionsInv, LedgerInv, IsSeq(ledger), NEW t \in Tasks, NEW rev \in Revs
    PROVE IF RunsOf(ledger, t, rev) = {}
    THEN Own(ledger, t, rev) = 0 /\ ~Completed(ledger, t, rev)
    ELSE /\ Of(Last(t, rev).session, t) /\ Last(t, rev).since \in 0 .. Len(sessions)
         /\ Own(ledger, t, rev) = IF Open(Says(t, rev)) THEN Says(t, rev) ELSE 0
         /\ Completed(ledger, t, rev) <=> SaysComplete(t, rev)
         /\ IF Last(t, rev).event = "started" /\ ~Exists(Last(t, rev).session)
            THEN IsNewest(Says(t, rev), t, Last(t, rev).since)
            ELSE Says(t, rev) = Last(t, rev).session
  BY DEF Reading
<1>0. 0 \notin Ids
  BY IdsAre
<1>1. CASE RunsOf(ledger, t, rev) = {}
  <2>1. Outcome(ledger, t, rev) = [session |-> 0, status |-> "none"]
    BY <1>1 DEF Outcome
  <2>2. Own(ledger, t, rev) = 0
    BY <2>1, <1>0 DEF Own, Open
  <2>3. ~Completed(ledger, t, rev)
    BY <2>1, <1>1 DEF Completed
  <2>4. QED
    BY <1>1, <2>2, <2>3
<1>2. CASE RunsOf(ledger, t, rev) # {}
  <2>1. Last(t, rev).task = t /\ Last(t, rev).event # "superseded"
        /\ Max(RunsOf(ledger, t, rev)) \in DOMAIN ledger
    BY <1>2, LastIsOf DEF Last, RunsOf, Runs
  <2>2. Of(Last(t, rev).session, t) /\ Last(t, rev).since \in 0 .. Len(sessions)
    BY <2>1 DEF Last, LedgerInv
  <2>3. Outcome(ledger, t, rev) =
          [session |-> Says(t, rev),
           status |-> IF Exists(Says(t, rev)) THEN sessions[Says(t, rev)].st
                      ELSE IF Last(t, rev).event = "started" THEN "failed"
                      ELSE Last(t, rev).status]
    BY <1>2, Zenon DEF Outcome, Says, Last
  <2>4. Own(ledger, t, rev) = IF Open(Says(t, rev)) THEN Says(t, rev) ELSE 0
    BY <2>3 DEF Own
  <2>5. Completed(ledger, t, rev) <=> SaysComplete(t, rev)
    BY <2>3 DEF Completed, SaysComplete
  <2>6. IF Last(t, rev).event = "started" /\ ~Exists(Last(t, rev).session)
        THEN IsNewest(Says(t, rev), t, Last(t, rev).since)
        ELSE Says(t, rev) = Last(t, rev).session
    BY FoundIs DEF Says
  <2>7. QED
    BY <1>2, <2>2, <2>4, <2>5, <2>6
<1>3. QED
  BY <1>1, <1>2

LEMMA ReadsNext == SessionsInv' /\ LedgerInv' /\ IsSeq(ledger)' => Reading'
BY Reads, PTL

\* A sound session that its revision's last start launched is found by that record.
LEMMA LaunchedIsOwn ==
  ASSUME SessionsInv, World, Reading, NEW t \in Tasks, NEW rev \in Revs, NEW s \in Ids,
         Sound(s), sessions[s].goal = t, Launches(s, t, rev)
  PROVE  s = Own(ledger, t, rev)
<1>1. 0 \notin Ids /\ Ids \subseteq Nat
  BY IdsAre
<1>2. ~Exists(Last(t, rev).session)
  BY <1>1 DEF Launches, Exists
<1>3. /\ IsNewest(Says(t, rev), t, Last(t, rev).since)
      /\ Own(ledger, t, rev) = IF Open(Says(t, rev)) THEN Says(t, rev) ELSE 0
  BY <1>2 DEF Reading, Launches
<1>4. OfGoal(s, t, Last(t, rev).since) /\ sessions[s].repo = RepoOf[t]
  BY NamesDiffer DEF OfGoal, Launches, Sound, Open, Exists, World, GoalsInv
<1>5. Says(t, rev) \in Ids /\ OfGoal(Says(t, rev), t, Last(t, rev).since) /\ s <= Says(t, rev)
  BY <1>3, <1>4 DEF IsNewest
<1>6. Says(t, rev) <= s
  BY <1>4, <1>5 DEF World, NewestInv, OfGoal
<1>a. s \in Nat /\ Says(t, rev) \in Nat
  BY <1>1, <1>5
<1>7. Says(t, rev) = s
  BY <1>5, <1>6, <1>a
<1>8. QED
  BY <1>3, <1>7 DEF Sound

\* Nothing begins: no session becomes sound, and only what was discarded while somebody
\* ran it may come back.
Settled ==
    /\ Ids' = Ids /\ Len(sessions') = Len(sessions)
    /\ \A s \in Ids : /\ sessions'[s].repo = sessions[s].repo
                      /\ sessions'[s].goal = sessions[s].goal
                      /\ sessions[s].pulled => sessions'[s].pulled
                      /\ ~Open(s) => sessions'[s].st = sessions[s].st \/ sessions[s].pulled
                      /\ Sound(s)' => Sound(s)

LEMMA SettledPulled == ASSUME Settled, NEW r, Pulled(r) PROVE Pulled(r)'
BY DEF Settled, Pulled

LEMMA SettledReading ==
  ASSUME SessionsInv, SessionsInv', Reading, Reading', Settled, UNCHANGED ledger,
         NEW t \in Tasks, NEW rev \in Revs, ~Pulled(RepoOf[t])'
  PROVE  Completed(ledger, t, rev) => Completed(ledger, t, rev)'
<1>0. 0 \notin Ids /\ Ids' = Ids /\ \A s \in Ids : s \in Nat
  BY IdsAre DEF Settled
<1>1. \A s \in Ids : sessions[s].repo = RepoOf[t] =>
          /\ Exists(s)' => Exists(s)
          /\ sessions[s].st = "complete" => sessions'[s].st = "complete" /\ Exists(s)'
  BY DEF Settled, Pulled, Open, Exists
<1>2. RunsOf(ledger, t, rev)' = RunsOf(ledger, t, rev) /\ Last(t, rev)' = Last(t, rev)
  BY DEF Last
<1>3. CASE RunsOf(ledger, t, rev) = {}
  BY <1>3 DEF Reading
<1>4. CASE RunsOf(ledger, t, rev) # {}
  <2>0. PICK x, y, e : x = Says(t, rev) /\ y = Says(t, rev)' /\ e = Last(t, rev)
    OBVIOUS
  <2> DEFINE G(a) == OfGoal(a, t, e.since)
             H(a) == OfGoal(a, t, e.since)'
  <2>1. /\ Of(e.session, t)
        /\ IF e.event = "started" /\ ~Exists(e.session)
           THEN \/ x = 0 /\ \A a \in Ids : ~G(a)
                \/ x \in Ids /\ G(x) /\ \A a \in Ids : G(a) => a <= x
           ELSE x = e.session
    BY <1>4, <2>0 DEF Reading, IsNewest
  <2>2. IF e.event = "started" /\ ~Exists(e.session)'
        THEN \/ y = 0 /\ \A a \in Ids : ~H(a)
             \/ y \in Ids /\ H(y) /\ \A a \in Ids : H(a) => a <= y
        ELSE y = e.session
    BY <1>0, <1>2, <1>4, <2>0 DEF Reading, IsNewest
  <2>3. \A a \in Ids : H(a) <=> G(a) /\ Exists(a)'
    BY <1>1 DEF OfGoal, Settled
  <2>4. \A a : G(a) => sessions[a].repo = RepoOf[t]
    BY DEF OfGoal
  <2>5. e.session # 0 => e.session \in Ids /\ sessions[e.session].repo = RepoOf[t]
    BY <2>1 DEF Of
  <2>6. Exists(e.session)' => Exists(e.session)
    BY <1>0, <1>1, <2>5 DEF Exists
  <2>a. SaysComplete(t, rev) <=>
           \/ \E n \in RunsOf(ledger, t, rev) : ledger[n].status = "complete"
           \/ IF Exists(x) THEN sessions[x].st = "complete"
              ELSE e.event # "started" /\ e.status = "complete"
    BY <2>0 DEF SaysComplete
  <2>b. SaysComplete(t, rev)' <=>
           \/ \E n \in RunsOf(ledger, t, rev) : ledger[n].status = "complete"
           \/ IF Exists(y)' THEN sessions'[y].st = "complete"
              ELSE e.event # "started" /\ e.status = "complete"
    BY <1>2, <2>0 DEF SaysComplete
  <2>c. (Completed(ledger, t, rev) <=> SaysComplete(t, rev))
        /\ (Completed(ledger, t, rev)' <=> SaysComplete(t, rev)')
    BY <1>2, <1>4 DEF Reading
  <2> HIDE DEF G, H
  <2>d. ASSUME x \in Ids, Exists(x)' PROVE y = x
    <3>1. CASE e.event = "started" /\ ~Exists(e.session)
      <4>1. H(x)
        BY <1>0, <2>1, <2>3, <2>d, <3>1
      <4>2. y \in Ids /\ H(y) /\ x <= y
        BY <2>2, <2>6, <2>d, <3>1, <4>1
      <4>3. y <= x
        BY <1>0, <2>1, <2>3, <2>d, <3>1, <4>2
      <4>4. QED
        BY <1>0, <2>d, <4>2, <4>3
    <3>2. CASE ~(e.event = "started" /\ ~Exists(e.session))
      BY <2>1, <2>2, <2>d, <3>2
    <3>3. QED
      BY <3>1, <3>2
  <2>e. x \in Ids => sessions[x].repo = RepoOf[t]
    BY <1>0, <2>1, <2>4, <2>5
  <2>g. ASSUME Completed(ledger, t, rev) PROVE Completed(ledger, t, rev)'
    <3>1. CASE \E n \in RunsOf(ledger, t, rev) : ledger[n].status = "complete"
      BY <2>b, <2>c, <3>1
    <3>2. CASE Exists(x) /\ sessions[x].st = "complete"
      <4>1. x \in Ids /\ Exists(x)' /\ sessions'[x].st = "complete"
        BY <1>1, <2>e, <3>2 DEF Exists
      <4>2. QED
        BY <2>b, <2>c, <2>d, <4>1
    <3>3. CASE ~Exists(x) /\ e.event # "started" /\ e.status = "complete"
      BY <2>1, <2>2, <2>6, <2>b, <2>c, <3>3
    <3>4. QED
      BY <2>a, <2>c, <2>g, <3>1, <3>2, <3>3
  <2>h. QED
    BY <2>g
<1>5. QED
  BY <1>3, <1>4

\* A run goes on with what it knew, or puts some of it aside.
Carries(q) ==
    /\ mem'[q].revs = mem[q].revs /\ mem'[q].retry = mem[q].retry /\ mem'[q].task = mem[q].task
    /\ mem'[q].own = mem[q].own /\ mem'[q].before = mem[q].before
    /\ pc'[q] # "off" => pc[q] # "off"
    /\ \A S \in {Working, Decided, Launched} : pc'[q] \in S => pc[q] \in S

\* What holds of the ledger and of other runs' memory then still does.
LEMMA SettledKnown ==
  ASSUME SessionsInv, SessionsInv', Shape, SessionsKnown, Settled, UNCHANGED ledger,
         queue' \in [Tasks -> Revs]
  PROVE  /\ World'
         /\ \A q \in Procs : Carries(q) => Knows(q)'
<1>0. Ids' = Ids /\ \A s : Sound(s)' => Sound(s) /\ s \in Ids
  BY DEF Settled, Sound, Open
<1>1. NewestInv'
  BY <1>0 DEF SessionsKnown, World, NewestInv, Settled
<1>2. GoalsInv'
  BY <1>0 DEF SessionsKnown, World, GoalsInv, Settled
<1>3. \A s, t : Of(s, t) => Of(s, t)'
  BY <1>0 DEF Of, Settled
<1>4. LedgerInv'
  BY <1>3 DEF SessionsKnown, World, LedgerInv, Settled
<1>5. IsSeq(ledger) /\ IsSeq(ledger)'
  BY DEF Shape
<1>6. Reading /\ Reading'
  BY <1>4, <1>5, Reads, ReadsNext DEF SessionsKnown, World
<1>7. \A t \in Tasks, rev \in Revs :
         Completed(ledger, t, rev) \/ Pulled(RepoOf[t])
           => Completed(ledger, t, rev)' \/ Pulled(RepoOf[t])'
  BY <1>6, SettledReading, SettledPulled
<1>8. AnsweredInv'
  <2> SUFFICES ASSUME NEW s \in Ids, Sound(s)', sessions'[s].goal # None PROVE Answered(s)'
    BY <1>0 DEF AnsweredInv
  <2>1. Answered(s) /\ sessions'[s].goal = sessions[s].goal
    BY <1>0 DEF SessionsKnown, World, AnsweredInv, Settled
  <2>2. QED
    BY <2>1 DEF Answered, Launches, Recorded, Last
<1>9. ASSUME NEW q \in Procs, Carries(q) PROVE Knows(q)'
  <2>0. /\ mem'[q].revs = mem[q].revs /\ mem'[q].retry = mem[q].retry
        /\ mem'[q].task = mem[q].task /\ mem'[q].own = mem[q].own
        /\ mem'[q].before = mem[q].before /\ (pc'[q] # "off" => pc[q] # "off")
        /\ (pc'[q] \in Working => pc[q] \in Working) /\ (pc'[q] \in Decided => pc[q] \in Decided)
        /\ (pc'[q] \in Launched => pc[q] \in Launched)
    BY <1>9 DEF Carries
  <2>1. Knows(q)
    BY DEF SessionsKnown
  <2>2. pc[q] \in Working => mem[q].task \in Tasks /\ RevOf(q) \in Revs /\ RevOf(q)' = RevOf(q)
    BY <2>0, <2>1 DEF Knows, RevOf, Working, Inside
  <2>3. pc'[q] \in Decided => Kept(q)'
    BY <1>0, <2>0, <2>1, <2>2
       DEF Knows, Kept, Launches, Last, Decided, Working, Inside, Settled
  <2>4. pc'[q] \in Decided => Due(q)'
    BY <1>0, <1>7, <2>0, <2>1, <2>2, TaskData DEF Knows, Due, Decided, Working, Inside
  <2>5. pc'[q] \in Launched => Begun(q)'
    BY <1>0, <2>0, <2>1, <2>2 DEF Knows, Begun, Last, Launched, Working, Inside
  <2>6. QED
    BY <1>3, <2>0, <2>1, <2>3, <2>4, <2>5 DEF Knows
<1>10. QED
  BY <1>1, <1>2, <1>4, <1>8, <1>9 DEF SessionsKnown, World

LEMMA OpenedReading ==
  ASSUME Reading, Reading', UNCHANGED ledger, NEW k, Ids \subseteq Nat, 0 \notin Ids, k \notin Ids, k # 0,
         \A s : s \in Ids' <=> s \in Ids \/ s = k,
         \A s \in Ids : sessions'[s] = sessions[s],
         NEW t \in Tasks, NEW rev \in Revs,
         ~(sessions'[k].repo = RepoOf[t] /\ sessions'[k].goal = t)
  PROVE  /\ Own(ledger, t, rev)' = Own(ledger, t, rev)
         /\ Completed(ledger, t, rev) => Completed(ledger, t, rev)'
<1>1. \A s : s # k => (Open(s)' <=> Open(s)) /\ (Exists(s)' <=> Exists(s))
  BY DEF Open, Exists
<1>2. RunsOf(ledger, t, rev)' = RunsOf(ledger, t, rev) /\ Last(t, rev)' = Last(t, rev)
  BY DEF Last
<1>3. CASE RunsOf(ledger, t, rev) = {}
  BY <1>2, <1>3 DEF Reading
<1>4. CASE RunsOf(ledger, t, rev) # {}
  <2>0. PICK x, y, e : x = Says(t, rev) /\ y = Says(t, rev)' /\ e = Last(t, rev)
    OBVIOUS
  <2> DEFINE G(a) == OfGoal(a, t, e.since)
             H(a) == OfGoal(a, t, e.since)'
  <2>1. /\ Of(e.session, t)
        /\ Own(ledger, t, rev) = IF Open(x) THEN x ELSE 0
        /\ IF e.event = "started" /\ ~Exists(e.session)
           THEN \/ x = 0 /\ \A a \in Ids : ~G(a)
                \/ x \in Ids /\ G(x) /\ \A a \in Ids : G(a) => a <= x
           ELSE x = e.session
    BY <1>4, <2>0 DEF Reading, IsNewest
  <2>2. /\ Own(ledger, t, rev)' = IF Open(y)' THEN y ELSE 0
        /\ IF e.event = "started" /\ ~Exists(e.session)'
           THEN \/ y = 0 /\ \A a \in Ids' : ~H(a)
                \/ y \in Ids' /\ H(y) /\ \A a \in Ids' : H(a) => a <= y
           ELSE y = e.session
    BY <1>2, <1>4, <2>0 DEF Reading, IsNewest
  <2>3. \A a \in Ids : H(a) <=> G(a)
    BY <1>1 DEF OfGoal
  <2>4. ~H(k)
    BY DEF OfGoal
  <2>5. e.session = 0 \/ e.session \in Ids
    BY <2>1 DEF Of
  <2>6. SaysComplete(t, rev) <=>
           \/ \E n \in RunsOf(ledger, t, rev) : ledger[n].status = "complete"
           \/ IF Exists(x) THEN sessions[x].st = "complete"
              ELSE e.event # "started" /\ e.status = "complete"
    BY <2>0 DEF SaysComplete
  <2>7. SaysComplete(t, rev)' <=>
           \/ \E n \in RunsOf(ledger, t, rev) : ledger[n].status = "complete"
           \/ IF Exists(y)' THEN sessions'[y].st = "complete"
              ELSE e.event # "started" /\ e.status = "complete"
    BY <1>2, <2>0 DEF SaysComplete
  <2>8. (Completed(ledger, t, rev) <=> SaysComplete(t, rev))
        /\ (Completed(ledger, t, rev)' <=> SaysComplete(t, rev)')
    BY <1>2, <1>4 DEF Reading
  <2> HIDE DEF G, H
  <2>9. y = x
    <3>2. Exists(e.session)' <=> Exists(e.session)
      BY <1>1, <2>5
    <3>3. CASE e.event = "started" /\ ~Exists(e.session)
      <4>1. x = 0 => y = 0
        BY <2>1, <2>2, <2>3, <2>4, <3>2, <3>3
      <4>2. x # 0 => x \in Ids /\ y \in Ids /\ x <= y /\ y <= x
        BY <2>1, <2>2, <2>3, <2>4, <3>2, <3>3
      <4>3. x # 0 => x \in Nat /\ y \in Nat
        BY <4>2
      <4>4. QED
        BY <4>1, <4>2, <4>3
    <3>4. CASE ~(e.event = "started" /\ ~Exists(e.session))
      BY <2>1, <2>2, <3>2, <3>4
    <3>5. QED
      BY <3>3, <3>4
  <2>a. x # k
    BY <2>1, <2>5
  <2>b. (Open(x)' <=> Open(x)) /\ (Exists(x)' <=> Exists(x))
    BY <1>1, <2>a
  <2>c. Exists(x) => sessions'[x] = sessions[x]
    BY DEF Exists
  <2>d. QED
    BY <2>1, <2>2, <2>6, <2>7, <2>8, <2>9, <2>b, <2>c
<1>5. QED
  BY <1>3, <1>4

\* It comes after the others.
LEMMA SessionAdded ==
  ASSUME SessionsInv, NEW x, sessions' = Append(sessions, x)
  PROVE  /\ Len(sessions) \in Nat /\ Len(sessions') = Len(sessions) + 1
         /\ Ids = 1 .. Len(sessions)
         /\ \A i \in 1 .. Len(sessions) : sessions'[i] = sessions[i]
         /\ sessions'[Len(sessions) + 1] = x
<1>a. IsSeq(sessions)
  BY DEF SessionsInv
<1>1. LET m == Append(sessions, x) IN
      /\ IsSeq(m) /\ Len(sessions) \in Nat
      /\ DOMAIN sessions = 1 .. Len(sessions) /\ DOMAIN m = 1 .. Len(sessions) + 1
      /\ \A i \in 1 .. Len(sessions) : m[i] = sessions[i]
      /\ m[Len(sessions) + 1] = x
  BY <1>a, SeqAppended, ZenonT(30)
<1>2. /\ IsSeq(sessions') /\ Len(sessions) \in Nat
      /\ DOMAIN sessions = 1 .. Len(sessions) /\ DOMAIN sessions' = 1 .. Len(sessions) + 1
      /\ \A i \in 1 .. Len(sessions) : sessions'[i] = sessions[i]
      /\ sessions'[Len(sessions) + 1] = x
  BY <1>1, Zenon
<1>3. Len(sessions') \in Nat /\ DOMAIN sessions' = 1 .. Len(sessions')
  BY <1>2, SeqDomain
<1>4. Len(sessions') = Len(sessions) + 1
  BY <1>2, <1>3
<1>5. QED
  BY <1>2, <1>4 DEF Ids

\* A session begins: one of a person's, or the one a run has just recorded the start of.
LEMMA OpenedKnown ==
  ASSUME SessionsInv, SessionsInv', Shape, SessionsKnown, UNCHANGED <<ledger, queue>>,
         NEW r, NEW g, NEW who, OpenIn(r) = {},
         sessions' = Append(sessions, NewSession(r, g, who)),
         g # None => /\ g \in Tasks /\ r = RepoOf[g]
                     /\ \E rev \in Revs : /\ RunsOf(ledger, g, rev) # {}
                                          /\ Last(g, rev).event = "started"
                                          /\ Last(g, rev).session = 0
  PROVE  /\ World'
         /\ g = None => \A q \in Procs : pc'[q] = pc[q] /\ mem'[q] = mem[q] => Knows(q)'
         /\ \A s, t : Of(s, t) => Of(s, t)'
<1>0. PICK k : k = Len(sessions) + 1
  OBVIOUS
<1>1. /\ k \in Nat /\ Ids = 1 .. Len(sessions) /\ Len(sessions)' = k /\ Len(sessions) \in Nat
      /\ \A s \in Ids : sessions'[s] = sessions[s]
      /\ sessions'[k] = NewSession(r, g, who)
  BY <1>0, SessionAdded
<1>2. Ids' = 1 .. k
  BY <1>1, IdsAre DEF SessionsInv, Ids
<1>3. k \notin Ids /\ \A s : s \in Ids' <=> s \in Ids \/ s = k
  BY <1>1, <1>2
<1>4. /\ sessions'[k].repo = r /\ sessions'[k].goal = g /\ sessions'[k].st = "open"
      /\ ~sessions'[k].pulled
  BY <1>1 DEF NewSession
<1>5. \A s \in Ids : (Sound(s)' <=> Sound(s)) /\ s <= k /\ s # k
  BY <1>0, <1>1, <1>3 DEF Sound, Open
<1>6. \A s \in Ids : Sound(s) => sessions[s].repo # r
  BY DEF OpenIn, Sound
<1>7. NewestInv'
  BY <1>1, <1>3, <1>4, <1>5, <1>6 DEF SessionsKnown, World, NewestInv
<1>8. GoalsInv'
  BY <1>1, <1>3, <1>4 DEF SessionsKnown, World, GoalsInv
<1>9. \A s, t : Of(s, t) => Of(s, t)'
  BY <1>1, <1>3 DEF Of
<1>10. LedgerInv'
  <2>1. 0 .. Len(sessions) \subseteq 0 .. k
    BY <1>0, <1>1
  <2>2. QED
    BY <1>1, <1>9, <2>1 DEF SessionsKnown, World, LedgerInv
<1>11. Reading /\ Reading'
  BY <1>10, Reads, ReadsNext DEF SessionsKnown, World, Shape
<1>12. Ids \subseteq Nat /\ 0 \notin Ids /\ k # 0
  BY <1>0, <1>1
<1>13. \A t \in Tasks, rev \in Revs : ~(r = RepoOf[t] /\ g = t) =>
          (Completed(ledger, t, rev) => Completed(ledger, t, rev)')
  BY <1>1, <1>3, <1>4, <1>11, <1>12, OpenedReading
<1>a. \A d \in Tasks : Pulled(RepoOf[d]) => Pulled(RepoOf[d])'
  BY <1>1, <1>3 DEF Pulled
<1>14. AnsweredInv'
  <2>1. ASSUME NEW s \in Ids, Sound(s), sessions[s].goal # None PROVE Answered(s)'
    <3>1. Answered(s) /\ sessions'[s].goal = sessions[s].goal
      BY <1>1, <2>1 DEF SessionsKnown, World, AnsweredInv
    <3>2. QED
      BY <3>1 DEF Answered, Launches, Recorded, Last
  <2>2. ASSUME g # None PROVE Answered(k)'
    <3>1. PICK rev \in Revs : /\ RunsOf(ledger, g, rev) # {}
                              /\ Last(g, rev).event = "started"
                              /\ Last(g, rev).session = 0
      BY <2>2
    <3>3. Last(g, rev).since \in 0 .. Len(sessions)
      BY <1>11, <2>2, <3>1 DEF Reading
    <3>4. Launches(k, g, rev)
      BY <1>0, <1>1, <3>1, <3>3 DEF Launches
    <3>5. QED
      BY <1>4, <3>4 DEF Answered, Launches, Last
  <2>3. QED
    BY <1>1, <1>3, <1>4, <1>5, <2>1, <2>2 DEF AnsweredInv
<1>15. ASSUME g = None, NEW q \in Procs, pc'[q] = pc[q], mem'[q] = mem[q] PROVE Knows(q)'
  <2>1. Knows(q)
    BY DEF SessionsKnown
  <2>2. pc[q] \in Working => mem[q].task \in Tasks /\ RevOf(q) \in Revs /\ RevOf(q)' = RevOf(q)
    BY <1>15, <2>1 DEF Knows, RevOf, Working, Inside
  <2>3. \A t \in Tasks : g # t
    BY <1>15, NamesDiffer
  <2>4. pc'[q] \in Decided => Kept(q)'
    <3>1. \A t \in Tasks : \A s \in Ids' : Sound(s)' /\ sessions'[s].goal = t
             => s \in Ids /\ Sound(s) /\ sessions[s].goal = t
      BY <1>1, <1>3, <1>4, <1>5, <1>15, <2>3
    <3>2. QED
      BY <1>15, <2>1, <2>2, <3>1
         DEF Knows, Kept, Launches, Last, Decided, Working, Inside
  <2>5. pc'[q] \in Decided => Due(q)'
    BY <1>13, <1>15, <1>a, <2>1, <2>2, <2>3, TaskData DEF Knows, Due, Decided, Working, Inside
  <2>6. pc'[q] \in Launched => Begun(q)'
    BY <1>1, <1>3, <1>4, <1>15, <2>1, <2>2, <2>3
       DEF Knows, Begun, Last, Launched, Working, Inside
  <2>7. QED
    BY <1>9, <1>15, <2>1, <2>4, <2>5, <2>6 DEF Knows
<1>16. QED
  BY <1>7, <1>8, <1>9, <1>10, <1>14, <1>15 DEF SessionsKnown, World

-----------------------------------------------------------------------------
(* A record is added.                                                        *)

Names(e, t, rev) == e.event # "superseded" /\ e.task = t /\ e.rev = rev

AddedFor(e, t, rev) ==
    /\ \A n \in RunsOf(ledger, t, rev) : ledger'[n] = ledger[n]
    /\ Names(e, t, rev) =>
         /\ RunsOf(ledger, t, rev)' = RunsOf(ledger, t, rev) \cup {Len(ledger) + 1}
         /\ Last(t, rev)' = e /\ ledger'[Len(ledger) + 1] = e
    /\ ~Names(e, t, rev) =>
         /\ RunsOf(ledger, t, rev)' = RunsOf(ledger, t, rev)
         /\ RunsOf(ledger, t, rev) # {} => Last(t, rev)' = Last(t, rev)

LEMMA LedgerAdded ==
  ASSUME IsSeq(ledger), NEW e, ledger' = Append(ledger, e)
  PROVE  /\ IsSeq(ledger')
         /\ \A n \in DOMAIN ledger' : IF n \in DOMAIN ledger THEN ledger'[n] = ledger[n]
                                                              ELSE ledger'[n] = e
         /\ \A t, rev : AddedFor(e, t, rev)
<1>1. LET m == Append(ledger, e) IN
      /\ IsSeq(m) /\ Len(ledger) \in Nat
      /\ DOMAIN ledger = 1 .. Len(ledger) /\ DOMAIN m = 1 .. Len(ledger) + 1
      /\ \A i \in 1 .. Len(ledger) : m[i] = ledger[i]
      /\ m[Len(ledger) + 1] = e
  BY SeqAppended, Zenon
<1>0. PICK k : k = Len(ledger) + 1
  OBVIOUS
<1>2. /\ IsSeq(ledger') /\ Len(ledger) \in Nat
      /\ DOMAIN ledger = 1 .. Len(ledger) /\ DOMAIN ledger' = 1 .. k
      /\ \A i \in 1 .. Len(ledger) : ledger'[i] = ledger[i]
      /\ ledger'[k] = e
  BY <1>0, <1>1, Zenon
<1>3. /\ k \notin DOMAIN ledger /\ \A n : n \in DOMAIN ledger' <=> n \in DOMAIN ledger \/ n = k
      /\ \A n \in DOMAIN ledger : ledger'[n] = ledger[n] /\ n <= k /\ n \in Nat
  BY <1>0, <1>2
<1>4. ASSUME NEW t, NEW rev
      PROVE  RunsOf(ledger, t, rev)' = IF Names(e, t, rev) THEN RunsOf(ledger, t, rev) \cup {k}
                                       ELSE RunsOf(ledger, t, rev)
  BY <1>2, <1>3 DEF RunsOf, Runs, Names
<1>5. ASSUME NEW t, NEW rev, Names(e, t, rev) PROVE Max(RunsOf(ledger, t, rev) \cup {k}) = k
  <2>1. RunsOf(ledger, t, rev) \subseteq DOMAIN ledger
    BY DEF RunsOf, Runs
  <2>2. k \in Nat /\ \A y \in RunsOf(ledger, t, rev) \cup {k} : y <= k
    BY <1>0, <1>2, <1>3, <2>1
  <2>3. RunsOf(ledger, t, rev) \cup {k} \subseteq 1 .. k
    BY <1>0, <1>2, <2>1
  <2>4. /\ Max(RunsOf(ledger, t, rev) \cup {k}) \in RunsOf(ledger, t, rev) \cup {k}
        /\ k <= Max(RunsOf(ledger, t, rev) \cup {k})
    BY <2>2, <2>3, GreatestIsOf
  <2>5. QED
    BY <2>2, <2>3, <2>4
<1>6. ASSUME NEW t, NEW rev PROVE AddedFor(e, t, rev)
  <2>1. RunsOf(ledger, t, rev) \subseteq DOMAIN ledger
    BY DEF RunsOf, Runs
  <2>2. RunsOf(ledger, t, rev) # {} => Max(RunsOf(ledger, t, rev)) \in RunsOf(ledger, t, rev)
    BY LastIsOf
  <2>3. QED
    BY <1>0, <1>2, <1>3, <1>4, <1>5, <2>1, <2>2 DEF Last, AddedFor
<1>7. QED
  BY <1>2, <1>3, <1>6

LEMMA OtherReading ==
  ASSUME Reading, Reading', UNCHANGED sessions, NEW t \in Tasks, NEW rev \in Revs,
         RunsOf(ledger, t, rev)' = RunsOf(ledger, t, rev),
         RunsOf(ledger, t, rev) # {} => Last(t, rev)' = Last(t, rev),
         \A n \in RunsOf(ledger, t, rev) : ledger'[n] = ledger[n]
  PROVE  /\ Own(ledger, t, rev)' = Own(ledger, t, rev)
         /\ Completed(ledger, t, rev)' <=> Completed(ledger, t, rev)
<1>1. CASE RunsOf(ledger, t, rev) = {}
  BY <1>1 DEF Reading
<1>2. CASE RunsOf(ledger, t, rev) # {}
  <2>1. \A s : (Exists(s)' <=> Exists(s)) /\ (Open(s)' <=> Open(s))
    BY DEF Exists, Open, Ids
  <2>2. Says(t, rev)' = Says(t, rev)
    BY <1>2, <2>1 DEF Says, Found, KnownIn, Ids
  <2>3. SaysComplete(t, rev)' <=> SaysComplete(t, rev)
    BY <1>2, <2>1, <2>2 DEF SaysComplete
  <2>4. QED
    BY <1>2, <2>1, <2>2, <2>3 DEF Reading
<1>3. QED
  BY <1>1, <1>2

\* The record names the session that its task's last record led to, if one was open.
LEMMA RecordedWorld ==
  ASSUME SessionsInv, World, IsSeq(ledger), UNCHANGED <<sessions, queue>>,
         NEW e, ledger' = Append(ledger, e),
         e.event # "superseded" =>
            /\ e.task \in Tasks /\ e.rev \in Revs
            /\ Of(e.session, e.task) /\ e.since \in 0 .. Len(sessions)
            /\ \A s \in Ids : Sound(s) /\ sessions[s].goal = e.task
                              /\ Launches(s, e.task, e.rev) => e.session = s
  PROVE  /\ World'
         /\ \A t \in Tasks, rev \in Revs : ~Names(e, t, rev) =>
              (Completed(ledger, t, rev)' <=> Completed(ledger, t, rev))
<1>1. SessionsInv' /\ NewestInv' /\ GoalsInv'
  BY DEF SessionsInv, World, NewestInv, GoalsInv, Ids, Open, Sound
<1>2. \A s, t : Of(s, t)' <=> Of(s, t)
  BY DEF Of, Ids
<1>3. LedgerInv'
  BY <1>2, LedgerAdded DEF World, LedgerInv
<1>4. Reading /\ Reading'
  BY <1>1, <1>3, LedgerAdded, Reads, ReadsNext DEF World
<1>5. \A t \in Tasks, rev \in Revs : ~Names(e, t, rev) =>
          (Completed(ledger, t, rev)' <=> Completed(ledger, t, rev))
  <2> SUFFICES ASSUME NEW t \in Tasks, NEW rev \in Revs, ~Names(e, t, rev)
      PROVE Completed(ledger, t, rev)' <=> Completed(ledger, t, rev)
    OBVIOUS
  <2>1. AddedFor(e, t, rev)
    BY LedgerAdded
  <2>2. /\ RunsOf(ledger, t, rev)' = RunsOf(ledger, t, rev)
        /\ RunsOf(ledger, t, rev) # {} => Last(t, rev)' = Last(t, rev)
        /\ \A n \in RunsOf(ledger, t, rev) : ledger'[n] = ledger[n]
    BY <2>1 DEF AddedFor
  <2>3. QED
    BY <1>4, <2>2, OtherReading
<1>6. AnsweredInv'
  <2> SUFFICES ASSUME NEW s \in Ids, Sound(s), sessions[s].goal # None PROVE Answered(s)'
    BY DEF AnsweredInv, Ids, Sound, Open
  <2>1. Answered(s)
    BY DEF World, AnsweredInv
  <2>0. PICK t : t = sessions[s].goal
    OBVIOUS
  <2>2. PICK rev \in Revs : Launches(s, t, rev) \/ Recorded(s, t, rev)
    BY <2>0, <2>1 DEF Answered
  <2>6. AddedFor(e, t, rev)
    BY LedgerAdded
  <2>3. CASE Recorded(s, t, rev)
    <3>1. Recorded(s, t, rev)'
      BY <2>3, <2>6 DEF Recorded, AddedFor
    <3>2. QED
      BY <2>0, <3>1 DEF Answered
  <2>4. CASE Launches(s, t, rev) /\ ~Names(e, t, rev)
    <3>1. Launches(s, t, rev)'
      BY <2>4, <2>6 DEF Launches, AddedFor
    <3>2. QED
      BY <2>0, <3>1 DEF Answered
  <2>5. CASE Launches(s, t, rev) /\ Names(e, t, rev)
    <3>1. e.session = s
      BY <2>0, <2>5 DEF Names
    <3>2. Recorded(s, t, rev)'
      BY <2>5, <2>6, <3>1 DEF Recorded, AddedFor
    <3>3. QED
      BY <2>0, <3>2 DEF Answered
  <2>7. QED
    BY <2>2, <2>3, <2>4, <2>5
<1>7. QED
  BY <1>1, <1>3, <1>5, <1>6 DEF World

-----------------------------------------------------------------------------
(* Steps of one run, again.                                                  *)

LEMMA SameSettles == ASSUME UNCHANGED sessions PROVE Settled
BY DEF Settled, Ids, Sound, Open

LEMMA BecomesSettles ==
  ASSUME SessionsInv, NEW s \in Ids, Held(s), NEW st, NEW who,
         sessions' = Becomes(s, st, who)
  PROVE  Settled
<1> DEFINE x == [sessions[s] EXCEPT !.st = st, !.live = who]
<1>1. sessions' = [sessions EXCEPT ![s] = x]
  BY DEF Becomes
<1>2. /\ x.repo = sessions[s].repo /\ x.goal = sessions[s].goal
      /\ x.pulled = sessions[s].pulled
  BY DEF SessionsInv, IsSession
<1> HIDE DEF x
<1>a. IsSeq(sessions)
  BY DEF SessionsInv
<1>3. /\ IsSeq(sessions') /\ DOMAIN sessions' = DOMAIN sessions
      /\ \A i \in DOMAIN sessions : sessions'[i] = IF i = s THEN x ELSE sessions[i]
  BY <1>1, <1>a, SeqChanged DEF Ids
<1>4. Len(sessions') = Len(sessions)
  <2>1. /\ Len(sessions) \in Nat /\ DOMAIN sessions = 1 .. Len(sessions)
        /\ Len(sessions') \in Nat /\ DOMAIN sessions' = 1 .. Len(sessions')
    BY <1>3, SeqDomain DEF SessionsInv
  <2>2. QED
    BY <1>3, <2>1
<1>5. QED
  BY <1>2, <1>3, <1>4 DEF Settled, Ids, Sound, Open, Held

LEMMA EndsSettles == ASSUME SessionsInv, NEW who, who # None, Ends(who) PROVE Settled
<1>1. PICK s, st : s \in Ids /\ sessions[s].live = who /\ sessions' = Becomes(s, st, None)
  BY Zenon DEF Ends
<1>2. Held(s)
  BY <1>1 DEF SessionsInv, Open, Held
<1>3. QED
  BY <1>1, <1>2, BecomesSettles

LEMMA CrashSettles == ASSUME SessionsInv, SessionsInv', NEW p \in Procs, Crash(p) PROVE Settled
<1> DEFINE x(s) == [sessions[s] EXCEPT !.live = IF @ = p THEN None ELSE @]
<1>1. sessions' = [s \in Ids |-> x(s)]
  BY DEF Crash
<1>2. \A s \in Ids : /\ x(s).st = sessions[s].st /\ x(s).repo = sessions[s].repo
                     /\ x(s).goal = sessions[s].goal /\ x(s).pulled = sessions[s].pulled
  BY DEF SessionsInv, IsSession
<1> HIDE DEF x
<1>3. DOMAIN sessions' = Ids /\ \A s \in Ids : sessions'[s] = x(s)
  BY <1>1
<1>4. Len(sessions') = Len(sessions)
  <2>1. /\ Len(sessions) \in Nat /\ DOMAIN sessions = 1 .. Len(sessions)
        /\ Len(sessions') \in Nat /\ DOMAIN sessions' = 1 .. Len(sessions')
    BY SeqDomain DEF SessionsInv
  <2>2. QED
    BY <1>3, <2>1 DEF Ids
<1>5. QED
  BY <1>2, <1>3, <1>4 DEF Settled, Ids, Sound, Open

\* What a step leaves of the other runs.
LEMMA OthersCarry ==
  ASSUME Shape, NEW p \in Procs, NEW l, NEW m,
         pc' = [pc EXCEPT ![p] = l], mem' = [mem EXCEPT ![p] = m]
  PROVE  /\ pc'[p] = l /\ mem'[p] = m
         /\ \A q \in Procs \ {p} : Carries(q) /\ pc'[q] = pc[q] /\ mem'[q] = mem[q]
BY DEF Shape, Carries

\* The run goes on with what it knew, or knows nothing any more.
LEMMA GoesOnKnown ==
  ASSUME SessionsInv, SessionsInv', LimitsInv, SessionsKnown, Settled, UNCHANGED <<ledger, queue>>,
         NEW p \in Procs, NEW l, NEW m,
         pc' = [pc EXCEPT ![p] = l], mem' = [mem EXCEPT ![p] = m],
         \/ l = "off"
         \/ l \in {"opened", "choose"} /\ m.revs \in [Tasks -> Revs]
         \/ Carries(p)
  PROVE  SessionsKnown'
<1>1. /\ World' /\ \A q \in Procs : Carries(q) => Knows(q)'
  BY SettledKnown DEF LimitsInv, SessionsKnown, World
<1>2. /\ pc'[p] = l /\ mem'[p] = m
      /\ \A q \in Procs \ {p} : Carries(q) /\ pc'[q] = pc[q] /\ mem'[q] = mem[q]
  BY OthersCarry DEF LimitsInv
<1>3. Knows(p)'
  <2>1. CASE l = "off" \/ (l \in {"opened", "choose"} /\ m.revs \in [Tasks -> Revs])
    BY <1>2, <2>1 DEF Knows, Working, Inside, Decided, Launched
  <2>2. QED
    BY <1>1, <2>1
<1>4. QED
  BY <1>1, <1>2, <1>3 DEF SessionsKnown

LEMMA PeopleKnown ==
  ASSUME SessionsInv, SessionsInv', LimitsInv, SessionsKnown, People PROVE SessionsKnown'
<1>1. Human # None
  BY NamesDiffer
<1>2. UNCHANGED <<ledger, pc, mem>>
  BY Zenon DEF People, Edit, Clean, HumanStarts, HumanResumes, HumanEnds, HumanDiscards,
     SavedBack, runsOfQueue
<1>3. \A q \in Procs : Carries(q)
  BY <1>2 DEF Carries
<1>4. queue' \in [Tasks -> Revs]
  BY DEF SessionsKnown, World, People, Edit, Clean, HumanStarts, HumanResumes, HumanEnds,
         HumanDiscards, SavedBack
<1>5. ASSUME Settled PROVE SessionsKnown'
  BY <1>2, <1>3, <1>4, <1>5, SettledKnown DEF LimitsInv, SessionsKnown
<1>6. CASE Edit \/ Clean
  BY <1>5, <1>6, SameSettles DEF Edit, Clean
<1>7. CASE HumanStarts
  <2>1. PICK r : OpenIn(r) = {} /\ sessions' = Append(sessions, NewSession(r, None, Human))
    BY <1>7 DEF HumanStarts
  <2>2. UNCHANGED <<ledger, queue>>
    BY <1>2, <1>7 DEF HumanStarts
  <2>3. /\ World' /\ \A q \in Procs : pc'[q] = pc[q] /\ mem'[q] = mem[q] => Knows(q)'
    BY <2>1, <2>2, OpenedKnown DEF LimitsInv
  <2>4. QED
    BY <1>2, <2>3 DEF SessionsKnown
<1>8. CASE HumanResumes
  <2>1. PICK r : Newest(OpenIn(r)) # 0
                 /\ sessions' = Becomes(Newest(OpenIn(r)), "open", Human)
    BY <1>8 DEF HumanResumes
  <2>2. QED
    BY <1>5, <2>1, BecomesSettles, NewestIsOpen DEF Held
<1>9. CASE HumanEnds
  BY <1>1, <1>5, <1>9, EndsSettles DEF HumanEnds
<1>10. CASE HumanDiscards
  <2>1. PICK r : Discarding(r)
    BY <1>10 DEF HumanDiscards, Discarding
  <2>2. Settled
    BY <2>1, DiscardsInv DEF Settled
  <2>3. QED
    BY <1>5, <2>2
<1>a. CASE SavedBack
  <2>1. PICK s \in Ids : /\ sessions[s].live # None /\ sessions[s].st = "discarded"
                        /\ sessions' = Becomes(s, "open", sessions[s].live)
    BY <1>a DEF SavedBack
  <2>2. Held(s)
    BY <2>1 DEF SessionsInv, Held
  <2>3. QED
    BY <1>5, <2>1, <2>2, BecomesSettles
<1>11. QED
  BY <1>6, <1>7, <1>8, <1>9, <1>10, <1>a DEF People

LEMMA LeaveKnown ==
  ASSUME SessionsInv, SessionsInv', LimitsInv, SessionsKnown, Settled, UNCHANGED <<ledger, queue>>,
         NEW p \in Procs, Leave(p)
  PROVE  SessionsKnown'
BY GoesOnKnown DEF Leave, GoTo

LEMMA OpenKnown ==
  ASSUME SessionsInv, SessionsInv', LimitsInv, SessionsKnown, NEW p \in Procs, OpenQueue(p)
  PROVE  SessionsKnown'
<1>1. PICK retry : mem' = [mem EXCEPT ![p] = [Blank EXCEPT !.revs = queue, !.retry = retry,
                                            !.view = IF Mission THEN <<>> ELSE ledger]]
  BY DEF OpenQueue
<1> DEFINE m == [Blank EXCEPT !.revs = queue, !.retry = retry,
                              !.view = IF Mission THEN <<>> ELSE ledger]
<1>2. m.revs \in [Tasks -> Revs] /\ mem' = [mem EXCEPT ![p] = m]
  BY <1>1 DEF Blank, SessionsKnown, World
<1>3. pc' = [pc EXCEPT ![p] = "opened"] /\ UNCHANGED <<sessions, ledger, queue>>
  BY DEF OpenQueue, GoTo, data
<1> HIDE DEF m
<1>4. QED
  BY <1>2, <1>3, GoesOnKnown, SameSettles

LEMMA EnterKnown ==
  ASSUME SessionsInv, SessionsInv', LimitsInv, SessionsKnown, NEW p \in Procs, Enter(p)
  PROVE  SessionsKnown'
<1> DEFINE m == IF Mission THEN [mem[p] EXCEPT !.view = ledger] ELSE mem[p]
<1>1. mem' = [mem EXCEPT ![p] = m]
  BY DEF Enter, LimitsInv, Shape
<1>2. m.revs = mem[p].revs
  BY DEF LimitsInv, Shape, IsMem
<1>3. pc' = [pc EXCEPT ![p] = "choose"] /\ pc[p] = "opened" /\ UNCHANGED <<sessions, ledger, queue>>
  BY DEF Enter, GoTo, At, data
<1>4. m.revs \in [Tasks -> Revs]
  BY <1>2, <1>3 DEF SessionsKnown, Knows
<1> HIDE DEF m
<1>5. QED
  BY <1>1, <1>3, <1>4, GoesOnKnown, SameSettles

LEMMA OwnIsOf ==
  ASSUME SessionsInv, LimitsInv, SessionsKnown, NEW t \in Tasks, NEW rev \in Revs
  PROVE  Of(Own(ledger, t, rev), t)
<1>1. Reading
  BY Reads DEF LimitsInv, Shape, SessionsKnown, World
<1>2. CASE RunsOf(ledger, t, rev) = {}
  BY <1>1, <1>2 DEF Reading, Of
<1>3. CASE RunsOf(ledger, t, rev) # {}
  BY <1>1, <1>3 DEF Reading, Of, IsNewest, OfGoal
<1>4. QED
  BY <1>2, <1>3

\* The task chosen may be dispatched, as the ledger says: the run holds all of it.
LEMMA ChooseKnown ==
  ASSUME SessionsInv, SessionsInv', LimitsInv, SessionsKnown, Mission, NEW p \in Procs, Choose(p)
  PROVE  SessionsKnown'
<1> DEFINE k == Chosen(p)
           m == [mem[p] EXCEPT !.tried = @ \cup {k}, !.task = k,
                               !.own = Own(mem[p].view, k, mem[p].revs[k]),
                               !.stale = Stale(mem[p].view, k, mem[p].revs[k])]
           l == IF Stale(mem[p].view, k, mem[p].revs[k]) = {} THEN "begin" ELSE "retire"
<1>1. mem' = [mem EXCEPT ![p] = m] /\ pc' = [pc EXCEPT ![p] = l]
      /\ UNCHANGED <<sessions, ledger, queue>>
  BY DEF Choose, GoTo, data
<1>2. /\ m.task = k /\ m.own = Own(mem[p].view, k, mem[p].revs[k])
      /\ m.revs = mem[p].revs /\ m.retry = mem[p].retry
  BY DEF LimitsInv, Shape, IsMem
<1>3. l \in {"begin", "retire"}
  OBVIOUS
<1>4. pc[p] = "choose" /\ k \in Dispatchable(mem[p])
  <2>1. Dispatchable(mem[p]) \subseteq Nat /\ Dispatchable(mem[p]) # {} /\ pc[p] = "choose"
    BY TasksAreNumbered DEF Choose, MayChoose, At, Dispatchable
  <2>2. QED
    BY <2>1, LeastIsOf DEF Chosen
<1> HIDE DEF m, k, l
<1>5. mem[p].view = ledger /\ mem[p].revs \in [Tasks -> Revs]
  BY <1>4 DEF LimitsInv, SeesAll, Inside, SessionsKnown, Knows
<1>6. /\ k \in Tasks /\ mem[p].revs[k] \in Revs
      /\ k \in mem[p].retry \/ RunsOf(ledger, k, mem[p].revs[k]) = {}
      /\ \A d \in DependsOn[k] : Completed(ledger, d, mem[p].revs[d])
  BY <1>4, <1>5 DEF Dispatchable, Eligible
<1>7. Of(Own(ledger, k, mem[p].revs[k]), k)
  BY <1>6, OwnIsOf
<1>8. /\ pc'[p] = l /\ mem'[p] = m
      /\ \A q \in Procs \ {p} : Carries(q)
  BY <1>1, OthersCarry DEF LimitsInv
<1>9. /\ World' /\ \A q \in Procs : Carries(q) => Knows(q)'
  BY <1>1, SettledKnown, SameSettles DEF LimitsInv, SessionsKnown, World
<1>10. Knows(p)'
  <2>1. mem'[p].task = k /\ mem'[p].own = Own(ledger, k, mem[p].revs[k])
        /\ mem'[p].revs = mem[p].revs /\ mem'[p].retry = mem[p].retry
    BY <1>2, <1>5, <1>8
  <2>2. Of(mem[p].own, mem[p].task)'
    BY <1>1, <1>7, <2>1 DEF Of, Ids
  <2>a. Reading /\ Reading'
    BY <1>1, <1>9, Reads, ReadsNext DEF LimitsInv, Shape, SessionsKnown, World
  <2>b. \A d \in Tasks, rev \in Revs :
           Completed(ledger, d, rev) => Completed(ledger, d, rev)' \/ Pulled(RepoOf[d])'
    BY <1>1, <2>a, SameSettles, SettledReading
  <2>3. Due(p)'
    BY <1>1, <1>5, <1>6, <2>1, <2>b, TaskData DEF Due, RevOf
  <2>c. \A s \in Ids : Sound(s) /\ sessions[s].goal = k /\ Launches(s, k, mem[p].revs[k])
           => s = Own(ledger, k, mem[p].revs[k])
    BY <1>6, <2>a, LaunchedIsOwn DEF SessionsKnown
  <2>d. \A s, t, rev : Launches(s, t, rev)' <=> Launches(s, t, rev)
    BY <1>1 DEF Launches, Last
  <2>4. Kept(p)'
    BY <1>1, <2>1, <2>c, <2>d DEF Kept, RevOf, Ids, Sound, Open
  <2>5. QED
    BY <1>3, <1>5, <1>6, <1>8, <2>1, <2>2, <2>3, <2>4 DEF Knows, Launched
<1>11. QED
  BY <1>8, <1>9, <1>10 DEF SessionsKnown

LEMMA WithholdKnown ==
  ASSUME SessionsInv, SessionsInv', LimitsInv, SessionsKnown, NEW p \in Procs, Withhold(p)
  PROVE  SessionsKnown'
<1> DEFINE m == [mem[p] EXCEPT !.tried = mem[p].tried \cup {Chosen(p)}]
<1>1. mem' = [mem EXCEPT ![p] = m]
  BY DEF Withhold
<1>2. pc[p] = "choose" /\ pc' = pc /\ UNCHANGED <<sessions, ledger, queue>>
  BY DEF Withhold, MayChoose, At, data
<1>3. pc' = [pc EXCEPT ![p] = "choose"]
  BY <1>2 DEF LimitsInv, Shape
<1>4. m.revs = mem[p].revs /\ mem[p].revs \in [Tasks -> Revs]
  BY <1>2 DEF LimitsInv, Shape, IsMem, SessionsKnown, Knows
<1> HIDE DEF m
<1>5. QED
  BY <1>1, <1>2, <1>3, <1>4, GoesOnKnown, SameSettles

LEMMA RetireKnown ==
  ASSUME SessionsInv, SessionsInv', LimitsInv, SessionsKnown, NEW p \in Procs, Retire(p)
  PROVE  SessionsKnown'
<1>1. PICK s : /\ Open(s) /\ sessions' = Becomes(s, "superseded", None)
               /\ mem' = [mem EXCEPT ![p] = [@ EXCEPT !.retired = s]]
  BY DEF Retire
<1>2. Settled
  BY <1>1, BecomesSettles DEF Open, Held
<1> DEFINE m == [mem[p] EXCEPT !.retired = s]
<1>3. mem' = [mem EXCEPT ![p] = m] /\ pc' = [pc EXCEPT ![p] = "note"] /\ pc[p] = "retire"
      /\ UNCHANGED <<ledger, queue>>
  BY <1>1 DEF Retire, GoTo, At, LimitsInv, Shape
<1>4. /\ m.revs = mem[p].revs /\ m.retry = mem[p].retry /\ m.task = mem[p].task
      /\ m.own = mem[p].own /\ m.before = mem[p].before
  BY DEF LimitsInv, Shape, IsMem
<1> HIDE DEF m
<1>5. Carries(p)
  BY <1>3, <1>4, OthersCarry DEF Carries, Working, Inside, Decided, Launched, LimitsInv
<1>6. QED
  BY <1>2, <1>3, <1>5, GoesOnKnown

LEMMA LaunchKnown ==
  ASSUME SessionsInv, SessionsInv', LimitsInv, SessionsKnown, NEW p \in Procs,
         RetireRefused(p) \/ LaunchResume(p) \/ LaunchFails(p) \/ SessionEnds(p)
  PROVE  SessionsKnown'
<1>0. mem' = [mem EXCEPT ![p] = mem[p]] /\ p # None
  BY NamesDiffer DEF LimitsInv, Shape, RetireRefused, LaunchResume, LaunchFails, SessionEnds
<1>1. UNCHANGED <<ledger, queue>>
  BY DEF RetireRefused, LaunchResume, LaunchFails, SessionEnds, data
<1>2. Settled
  <2>1. CASE LaunchResume(p)
    <3>1. PICK r : Newest(OpenIn(r)) # 0 /\ sessions' = Becomes(Newest(OpenIn(r)), "open", p)
      BY <2>1 DEF LaunchResume
    <3>2. QED
      BY <3>1, BecomesSettles, NewestIsOpen DEF Held
  <2>2. CASE RetireRefused(p) \/ LaunchFails(p)
    BY <2>2, SameSettles DEF RetireRefused, LaunchFails, data
  <2>3. CASE SessionEnds(p)
    BY <1>0, <2>3, EndsSettles DEF SessionEnds
  <2>4. QED
    BY <2>1, <2>2, <2>3
<1>3. CASE RetireRefused(p)
  <2>1. pc' = [pc EXCEPT ![p] = "choose"] /\ mem[p].revs \in [Tasks -> Revs]
    BY <1>3 DEF RetireRefused, GoTo, At, SessionsKnown, Knows
  <2>2. QED
    BY <1>0, <1>1, <1>2, <2>1, GoesOnKnown
<1>4. CASE LaunchResume(p) \/ LaunchFails(p) \/ SessionEnds(p)
  <2>1. PICK l \in {"session", "report"} : pc' = [pc EXCEPT ![p] = l]
    BY <1>4 DEF LaunchResume, LaunchFails, SessionEnds, GoTo
  <2>2. pc[p] \in {"launch", "session"}
    BY <1>4 DEF LaunchResume, LaunchFails, SessionEnds, At
  <2>3. Carries(p)
    BY <1>0, <2>1, <2>2, OthersCarry DEF Carries, Working, Inside, Decided, Launched, LimitsInv
  <2>4. QED
    BY <1>0, <1>1, <1>2, <2>1, <2>3, GoesOnKnown
<1>5. QED
  BY <1>3, <1>4

LEMMA OthersIdle ==
  ASSUME LimitsInv, SessionsKnown, NEW p \in Procs, pc[p] \in Inside, NEW l, NEW m,
         pc' = [pc EXCEPT ![p] = l], mem' = [mem EXCEPT ![p] = m]
  PROVE  pc'[p] = l /\ mem'[p] = m /\ \A q \in Procs \ {p} : Knows(q)'
<1>1. /\ pc'[p] = l /\ mem'[p] = m
      /\ \A q \in Procs \ {p} : pc'[q] = pc[q] /\ mem'[q] = mem[q]
  BY OthersCarry DEF LimitsInv
<1>2. \A q \in Procs \ {p} : pc[q] \notin Inside
  BY DEF LimitsInv, OneInside
<1>3. QED
  BY <1>1, <1>2 DEF SessionsKnown, Knows, Working, Inside, Decided, Launched

\* A session begun finds its start recorded.
LEMMA LaunchStartKnown ==
  ASSUME SessionsInv, SessionsInv', LimitsInv, SessionsKnown, NEW p \in Procs, LaunchStart(p)
  PROVE  SessionsKnown'
<1>0. PICK t, rev : t = mem[p].task /\ rev = RevOf(p)
  OBVIOUS
<1>1. /\ pc[p] = "launch" /\ mem[p].own = 0 /\ OpenIn(RepoOf[t]) = {}
      /\ sessions' = Append(sessions, NewSession(RepoOf[t], t, p))
      /\ pc' = [pc EXCEPT ![p] = "session"] /\ UNCHANGED <<ledger, queue, mem>>
  BY <1>0 DEF LaunchStart, GoTo, At
<1>2. Knows(p) /\ Begun(p) /\ t \in Tasks /\ rev \in Revs /\ mem[p].revs \in [Tasks -> Revs]
  BY <1>0, <1>1 DEF SessionsKnown, Knows, Working, Inside, Launched, RevOf
<1>3. /\ RunsOf(ledger, t, rev) # {}
      /\ Last(t, rev).event = "started" /\ Last(t, rev).session = 0
  BY <1>0, <1>1, <1>2 DEF Begun
<1>4. World'
  BY <1>1, <1>2, <1>3, OpenedKnown DEF LimitsInv
<1>5. mem' = [mem EXCEPT ![p] = mem[p]]
  BY <1>1 DEF LimitsInv, Shape
<1>6. pc'[p] = "session" /\ mem'[p] = mem[p] /\ \A q \in Procs \ {p} : Knows(q)'
  BY <1>1, <1>5, OthersIdle DEF Inside
<1>7. Begun(p)'
  BY <1>1, <1>2, <1>6 DEF Begun, RevOf, Last
<1>8. Knows(p)'
  BY <1>0, <1>1, <1>2, <1>6, <1>7 DEF Knows, Of, Decided
<1>9. QED
  BY <1>4, <1>6, <1>8 DEF SessionsKnown

\* What a run records it still knows.
LEMMA NoteKnown ==
  ASSUME SessionsInv, SessionsInv', LimitsInv, SessionsKnown, NEW p \in Procs, Note(p)
  PROVE  SessionsKnown'
<1>0. PICK s, n : /\ s = mem[p].retired
                  /\ n = CHOOSE i \in Runs(mem[p].view, mem[p].task) : mem[p].view[i].session = s
  OBVIOUS
<1> DEFINE m == [mem[p] EXCEPT !.stale = @ \ {s}, !.retired = 0]
           e == Entry("superseded", mem[p].task, mem[p].view[n].rev, s, "superseded", 0)
           l == IF mem[p].stale = {s} THEN "begin" ELSE "retire"
           w == [m EXCEPT !.view = Append(m.view, e)]
<1>1. /\ pc[p] = "note" /\ ledger' = Append(ledger, e) /\ mem' = [mem EXCEPT ![p] = w]
      /\ pc' = [pc EXCEPT ![p] = l] /\ UNCHANGED <<sessions, queue>>
  BY <1>0 DEF Note, At, GoTo, Record
<1>2. /\ w.revs = mem[p].revs /\ w.retry = mem[p].retry /\ w.task = mem[p].task
      /\ w.own = mem[p].own
  BY DEF LimitsInv, Shape, IsMem
<1>3. e.event = "superseded" /\ l \in {"begin", "retire"}
  BY DEF Entry
<1> HIDE DEF m, e, l, w
<1>4. IsSeq(ledger)
  BY DEF LimitsInv, Shape
<1>5. /\ World'
      /\ \A t \in Tasks, rev \in Revs : ~Names(e, t, rev) =>
              (Completed(ledger, t, rev)' <=> Completed(ledger, t, rev))
  BY <1>1, <1>3, <1>4, RecordedWorld DEF SessionsKnown
<1>6. \A t, rev : /\ ~Names(e, t, rev) /\ RunsOf(ledger, t, rev)' = RunsOf(ledger, t, rev)
                  /\ RunsOf(ledger, t, rev) # {} => Last(t, rev)' = Last(t, rev)
  <2>1. \A t, rev : AddedFor(e, t, rev)
    BY <1>1, <1>4, LedgerAdded
  <2>2. QED
    BY <1>3, <2>1 DEF AddedFor, Names
<1>7. pc'[p] = l /\ mem'[p] = w /\ \A q \in Procs \ {p} : Knows(q)'
  BY <1>1, OthersIdle DEF Inside
<1>8. /\ mem[p].task \in Tasks /\ RevOf(p) \in Revs /\ mem[p].revs \in [Tasks -> Revs]
      /\ Of(mem[p].own, mem[p].task) /\ Kept(p) /\ Due(p)
  BY <1>1 DEF SessionsKnown, Knows, Working, Inside, Decided, RevOf
<1>a. ASSUME NEW x, NEW t, NEW rev, Launches(x, t, rev)' PROVE Launches(x, t, rev)
  <2>1. RunsOf(ledger, t, rev)' = RunsOf(ledger, t, rev)
    BY <1>6
  <2>2. RunsOf(ledger, t, rev) # {}
    BY <1>a, <2>1 DEF Launches
  <2>3. Last(t, rev)' = Last(t, rev)
    BY <1>6, <2>2
  <2>4. QED
    BY <1>a, <2>2, <2>3 DEF Launches
<1>b. \A d \in Tasks : Pulled(RepoOf[d])' <=> Pulled(RepoOf[d])
  BY <1>1 DEF Pulled, Ids
<1>9. Kept(p)'
  BY <1>1, <1>2, <1>7, <1>8, <1>a DEF Kept, RevOf, Sound, Open, Ids
<1>10. Due(p)'
  BY <1>1, <1>2, <1>5, <1>6, <1>7, <1>8, <1>b, TaskData DEF Due, RevOf
<1>11. Knows(p)'
  BY <1>1, <1>2, <1>3, <1>7, <1>8, <1>9, <1>10 DEF Knows, Launched, Of, Ids
<1>12. QED
  BY <1>5, <1>7, <1>11 DEF SessionsKnown

\* The start is recorded with the session it resumes; nothing of its goal is newer.
LEMMA BeginKnown ==
  ASSUME SessionsInv, SessionsInv', LimitsInv, SessionsKnown, NEW p \in Procs, Begin(p)
  PROVE  SessionsKnown'
<1>0. PICK t, rev : t = mem[p].task /\ rev = RevOf(p)
  OBVIOUS
<1> DEFINE m == [mem[p] EXCEPT !.before = KnownIn(RepoOf[t])]
           e == Entry("started", t, rev, mem[p].own, "none", Len(sessions))
           w == [m EXCEPT !.view = Append(m.view, e)]
<1>1. /\ pc[p] = "begin" /\ ledger' = Append(ledger, e) /\ mem' = [mem EXCEPT ![p] = w]
      /\ pc' = [pc EXCEPT ![p] = "launch"] /\ UNCHANGED <<sessions, queue>>
  BY <1>0 DEF Begin, At, GoTo, Record, RevOf
<1>2. /\ w.revs = mem[p].revs /\ w.task = t /\ w.own = mem[p].own
      /\ w.before = KnownIn(RepoOf[t])
  BY <1>0 DEF LimitsInv, Shape, IsMem
<1>3. /\ e.event = "started" /\ e.task = t /\ e.rev = rev /\ e.session = mem[p].own
      /\ e.since = Len(sessions)
  BY DEF Entry
<1> HIDE DEF m, e, w
<1>4. IsSeq(ledger) /\ Len(sessions) \in Nat /\ Ids = 1 .. Len(sessions)
  BY IdsAre DEF LimitsInv, Shape
<1>5. /\ t \in Tasks /\ rev \in Revs /\ mem[p].revs \in [Tasks -> Revs]
      /\ Of(mem[p].own, t) /\ Kept(p)
  BY <1>0, <1>1 DEF SessionsKnown, Knows, Working, Inside, Decided, RevOf
<1>6. World'
  <2>1. /\ Of(e.session, e.task) /\ e.since \in 0 .. Len(sessions)
        /\ e.task \in Tasks /\ e.rev \in Revs
    BY <1>3, <1>4, <1>5
  <2>2. \A s \in Ids : Sound(s) /\ sessions[s].goal = e.task /\ Launches(s, e.task, e.rev)
           => e.session = s
    BY <1>0, <1>3, <1>5 DEF Kept
  <2>3. QED
    BY <1>1, <1>4, <2>1, <2>2, RecordedWorld DEF SessionsKnown
<1>7. RunsOf(ledger, t, rev)' # {} /\ Last(t, rev)' = e
  <2>1. AddedFor(e, t, rev) /\ Names(e, t, rev)
    BY <1>1, <1>3, <1>4, LedgerAdded DEF Names
  <2>2. QED
    BY <2>1 DEF AddedFor
<1>8. pc'[p] = "launch" /\ mem'[p] = w /\ \A q \in Procs \ {p} : Knows(q)'
  BY <1>1, OthersIdle DEF Inside
<1>9. Begun(p)'
  <2>1. mem'[p].task = t /\ RevOf(p)' = rev
    BY <1>0, <1>2, <1>8 DEF RevOf
  <2>2. \A s \in Ids : s <= Len(sessions)
    BY <1>4
  <2>3. \A s \in KnownIn(RepoOf[t]) : s <= Len(sessions)
    BY <2>2 DEF KnownIn
  <2>4. QED
    BY <1>1, <1>2, <1>3, <1>7, <1>8, <2>1, <2>2, <2>3 DEF Begun, Ids
<1>10. Knows(p)'
  BY <1>1, <1>2, <1>5, <1>8, <1>9 DEF Knows, Decided, Of, Ids
<1>11. QED
  BY <1>6, <1>8, <1>10 DEF SessionsKnown

\* The session reported is the one resumed, or the one that was launched.
LEMMA ReportKnown ==
  ASSUME SessionsInv, SessionsInv', LimitsInv, SessionsKnown, NEW p \in Procs, Report(p)
  PROVE  SessionsKnown'
<1>0. PICK t, rev : t = mem[p].task /\ rev = RevOf(p)
  OBVIOUS
<1>a. PICK s : s = IF mem[p].own # 0 THEN (IF Exists(mem[p].own) THEN mem[p].own ELSE 0)
                   ELSE Newest(KnownIn(RepoOf[t]) \ mem[p].before)
  OBVIOUS
<1> DEFINE m == [mem[p] EXCEPT !.task = 0, !.own = 0, !.before = {}]
           e == Entry("finished", t, rev, s, IF s = 0 THEN "failed" ELSE sessions[s].st, 0)
           w == [m EXCEPT !.view = Append(m.view, e)]
<1>1. /\ pc[p] = "report" /\ ledger' = Append(ledger, e) /\ mem' = [mem EXCEPT ![p] = w]
      /\ pc' = [pc EXCEPT ![p] = "choose"] /\ UNCHANGED <<sessions, queue>>
  BY <1>0, <1>a DEF Report, At, GoTo, Record, RevOf
<1>2. w.revs = mem[p].revs
  BY DEF LimitsInv, Shape, IsMem
<1>3. e.event = "finished" /\ e.task = t /\ e.rev = rev /\ e.session = s /\ e.since = 0
  BY DEF Entry
<1> HIDE DEF m, e, w
<1>4. IsSeq(ledger) /\ Len(sessions) \in Nat /\ Ids = 1 .. Len(sessions)
  BY IdsAre DEF LimitsInv, Shape
<1>5. /\ t \in Tasks /\ rev \in Revs /\ mem[p].revs \in [Tasks -> Revs]
      /\ Of(mem[p].own, t) /\ Begun(p)
  BY <1>0, <1>1 DEF SessionsKnown, Knows, Working, Inside, Launched, RevOf
<1>6. /\ RunsOf(ledger, t, rev) # {} /\ Last(t, rev).event = "started"
      /\ Last(t, rev).session = mem[p].own
      /\ \A x \in mem[p].before : x <= Last(t, rev).since
  BY <1>0, <1>5 DEF Begun
<1>b. \/ KnownIn(RepoOf[t]) \ mem[p].before = {} /\ Newest(KnownIn(RepoOf[t]) \ mem[p].before) = 0
      \/ /\ Newest(KnownIn(RepoOf[t]) \ mem[p].before) \in KnownIn(RepoOf[t]) \ mem[p].before
         /\ \A y \in KnownIn(RepoOf[t]) \ mem[p].before :
               y <= Newest(KnownIn(RepoOf[t]) \ mem[p].before)
  <2>1. KnownIn(RepoOf[t]) \ mem[p].before \subseteq 1 .. Len(sessions)
    BY <1>4 DEF KnownIn
  <2>2. QED
    BY <1>4, <2>1, NewestIs
<1>7. Of(s, t)
  BY <1>5, <1>a, <1>b DEF Of, KnownIn
<1>8. ASSUME NEW x \in Ids, Sound(x), sessions[x].goal = t, Launches(x, t, rev) PROVE s = x
  <2>1. mem[p].own = 0 /\ x \in Nat
    BY <1>4, <1>6, <1>8 DEF Launches
  <2>2. Last(t, rev).since \in Nat
    <3>1. Reading
      BY <1>4, Reads DEF SessionsKnown, World
    <3>2. QED
      BY <1>4, <1>5, <1>6, <3>1 DEF Reading
  <2>3. x \notin mem[p].before
    BY <1>6, <1>8, <2>1, <2>2 DEF Launches
  <2>4. x \in KnownIn(RepoOf[t]) \ mem[p].before
    BY <1>5, <1>8, <2>3, NamesDiffer
       DEF KnownIn, Exists, Sound, Open, SessionsKnown, World, GoalsInv
  <2>5. s \in KnownIn(RepoOf[t]) /\ x <= s
    BY <1>a, <1>b, <2>1, <2>4
  <2>6. s <= x
    BY <1>8, <2>4, <2>5 DEF SessionsKnown, World, NewestInv, KnownIn
  <2>7. QED
    BY <1>4, <2>1, <2>5, <2>6 DEF KnownIn
<1>9. World'
  BY <1>1, <1>3, <1>4, <1>5, <1>7, <1>8, RecordedWorld DEF SessionsKnown
<1>10. pc'[p] = "choose" /\ mem'[p] = w /\ \A q \in Procs \ {p} : Knows(q)'
  BY <1>1, OthersIdle DEF Inside
<1>11. Knows(p)'
  BY <1>2, <1>5, <1>10 DEF Knows, Working, Inside, Decided, Launched
<1>12. QED
  BY <1>9, <1>10, <1>11 DEF SessionsKnown

LEMMA InitKnown == Init => SessionsKnown
<1>1. SUFFICES ASSUME Init PROVE SessionsKnown
  OBVIOUS
<1>2. ledger = <<>> /\ sessions = <<>> /\ Ids = {} /\ DOMAIN ledger = {}
  BY <1>1 DEF Init, Ids
<1>3. queue \in [Tasks -> Revs]
  BY <1>1, LeastIsOf, RevsAreNumbered DEF Init
<1>4. World
  BY <1>2, <1>3 DEF World, NewestInv, GoalsInv, LedgerInv, AnsweredInv
<1>5. \A q \in Procs : Knows(q)
  BY <1>1 DEF Init, Knows, Working, Inside, Decided, Launched
<1>6. QED
  BY <1>4, <1>5 DEF SessionsKnown

LEMMA KnownStep ==
  Mission => (SessionsInv /\ SessionsInv' /\ LimitsInv /\ SessionsKnown /\ [Next]_vars
              => SessionsKnown')
<1>1. SUFFICES ASSUME Mission, SessionsInv, SessionsInv', LimitsInv, SessionsKnown, [Next]_vars
      PROVE SessionsKnown'
  OBVIOUS
<1>2. CASE UNCHANGED vars
  <2>1. World' /\ (\A q \in Procs : Carries(q) => Knows(q)') /\ (\A q \in Procs : Carries(q))
    BY <1>1, <1>2, SettledKnown, SameSettles DEF vars, LimitsInv, SessionsKnown, World, Carries
  <2>2. QED
    BY <2>1 DEF SessionsKnown
<1>3. ASSUME NEW p \in Procs, Run(p) PROVE SessionsKnown'
  <2>1. CASE Refused(p) \/ Contradicted(p) \/ Finish(p)
    BY <1>1, <2>1, LeaveKnown, SameSettles DEF Refused, Contradicted, Finish, data
  <2>2. CASE Crash(p)
    BY <1>1, <2>2, LeaveKnown, CrashSettles DEF Crash
  <2>3. QED
    BY <1>1, <1>3, <2>1, <2>2, OpenKnown, EnterKnown, ChooseKnown, WithholdKnown, RetireKnown,
       NoteKnown, BeginKnown, LaunchStartKnown, LaunchKnown, ReportKnown DEF Run
<1>4. QED
  BY <1>1, <1>2, <1>3, PeopleKnown DEF Next

LEMMA KnownInvariant ==
  ASSUME Mission PROVE Spec => [](SessionsInv /\ LimitsInv /\ SessionsKnown)
<1>1. SessionsInv /\ LimitsInv /\ SessionsKnown /\ [Next]_vars
        => (SessionsInv /\ LimitsInv /\ SessionsKnown)'
  BY SessionsStep, LimitsStep, KnownStep
<1>2. QED
  BY <1>1, InitSessions, InitLimits, InitKnown, PTL DEF Spec

(***************************************************************************)
(* The hypothesis of the next two theorems is that the queue is bound to a *)
(* mission: its controller reads the ledger under its lock, so a run knows *)
(* all of it.  Without one, a run may work from a ledger read before.      *)
(***************************************************************************)
\* However a run ends, dies or is followed by another, a session it started that can still be
\* resumed is found again through the ledger (Ledger.outcome, _launch, _dispatch), unless it
\* was discarded while it ran.
THEOREM NoSessionIsLostCorrect == ASSUME Mission PROVE Spec => []NoSessionIsLost
<1>1. SessionsInv /\ LimitsInv /\ SessionsKnown => NoSessionIsLost
  <2> SUFFICES ASSUME SessionsInv, LimitsInv, SessionsKnown, NEW s \in Ids, Sound(s),
                      sessions[s].goal # None
      PROVE  \E rev \in Revs : \/ s = Own(ledger, sessions[s].goal, rev)
                               \/ s \in {ledger[n].session : n \in RunsOf(ledger, sessions[s].goal, rev)}
    BY DEF NoSessionIsLost, Sound
  <2>1. PICK rev \in Revs : \/ Launches(s, sessions[s].goal, rev)
                            \/ Recorded(s, sessions[s].goal, rev)
    BY DEF SessionsKnown, World, AnsweredInv, Answered
  <2>2. CASE Recorded(s, sessions[s].goal, rev)
    BY <2>2 DEF Recorded
  <2>3. CASE Launches(s, sessions[s].goal, rev)
    <3>1. Reading /\ sessions[s].goal \in Tasks
      BY Reads DEF LimitsInv, Shape, SessionsKnown, World, GoalsInv
    <3>2. s = Own(ledger, sessions[s].goal, rev)
      BY <2>3, <3>1, LaunchedIsOwn DEF SessionsKnown
    <3>3. QED
      BY <3>2
  <2>4. QED
    BY <2>1, <2>2, <2>3
<1>2. QED
  BY <1>1, KnownInvariant, PTL

\* What is started is due by the ledger and the sessions of that moment (_dispatch): nothing
\* that happens between the decision and the start, retirements included, undoes it, but the
\* return of a session that was discarded while somebody ran it.
THEOREM StartsAreDueCorrect == ASSUME Mission PROVE Spec => StartsAreDue
<1>1. SessionsInv /\ LimitsInv /\ SessionsKnown /\ [Next]_vars =>
        [\A p \in Procs : LET t == mem[p].task IN
          Begins(p) =>
             /\ t \in mem[p].retry \/ RunsOf(ledger, t, mem[p].revs[t]) = {}
             /\ \A d \in DependsOn[t] :
                   \/ Completed(ledger, d, mem[p].revs[d])
                   \/ \E s \in Ids : sessions[s].pulled /\ sessions[s].repo = RepoOf[d]]_vars
  BY DEF SessionsKnown, Knows, Due, Pulled, RevOf, Begins, At, Decided
<1>2. QED
  BY <1>1, KnownInvariant, PTL DEF Spec, StartsAreDue
=============================================================================
