------------------------------ MODULE FileLock ------------------------------
(***************************************************************************)
(* The file lock of control_plane/locking.py: RepoLock, TaskLock,          *)
(* LocalInferenceLock and SupervisorLock are all _BaseFileLock over one    *)
(* path.  A lock object belongs to a process; a process keeps a registry   *)
(* of the lineage that holds the path in it.  acquire() looks at the file  *)
(* in several separate system calls, each an action here: exists(), the    *)
(* read, the classification of the owner, unlink(), link(), and the        *)
(* registration of the new lineage.  release() likewise.                   *)
(***************************************************************************)
EXTENDS Integers, FiniteSets

CONSTANTS
    Proc,        \* process identifiers (PIDs), over every host
    Obj,         \* lock objects on this one path
    ProcOf,      \* the process a lock object lives in
    HostOf,      \* the host a PID runs on
    UserOf,      \* the account a PID runs under
    Token,       \* lineage identifiers (uuid4 in the code)
    NoToken,     \* no lineage
    Host,        \* hosts
    HumanHost,   \* where `howlplane unlock` is typed
    NoFile,      \* the lock path does not exist
    Garbage,     \* the lock path holds something that does not parse
    InitFile,    \* what the path may hold before anything runs
    MayCrash,    \* bound: the processes that may end while they use the lock
    MaxBirth     \* bound: how often the OS hands out the same PID again

ASSUME FileLockAssumption ==
    /\ IsFiniteSet(Obj)
    /\ ProcOf \in [Obj -> Proc]
    /\ HostOf \in [Proc -> Host]
    /\ HumanHost \in Host
    /\ NoToken \notin Token
    /\ MayCrash \subseteq Proc
    /\ MaxBirth \in Nat

Meta == [pid: Proc, born: 0..MaxBirth]      \* LockMetadata: pid, process_create_time

ASSUME ContentAssumption ==
    /\ NoFile \notin Meta /\ Garbage \notin Meta /\ NoFile # Garbage
    /\ InitFile \subseteq {NoFile, Garbage}

VARIABLES
    file,      \* content of the lock path
    alive,     \* PIDs in use
    born,      \* create time of the process that uses, or last used, a PID
    registry,  \* _OWNERSHIP_REGISTRY of each process, for this path
    depth,     \* LockOwnership.depth of each lineage
    token,     \* _ownership of each lock object
    pc,        \* how far each object is through acquire() or release()
    seen,      \* the metadata an object has read and not yet classified
    human      \* a `howlplane unlock`: "idle", or about to unlink

vars == <<file, alive, born, registry, depth, token, pc, seen, human>>

Acquiring == {"exists", "load", "classify", "unlink", "link", "register"}
Releasing == {"rel_exists", "rel_load", "rel_unlink"}

TypeOK ==
    /\ file \in Meta \cup {NoFile, Garbage}
    /\ alive \in [Proc -> BOOLEAN]
    /\ born \in [Proc -> 0..MaxBirth]
    /\ registry \in [Proc -> Token \cup {NoToken}]
    /\ depth \in [Token -> Int]
    /\ token \in [Obj -> Token \cup {NoToken}]
    /\ pc \in [Obj -> {"idle", "held"} \cup Acquiring \cup Releasing]
    /\ seen \in [Obj -> Meta \cup {NoFile}]
    /\ human \in {"idle", "unlink"}

\* A path that never existed, or one that something else left unreadable.
Init ==
    /\ file \in InitFile
    /\ alive = [p \in Proc |-> TRUE]
    /\ born = [p \in Proc |-> 0]
    /\ registry = [p \in Proc |-> NoToken]
    /\ depth = [t \in Token |-> 0]
    /\ token = [o \in Obj |-> NoToken]
    /\ pc = [o \in Obj |-> "idle"]
    /\ seen = [o \in Obj |-> NoFile]
    /\ human = "idle"

-----------------------------------------------------------------------------
Self(o) == [pid |-> ProcOf[o], born |-> born[ProcOf[o]]]

\* The process a lock file names has ended: its PID is free or was reused.
Dead(m) == ~alive[m.pid] \/ born[m.pid] # m.born

\* Mutant of Classify: another host's lock counts as provably dead.
ClassifyForeignAsStale(m, h, u) ==
    IF HostOf[m.pid] # h \/ ~alive[m.pid] THEN {"STALE"} ELSE {"ACTIVE"}

(***************************************************************************)
(* classify_lock_owner, seen from host h and account u (a set: the create  *)
(* times of a reused PID differ by more than the ten seconds of tolerance, *)
(* or do not).                                                             *)
(***************************************************************************)
Classify(m, h, u) ==
    IF HostOf[m.pid] # h THEN {"AMBIGUOUS"}
    ELSE IF ~alive[m.pid] THEN {"STALE"}
    ELSE IF UserOf[m.pid] # u THEN {"AMBIGUOUS"}
    ELSE IF Dead(m) THEN {"STALE", "ACTIVE"}
    ELSE {"ACTIVE"}

ClassifyFor(o, m) == Classify(m, HostOf[ProcOf[o]], UserOf[ProcOf[o]])

Goto(o, where) == pc' = [pc EXCEPT ![o] = where]

\* The lineages an object can be handed: those its process still uses.  A token
\* of a lineage that ended matches nothing, like no token at all.
Handed(o) == {NoToken} \cup {token[q] : q \in {x \in Obj : ProcOf[x] = ProcOf[o]}}

Fresh == {t \in Token : (\A o \in Obj : token[o] # t) /\ (\A p \in Proc : registry[p] # t)}

-----------------------------------------------------------------------------
(* acquire() *)

\* Under _OWNERSHIP_GUARD: a lineage of this process holds the path, and the
\* caller was handed its token.
Join(o, t) ==
    /\ alive[ProcOf[o]] /\ pc[o] = "idle"
    /\ t \in Handed(o) \ {NoToken}
    /\ registry[ProcOf[o]] = t
    /\ depth' = [depth EXCEPT ![t] = @ + 1]
    /\ token' = [token EXCEPT ![o] = t]
    /\ Goto(o, "held")
    /\ UNCHANGED <<file, alive, born, registry, seen, human>>

\* Under _OWNERSHIP_GUARD: no lineage of this process holds the path.
Begin(o) ==
    /\ alive[ProcOf[o]] /\ pc[o] = "idle"
    /\ registry[ProcOf[o]] = NoToken
    /\ Goto(o, "exists")
    /\ UNCHANGED <<file, alive, born, registry, depth, token, seen, human>>

Exists(o) ==
    /\ pc[o] = "exists"
    /\ Goto(o, IF file = NoFile THEN "link" ELSE "load")
    /\ UNCHANGED <<file, alive, born, registry, depth, token, seen, human>>

\* safe_load_json; a path that vanished meanwhile fails to load exactly like an
\* unreadable one, and both go on to unlink().
Load(o) ==
    /\ pc[o] = "load"
    /\ IF file \in Meta
       THEN seen' = [seen EXCEPT ![o] = file] /\ Goto(o, "classify")
       ELSE seen' = seen /\ Goto(o, "unlink")
    /\ UNCHANGED <<file, alive, born, registry, depth, token, human>>

\* The caller's own PID is refused before any classification.
ClassifyOwner(o) ==
    /\ pc[o] = "classify"
    /\ IF seen[o].pid = ProcOf[o]
       THEN Goto(o, "idle")
       ELSE \E s \in ClassifyFor(o, seen[o]) :
                Goto(o, IF s = "STALE" THEN "unlink" ELSE "idle")
    /\ seen' = [seen EXCEPT ![o] = NoFile]
    /\ UNCHANGED <<file, alive, born, registry, depth, token, human>>

\* unlink() by path; an error is swallowed.
Unlink(o) ==
    /\ pc[o] = "unlink"
    /\ file' = NoFile
    /\ Goto(o, "link")
    /\ UNCHANGED <<alive, born, registry, depth, token, seen, human>>

\* os.link of the complete temporary file: fails when the path exists.
Link(o) ==
    /\ pc[o] = "link"
    /\ IF file = NoFile
       THEN file' = Self(o) /\ Goto(o, "register")
       ELSE file' = file /\ Goto(o, "idle")
    /\ UNCHANGED <<alive, born, registry, depth, token, seen, human>>

Register(o) ==
    /\ pc[o] = "register"
    /\ \E t \in Fresh :
          /\ token' = [token EXCEPT ![o] = t]
          /\ depth' = [depth EXCEPT ![t] = 1]
          /\ registry' = [registry EXCEPT ![ProcOf[o]] = t]
    /\ Goto(o, "held")
    /\ UNCHANGED <<file, alive, born, seen, human>>

-----------------------------------------------------------------------------
(* release() *)

\* Under _OWNERSHIP_GUARD: another holder of the lineage is still working.
Leave(o) ==
    /\ pc[o] = "held"
    /\ depth[token[o]] > 1
    /\ depth' = [depth EXCEPT ![token[o]] = @ - 1]
    /\ token' = [token EXCEPT ![o] = NoToken]
    /\ Goto(o, "idle")
    /\ UNCHANGED <<file, alive, born, registry, seen, human>>

\* Under _OWNERSHIP_GUARD: the last holder drops the registry entry.
LastOut(o) ==
    /\ pc[o] = "held"
    /\ depth[token[o]] <= 1
    /\ depth' = [depth EXCEPT ![token[o]] = @ - 1]
    /\ token' = [token EXCEPT ![o] = NoToken]
    /\ registry' = [registry EXCEPT ![ProcOf[o]] = NoToken]
    /\ Goto(o, "rel_exists")
    /\ UNCHANGED <<file, alive, born, seen, human>>

ReleaseExists(o) ==
    /\ pc[o] = "rel_exists"
    /\ Goto(o, IF file = NoFile THEN "idle" ELSE "rel_load")
    /\ UNCHANGED <<file, alive, born, registry, depth, token, seen, human>>

\* A file of this PID, or one that does not load, is removed.
ReleaseLoad(o) ==
    /\ pc[o] = "rel_load"
    /\ Goto(o, IF file \in Meta /\ file.pid # ProcOf[o] THEN "idle" ELSE "rel_unlink")
    /\ UNCHANGED <<file, alive, born, registry, depth, token, seen, human>>

ReleaseUnlink(o) ==
    /\ pc[o] = "rel_unlink"
    /\ file' = NoFile
    /\ Goto(o, "idle")
    /\ UNCHANGED <<alive, born, registry, depth, token, seen, human>>

-----------------------------------------------------------------------------
(* reclaim_lock: `howlplane unlock`, typed by a person *)

\* Fails closed on a missing or unreadable file and on an ACTIVE owner.
ReclaimRead ==
    /\ human = "idle"
    /\ file \in Meta
    /\ \E u \in {UserOf[p] : p \in Proc}, s \in {"STALE", "AMBIGUOUS"} :
          s \in Classify(file, HumanHost, u)
    /\ human' = "unlink"
    /\ UNCHANGED <<file, alive, born, registry, depth, token, pc, seen>>

ReclaimUnlink ==
    /\ human = "unlink"
    /\ file' = NoFile
    /\ human' = "idle"
    /\ UNCHANGED <<alive, born, registry, depth, token, pc, seen>>

-----------------------------------------------------------------------------
(* Processes end at any point, and the operating system reuses PIDs. *)

Crash(p) ==
    /\ p \in MayCrash /\ alive[p]
    /\ alive' = [alive EXCEPT ![p] = FALSE]
    /\ registry' = [registry EXCEPT ![p] = NoToken]
    /\ token' = [o \in Obj |-> IF ProcOf[o] = p THEN NoToken ELSE token[o]]
    /\ pc' = [o \in Obj |-> IF ProcOf[o] = p THEN "idle" ELSE pc[o]]
    /\ seen' = [o \in Obj |-> IF ProcOf[o] = p THEN NoFile ELSE seen[o]]
    /\ depth' = [t \in Token |-> IF \E o \in Obj : ProcOf[o] = p /\ token[o] = t
                                  THEN 0 ELSE depth[t]]
    /\ UNCHANGED <<file, born, human>>

Recycle(p) ==
    /\ ~alive[p] /\ born[p] < MaxBirth
    /\ alive' = [alive EXCEPT ![p] = TRUE]
    /\ born' = [born EXCEPT ![p] = @ + 1]
    /\ UNCHANGED <<file, registry, depth, token, pc, seen, human>>

-----------------------------------------------------------------------------
Step(o) ==
    \/ \E t \in Handed(o) : Join(o, t)
    \/ Exists(o)
    \/ Load(o)
    \/ ClassifyOwner(o)
    \/ Unlink(o)
    \/ Link(o)
    \/ Register(o)
    \/ Leave(o)
    \/ LastOut(o)
    \/ ReleaseExists(o)
    \/ ReleaseLoad(o)
    \/ ReleaseUnlink(o)

Next ==
    \/ \E o \in Obj : Begin(o) \/ Step(o)
    \/ ReclaimRead
    \/ ReclaimUnlink
    \/ \E p \in Proc : Crash(p) \/ Recycle(p)

Spec == Init /\ [][Next]_vars

(***************************************************************************)
(* The same system used with care: no two acquisitions or reclamations of  *)
(* the path overlap, and a person reclaims only what the refusal tells     *)
(* them to ("If that run is definitely gone").  Releases, crashes, PID     *)
(* reuse and re-entry still happen at every point.                         *)
(***************************************************************************)
Quiet == human = "idle" /\ \A o \in Obj : pc[o] \notin Acquiring

CarefulNext ==
    \/ \E o \in Obj : (Quiet /\ Begin(o)) \/ Step(o)
    \/ Quiet /\ file \in Meta /\ Dead(file) /\ ReclaimRead
    \/ ReclaimUnlink
    \/ \E p \in Proc : Crash(p) \/ Recycle(p)

CarefulSpec == Init /\ [][CarefulNext]_vars

-----------------------------------------------------------------------------
\* RepoLock: "Ensures only one mutating task modifies a working tree at a time".
\* Two objects that have both acquired the path belong to one lineage.
MutualExclusion ==
    \A a, b \in Obj : pc[a] = "held" /\ pc[b] = "held" => token[a] = token[b]

\* Whoever holds the lock has its own live process's metadata on disk, where
\* every other process looks for it, for as long as it holds the lock.
HolderOwnsFile ==
    \A o \in Obj : pc[o] = "held" => alive[ProcOf[o]] /\ file = Self(o)

Holders(t) == {o \in Obj : token[o] = t}

\* The depth of a lineage is the number of objects that still have to release
\* it, however acquisitions race: release() unlinks for the last one only.
DepthCountsHolders ==
    \A t \in Token : Holders(t) # {} => depth[t] = Cardinality(Holders(t))

\* The registry of a process names a lineage exactly while some object of that
\* process holds the path under it.
RegistryNamesHolders ==
    \A p \in Proc :
        /\ registry[p] # NoToken => \E o \in Obj : ProcOf[o] = p /\ token[o] = registry[p]
        /\ \A o \in Obj : ProcOf[o] = p /\ pc[o] = "held" => token[o] = registry[p]

\* A lock file that names a running process is never left behind: some object
\* of that process holds it, is about to, or is still releasing it.  (An orphan
\* would be ACTIVE to everyone, and block the path until that process ends.)
NoOrphan ==
    file \in Meta /\ ~Dead(file) =>
        \E o \in Obj : /\ ProcOf[o] = file.pid
                      /\ pc[o] \in {"register", "held"} \cup Releasing

-----------------------------------------------------------------------------
(***************************************************************************)
(* Inductive strengthenings, used by SchedulingProofs.                     *)
(***************************************************************************)

\* The objects whose process has published the file and not yet removed it.
InPossession == {"register", "held"} \cup Releasing

HeldHasToken == \A o \in Obj : (pc[o] = "held") <=> (token[o] # NoToken)

LineageInProcess ==
    \A a, b \in Obj : token[a] # NoToken /\ token[a] = token[b] => ProcOf[a] = ProcOf[b]

\* Create times lie in the past, so a dead owner stays dead.
BirthsPast ==
    /\ file \in Meta => file.born <= born[file.pid]
    /\ \A o \in Obj : seen[o] \in Meta => seen[o].born <= born[seen[o].pid]

OnlyLiveActs == \A o \in Obj : pc[o] # "idle" => alive[ProcOf[o]]

\* Inductive whatever races: what RacingInv promises holds under Spec.
RacingInv ==
    /\ TypeOK
    /\ HeldHasToken
    /\ LineageInProcess
    /\ BirthsPast
    /\ OnlyLiveActs
    /\ DepthCountsHolders
    /\ NoOrphan

\* At most one acquisition or reclamation is under way.
OneAcquirer ==
    /\ \A a, b \in Obj : pc[a] \in Acquiring /\ pc[b] \in Acquiring => a = b
    /\ human = "unlink" => \A o \in Obj : pc[o] \notin Acquiring

\* Whoever is about to unlink unlinks nothing that anybody still needs.
UnlinkIsSafe ==
    /\ \A o \in Obj : pc[o] = "unlink" /\ file \in Meta => Dead(file)
    /\ human = "unlink" /\ file \in Meta => Dead(file)
    /\ \A o \in Obj : pc[o] = "classify" => seen[o] \in Meta /\ file \in {seen[o], NoFile}

PossessorOwnsFile == \A o \in Obj : pc[o] \in InPossession => file = Self(o)

\* An object that registers or releases is alone in possession.
Alone ==
    \A a, b \in Obj : pc[a] \in {"register"} \cup Releasing /\ pc[b] \in InPossession => a = b

CarefulInv ==
    /\ RacingInv
    /\ OneAcquirer
    /\ UnlinkIsSafe
    /\ PossessorOwnsFile
    /\ RegistryNamesHolders
    /\ Alone

=============================================================================
