---------------------------- MODULE AgentProofs -----------------------------
(***************************************************************************)
(* The agents a task is given to: what an attempt of one leaves behind     *)
(* (module Attempt), whether one may be asked at all (module               *)
(* WorkerReadiness), and which one is (module ProviderPool).               *)
(***************************************************************************)
EXTENDS Attempt, WorkerReadiness, ProviderPool, FiniteSetTheorems, SequenceTheorems, WellFoundedInduction,
        TLAPS

-----------------------------------------------------------------------------
(***************************************************************************)
(* No provider process outlives its call, a rollback that reports success  *)
(* is exact, and every step of the attempts is a step of module            *)
(* AttemptLoop, for any files, providers and bounds.                       *)
(***************************************************************************)

(***************************************************************************)
(* What the person may have left.                                          *)
(***************************************************************************)
Known(t, p) == t[p].head # Missing /\ t[p].index # Missing /\ t[p].work # Missing
Unknown(t, p) == t[p].head = Missing /\ t[p].index = Missing
\* Every file is committed and still there, edited or not, or git does not know it; and no
\* directory of the checkout holds only files git does not know.
Ordinary(t) == \A p \in Project: \/ Known(t, p)
                                 \/ Unknown(t, p) /\ (t[p].work = Missing \/ Named(t, p) = p)

\* What git knew at the start it knows now: providers stage and commit, and unstage nothing.
StillKnown(t, s) == \A p \in Project: s[p].index # Missing => t[p].index # Missing

\* A file of the person's that git knew is not taken for a new one.
SparesEdited(delta, s) == \A p \in Modified(s): p \notin delta.added /\ Folder[p] \notin delta.added

(***************************************************************************)
(* Trees.                                                                  *)
(***************************************************************************)
\* A tree's files are files.
LEMMA FileOfTree ==
  ASSUME NEW t \in Trees, NEW p \in Paths
  PROVE  t[p] \in File /\ {t[p].head, t[p].index, t[p].work} \subseteq Contents \cup {Missing}
BY DEF Trees, File

\* A file lies in the project only if it is a path.
LEMMA ProjectPaths == Project \subseteq Paths
BY DEF Project

\* Where git knows every committed file and no directory is wholly unknown, the names git gives
\* to unknown files are those files (_parse_porcelain_lines).
LEMMA OrdinaryUntracked ==
  ASSUME NEW s \in Trees, Ordinary(s)
  PROVE  Untracked(s) = {p \in Project: s[p].index = Missing /\ s[p].work # Missing}
<1> DEFINE L == {p \in Project: s[p].index = Missing /\ s[p].work # Missing}
<1>1. \A p \in L: Named(s, p) = p
  BY DEF Ordinary, Known, Unknown
<1>2. Untracked(s) = {Named(s, p): p \in L}
  BY DEF Untracked
<1> QED BY <1>1, <1>2

\* The baseline, field by field.
LEMMA BaselineOf ==
  ASSUME NEW s, NEW b, b = Capture(s)
  PROVE  /\ b.head = Heads(s) /\ b.modified = Modified(s) /\ b.untracked = Untracked(s)
         /\ b.snapshots = Snapshots(s, Modified(s) \cup Untracked(s))
BY DEF Capture

\* A file with a snapshot is put back to the bytes of the snapshot (_restore_pre_existing_files).
LEMMA SnapshotOf ==
  ASSUME NEW s \in Trees, NEW b, b = Capture(s), NEW p \in Modified(s) \cup Untracked(s),
         p \in Paths \ Large, s[p].work # Missing
  PROVE  p \in PutBack(b) /\ Bytes(b, p) = s[p].work
<1> DEFINE names == Modified(s) \cup Untracked(s)
           N == {q \in names: q \in Paths /\ Readable(s, q)}
           one == [path |-> p, bytes |-> s[p].work]
<1>1. b.snapshots = {[path |-> q, bytes |-> s[q].work]: q \in N}
  BY BaselineOf DEF Snapshots
<1>2. p \in N
  BY DEF Readable
<1> HIDE DEF names, N
<1>3. one \in b.snapshots
  BY <1>1, <1>2
<1>4. p \in PutBack(b)
  BY <1>3 DEF PutBack
<1>5. \A e \in b.snapshots: e.path = p => e.bytes = s[p].work
  BY <1>1
<1>6. \E e \in b.snapshots: e.path = p
  BY <1>3
<1> QED BY <1>4, <1>5, <1>6 DEF Bytes

(***************************************************************************)
(* What a rollback leaves (restore_repository_to_baseline).                *)
(***************************************************************************)
\* It is a tree with the same heads and index.
LEMMA RestoreIsATree ==
  ASSUME NEW t \in Trees, NEW s \in Trees, NEW b, b = Capture(s), Ordinary(s),
         NEW delta, NEW back \in Restore(t, b, delta)
  PROVE  /\ back.tree \in Trees
         /\ \A p \in Paths: back.tree[p].index = t[p].index /\ back.tree[p].head = t[p].head
<1> DEFINE W == [p \in Paths |-> Rewritten(t, b, delta, p)]
           u == [p \in Paths |-> [t[p] EXCEPT !.work = W[p]]]
<1>1. CASE HeadDrifted(t, b)
  BY <1>1 DEF Restore
<1>2. CASE ~HeadDrifted(t, b)
  <2>1. PICK after \in Restored(t, b, delta): back = [tree |-> after, ok |-> Residual(after, b) = {}]
    BY <1>2 DEF Restore
  <2>2. after = [p \in Paths |-> [t[p] EXCEPT !.work = Rewritten(t, b, delta, p)]]
    BY <2>1 DEF Restored
  <2>3. after = u
    BY <2>2
  <2>4. W \in [Paths -> Contents \cup {Missing}]
    <3> SUFFICES ASSUME NEW p \in Paths PROVE Rewritten(t, b, delta, p) \in Contents \cup {Missing}
      OBVIOUS
    <3>1. p \in PutBack(b) => Bytes(b, p) \in Contents \cup {Missing}
      <4> DEFINE names == Modified(s) \cup Untracked(s)
                 N == {q \in names: q \in Paths /\ Readable(s, q)}
      <4>1. b.snapshots = {[path |-> q, bytes |-> s[q].work]: q \in N}
        BY BaselineOf DEF Snapshots
      <4>2. \A q \in N: q \in Paths /\ s[q].work \in Contents \cup {Missing}
        BY FileOfTree
      <4> HIDE DEF N
      <4>3. \A e \in b.snapshots: e.bytes \in Contents \cup {Missing}
        BY <4>1, <4>2
      <4>4. p \in PutBack(b) => \E e \in b.snapshots: e.path = p
        BY DEF PutBack
      <4> QED BY <4>3, <4>4 DEF Bytes
    <3> QED BY <3>1, FileOfTree DEF Rewritten
  <2> HIDE DEF W
  <2>5. u = [p \in Paths |-> [t[p] EXCEPT !.work = W[p]]]
    OBVIOUS
  <2> HIDE DEF u
  <2>6. u \in Trees /\ \A p \in Paths: u[p].index = t[p].index /\ u[p].head = t[p].head
    BY <2>4, <2>5 DEF Trees, File
  <2> QED BY <2>1, <2>3, <2>6
<1> QED BY <1>1, <1>2

\* What a rollback that reports success knows of the tree it leaves, file by file.
LEMMA RestoreReports ==
  ASSUME NEW t \in Trees, NEW s \in Trees, NEW b, b = Capture(s), Ordinary(s),
         NEW delta, NEW back \in Restore(t, b, delta), back.ok
  PROVE  /\ \A p \in Paths: back.tree[p].work = Rewritten(t, b, delta, p)
         /\ \A p \in Paths: t[p].head = s[p].head
         /\ Changed(Delta(back.tree, b)) \subseteq Modified(s) \cup Untracked(s)
<1>1. ~HeadDrifted(t, b)
  BY DEF Restore
<1>2. PICK after \in Restored(t, b, delta): back = [tree |-> after, ok |-> Residual(after, b) = {}]
  BY <1>1 DEF Restore
<1>3. after = [p \in Paths |-> [t[p] EXCEPT !.work = Rewritten(t, b, delta, p)]]
  BY <1>2 DEF Restored
<1>4. \A p \in Paths: after[p].work = Rewritten(t, b, delta, p)
  BY <1>3 DEF Trees, File
<1>5. Heads(t) = Heads(s)
  BY <1>1, BaselineOf DEF HeadDrifted
<1>6. \A p \in Paths: t[p].head = s[p].head
  <2> SUFFICES ASSUME NEW p \in Paths PROVE t[p].head = s[p].head
    OBVIOUS
  <2>1. Heads(t)[p] = t[p].head /\ Heads(s)[p] = s[p].head
    BY DEF Heads
  <2> QED BY <1>5, <2>1
<1>7. Residual(after, b) = {}
  BY <1>2
<1>8. Changed(Delta(after, b)) \subseteq Modified(s) \cup Untracked(s)
  BY <1>7, BaselineOf DEF Residual
<1> QED BY <1>2, <1>4, <1>6, <1>8

\* A file the person left as it was committed is again as it was.
LEMMA CleanIsExact ==
  ASSUME NEW s \in Trees, NEW u \in Trees, NEW b, b = Capture(s), Ordinary(s),
         NEW p \in Project, Known(s, p), p \notin Modified(s), u[p].head = s[p].head,
         Changed(Delta(u, b)) \subseteq Modified(s) \cup Untracked(s)
  PROVE  u[p].work = s[p].work
<1>1. p \in Paths
  BY ProjectPaths
<1>2. s[p].index = s[p].head /\ s[p].work = s[p].index
  BY DEF Modified, Tracked, Added, Deleted, Known
<1>3. p \notin Untracked(s)
  BY OrdinaryUntracked DEF Known
<1>4. p \notin Changed(Delta(u, b))
  BY <1>3
<1>5. p \notin Deleted(u) /\ p \notin Modified(u)
  BY <1>4, BaselineOf DEF Changed, Delta
<1>6. u[p].index # Missing /\ u[p].work # Missing
  BY <1>5 DEF Deleted, Known
<1>7. p \in Tracked(u) /\ p \notin Added(u)
  BY <1>6 DEF Tracked, Added, Known
<1> QED BY <1>2, <1>5, <1>7 DEF Modified

\* Where there was no file there is none.
LEMMA AbsentIsExact ==
  ASSUME NEW s \in Trees, NEW u \in Trees, NEW b, b = Capture(s), Ordinary(s),
         NEW p \in Project, Unknown(s, p), s[p].work = Missing, u[p].head = s[p].head,
         Changed(Delta(u, b)) \subseteq Modified(s) \cup Untracked(s)
  PROVE  u[p].work = Missing
<1> SUFFICES ASSUME u[p].work # Missing PROVE FALSE
  OBVIOUS
<1>1. p \in Paths
  BY ProjectPaths
<1>2. p \notin Modified(s) \cup Untracked(s)
  BY OrdinaryUntracked DEF Unknown, Modified, Tracked
<1>3. Modified(s) \cup Untracked(s) \subseteq Paths
  BY OrdinaryUntracked, ProjectPaths DEF Modified, Tracked
<1>4. p \notin Changed(Delta(u, b)) /\ Folder[p] \notin Changed(Delta(u, b))
  BY <1>1, <1>2, <1>3, FolderAssumption
<1>5. p \notin b.modified /\ p \notin b.untracked
  BY <1>2, BaselineOf
<1>6. Folder[p] \notin b.untracked
  BY <1>1, <1>3, FolderAssumption, BaselineOf
<1>7. CASE u[p].index = Missing
  <2>1. Named(u, p) \in Untracked(u)
    BY <1>7 DEF Untracked
  <2>2. Named(u, p) \in {p, Folder[p]}
    BY DEF Named
  <2>3. Named(u, p) \in Changed(Delta(u, b))
    BY <2>1, <2>2, <1>5, <1>6 DEF Changed, Delta
  <2> QED BY <2>2, <2>3, <1>4
<1>8. CASE u[p].index # Missing
  <2>1. p \in Added(u)
    BY <1>8 DEF Added, Tracked, Unknown
  <2> QED BY <2>1, <1>4, <1>5 DEF Changed, Delta
<1> QED BY <1>7, <1>8

\* A file the person had edited has the person's bytes, wherever the index stands.
LEMMA EditedIsExact ==
  ASSUME NEW t \in Trees, NEW s \in Trees, NEW b, b = Capture(s), Ordinary(s), NEW delta,
         NEW p \in Project \ Large, p \in Modified(s), SparesEdited(delta, s)
  PROVE  Rewritten(t, b, delta, p) = s[p].work
<1>1. p \in Paths
  BY ProjectPaths
<1>2. s[p].work # Missing
  BY DEF Modified, Deleted, Tracked
<1>3. p \in PutBack(b) /\ Bytes(b, p) = s[p].work
  BY <1>1, <1>2, SnapshotOf
<1>4. p \notin CheckedOut(t, b, delta)
  BY BaselineOf DEF CheckedOut
<1>5. p \notin Unlinked(b, delta)
  BY DEF Unlinked, SparesEdited
<1> QED BY <1>3, <1>4, <1>5 DEF Rewritten

\* A file of the person's that git does not know has the person's bytes, if it was not staged.
LEMMA LooseIsExact ==
  ASSUME NEW t \in Trees, NEW s \in Trees, NEW b, b = Capture(s), Ordinary(s), NEW delta,
         NEW p \in Project \ Large, Unknown(s, p), s[p].work # Missing, t[p].index = Missing
  PROVE  Rewritten(t, b, delta, p) = s[p].work
<1>1. p \in Paths
  BY ProjectPaths
<1>2. p \in Untracked(s)
  BY OrdinaryUntracked DEF Unknown
<1>3. p \in PutBack(b) /\ Bytes(b, p) = s[p].work
  BY <1>1, <1>2, SnapshotOf
<1>4. p \notin CheckedOut(t, b, delta)
  BY DEF CheckedOut, Tracked
<1>5. p \notin Unlinked(b, delta)
  BY <1>2, BaselineOf DEF Unlinked
<1> QED BY <1>3, <1>4, <1>5 DEF Rewritten

\* A rollback that reports success has put the files back.
LEMMA RestoreIsExact ==
  ASSUME NEW t \in Trees, NEW s \in Trees, NEW b, b = Capture(s), Ordinary(s), NEW delta,
         SparesEdited(delta, s), NEW back \in Restore(t, b, delta), back.ok
  PROVE  Same(back.tree, s)
<1> DEFINE u == back.tree
<1>1. u \in Trees /\ \A p \in Paths: u[p].index = t[p].index /\ u[p].head = t[p].head
  BY RestoreIsATree
<1>2. /\ \A p \in Paths: u[p].work = Rewritten(t, b, delta, p) /\ u[p].head = s[p].head
      /\ Changed(Delta(u, b)) \subseteq Modified(s) \cup Untracked(s)
  BY <1>1, RestoreReports
<1> HIDE DEF u
<1> SUFFICES ASSUME NEW p \in Project \ (Large \cup Staged(u, s)) PROVE u[p].work = s[p].work
  BY DEF Same, u
<1>3. p \in Project /\ p \in Paths /\ p \notin Large
  BY ProjectPaths
<1>4. CASE p \in Modified(s)
  BY <1>2, <1>3, <1>4, EditedIsExact
<1>5. CASE p \notin Modified(s) /\ Known(s, p)
  BY <1>1, <1>2, <1>3, <1>5, CleanIsExact
<1>6. CASE Unknown(s, p) /\ s[p].work = Missing
  BY <1>1, <1>2, <1>3, <1>6, AbsentIsExact
<1>7. CASE Unknown(s, p) /\ s[p].work # Missing
  <2>1. t[p].index = Missing
    BY <1>1, <1>3, <1>7 DEF Staged, Unknown
  <2> QED BY <2>1, <1>2, <1>3, <1>7, LooseIsExact
<1> QED BY <1>3, <1>4, <1>5, <1>6, <1>7 DEF Ordinary

\* What git knew is not taken for new by a delta (capture_delta).
LEMMA DeltaSparesEdited ==
  ASSUME NEW t \in Trees, NEW s \in Trees, NEW b, b = Capture(s), StillKnown(t, s)
  PROVE  SparesEdited(Delta(t, b), s)
<1> SUFFICES ASSUME NEW p \in Modified(s)
             PROVE  p \notin Delta(t, b).added /\ Folder[p] \notin Delta(t, b).added
  BY DEF SparesEdited
<1>1. p \in Project /\ p \in Paths /\ t[p].index # Missing
  BY ProjectPaths DEF Modified, Tracked, StillKnown
<1>2. Folder[p] \notin Paths
  BY <1>1, FolderAssumption
<1>3. p \in Tracked(t)
  BY <1>1 DEF Tracked
<1>4. p \notin Untracked(t) /\ Folder[p] \notin Untracked(t)
  <2> SUFFICES ASSUME NEW q \in Project, t[q].index = Missing, Named(t, q) \in {p, Folder[p]}
               PROVE  FALSE
    BY DEF Untracked
  <2>1. q \in Paths /\ q # p
    BY <1>1, ProjectPaths
  <2>2. Named(t, q) # q
    BY <2>1, <1>2
  <2>3. Named(t, q) = Folder[q] /\ \A r \in Tracked(t): Folder[r] # Folder[q]
    BY <2>2 DEF Named
  <2>4. Folder[q] # p
    BY <2>1, <1>1, FolderAssumption
  <2> QED BY <2>3, <2>4, <1>3
<1>5. Folder[p] \notin Added(t)
  BY <1>2, ProjectPaths DEF Added, Tracked
<1>6. p \in b.modified
  BY BaselineOf
<1> QED BY <1>4, <1>5, <1>6 DEF Delta

(***************************************************************************)
(* The checkout through every step.                                        *)
(***************************************************************************)
\* A checkout that descends from the one the task found.
Later(t) == t \in Trees /\ StillKnown(t, start)
Patches == SUBSET (Paths \X (Contents \cup {Missing}))

TreeInv ==
  /\ start \in Trees /\ Ordinary(start) /\ base = Capture(start)
  /\ Later(tree) /\ fallback.patch \in Patches

\* A tree whose files were only rewritten descends from it as well.
LEMMA ReworkedLater ==
  ASSUME NEW t, Later(t), NEW W \in [Paths -> Contents \cup {Missing}],
         NEW u, u = [p \in Paths |-> [t[p] EXCEPT !.work = W[p]]]
  PROVE  Later(u)
<1>1. u \in Trees /\ \A p \in Paths: u[p].index = t[p].index
  BY DEF Later, Trees, File
<1> QED BY <1>1, ProjectPaths DEF Later, StillKnown

\* A provider edits, deletes, stages and commits; it takes nothing out of the index.
LEMMA TouchLater ==
  ASSUME TreeInv, Touch
  PROVE  Later(tree')
<1>1. tree \in Trees /\ StillKnown(tree, start)
  BY DEF TreeInv, Later
<1>2. CASE Commit
  <2>1. tree' = [p \in Paths |-> [tree[p] EXCEPT !.head = tree[p].index]]
    BY <1>2 DEF Commit
  <2>2. tree' \in Trees /\ \A p \in Paths: tree'[p].index = tree[p].index
    BY <2>1, <1>1 DEF Trees, File
  <2> QED BY <2>2, <1>1, ProjectPaths DEF Later, StillKnown
<1>3. ASSUME NEW p \in Paths, NEW w \in Contents \cup {Missing},
             tree' = [tree EXCEPT ![p].work = w]
      PROVE  Later(tree')
  <2>1. tree' = [tree EXCEPT ![p] = [tree[p] EXCEPT !.work = w]]
    BY <1>3
  <2>2. tree' \in Trees /\ \A q \in Paths: tree'[q].index = tree[q].index
    BY <2>1, <1>1 DEF Trees, File
  <2> QED BY <2>2, <1>1, ProjectPaths DEF Later, StillKnown
<1>4. ASSUME NEW p \in Paths, Add(p)
      PROVE  Later(tree')
  <2>1. tree[p].work # Missing /\ tree[p].work \in Contents \cup {Missing}
    BY <1>1, <1>4, FileOfTree DEF Add
  <2>2. tree' = [tree EXCEPT ![p] = [tree[p] EXCEPT !.index = tree[p].work]]
    BY <1>4 DEF Add
  <2>3. tree' \in Trees /\ \A q \in Paths: tree'[q].index = IF q = p THEN tree[p].work ELSE tree[q].index
    BY <2>1, <2>2, <1>1 DEF Trees, File
  <2> QED BY <2>1, <2>3, <1>1, ProjectPaths DEF Later, StillKnown
<1>5. "agent" \in Contents \cup {Missing} /\ Missing \in Contents \cup {Missing}
  BY DEF Contents
<1> QED BY <1>2, <1>3, <1>4, <1>5 DEF Touch, Edit, Delete

\* The scope check rewrites files (_enforce_task_path_scope).
LEMMA ScopedLater ==
  ASSUME TreeInv, NEW t \in ScopedTree
  PROVE  Later(t)
<1> DEFINE d == Delta(tree, base)
           out == OutOfScope(d)
           W == [p \in Paths |-> IF p \in out THEN Undone(p, d) ELSE tree[p].work]
<1>1. tree \in Trees
  BY DEF TreeInv, Later
<1>2. t = [p \in Paths |-> IF p \in out THEN [tree[p] EXCEPT !.work = Undone(p, d)] ELSE tree[p]]
  BY DEF ScopedTree, Scoped
<1>3. W \in [Paths -> Contents \cup {Missing}]
  <2> SUFFICES ASSUME NEW p \in Paths PROVE Undone(p, d) \in Contents \cup {Missing} /\ tree[p].work \in Contents \cup {Missing}
    OBVIOUS
  <2> QED BY <1>1, FileOfTree DEF Undone
<1>4. \A p \in Paths: (IF p \in out THEN [tree[p] EXCEPT !.work = Undone(p, d)] ELSE tree[p])
                      = [tree[p] EXCEPT !.work = W[p]]
  <2> SUFFICES ASSUME NEW p \in Paths, p \notin out PROVE tree[p] = [tree[p] EXCEPT !.work = tree[p].work]
    OBVIOUS
  <2> QED BY <1>1 DEF Trees, File
<1>5. t = [p \in Paths |-> [tree[p] EXCEPT !.work = W[p]]]
  BY <1>2, <1>4
<1> HIDE DEF W
<1> QED BY <1>3, <1>5, ReworkedLater DEF TreeInv

\* So does a rollback.
LEMMA RestoreLater ==
  ASSUME TreeInv, NEW t, Later(t), NEW delta, NEW back \in Restore(t, base, delta)
  PROVE  Later(back.tree)
<1>1. t \in Trees /\ start \in Trees /\ base = Capture(start) /\ Ordinary(start) /\ StillKnown(t, start)
  BY DEF TreeInv, Later
<1>2. back.tree \in Trees /\ \A p \in Paths: back.tree[p].index = t[p].index
  BY <1>1, RestoreIsATree
<1> QED BY <1>1, <1>2, ProjectPaths DEF Later, StillKnown

\* And a retained patch (_promote_retained_salvage).
LEMMA PatchedLater ==
  ASSUME NEW t, Later(t), NEW patch \in Patches
  PROVE  Later(Patched(t, patch))
<1> DEFINE W == [p \in Paths |-> IF \E e \in patch: e[1] = p THEN (CHOOSE e \in patch: e[1] = p)[2] ELSE t[p].work]
<1>1. t \in Trees
  BY DEF Later
<1>2. W \in [Paths -> Contents \cup {Missing}]
  <2> SUFFICES ASSUME NEW p \in Paths PROVE W[p] \in Contents \cup {Missing}
    OBVIOUS
  <2>1. CASE \E e \in patch: e[1] = p
    <3>1. (CHOOSE e \in patch: e[1] = p) \in patch
      BY <2>1
    <3> QED BY <3>1, <2>1 DEF Patches
  <2>2. CASE ~\E e \in patch: e[1] = p
    BY <2>2, <1>1, FileOfTree
  <2> QED BY <2>1, <2>2
<1>3. Patched(t, patch) = [p \in Paths |-> [t[p] EXCEPT !.work = W[p]]]
  BY DEF Patched
<1> HIDE DEF W
<1> QED BY <1>2, <1>3, ReworkedLater

\* A retained patch names files of the checkout and bytes of theirs (capture_delta).
LEMMA RetainedPatch ==
  ASSUME TreeInv
  PROVE  Retained.patch \in Patches
<1>1. Patch \in Patches
  BY FileOfTree DEF Patch, DiffContent, Patches, TreeInv, Later
<1> QED BY <1>1 DEF Retained, TreeInv

\* The checkout of every step descends from the one the task found.
LEMMA TreeStep ==
  ASSUME TreeInv, [Next]_vars
  PROVE  TreeInv'
<1> DEFINE Kept == UNCHANGED <<tree, base, start, fallback>>
<1>1. Later(tree) /\ fallback.patch \in Patches /\ {} \in Patches
  BY DEF TreeInv, Patches
<1>2. ASSUME base' = base, start' = start, Later(tree'), fallback'.patch \in Patches
      PROVE  TreeInv'
  BY <1>2 DEF TreeInv, Later, StillKnown, Ordinary, Known, Unknown
<1>3. ASSUME Kept PROVE TreeInv'
  BY <1>1, <1>2, <1>3
<1>4. ASSUME NEW p, NEW result, NEW said, Judge(p, result, said), UNCHANGED <<base, start, fallback>>
      PROVE  TreeInv'
  BY <1>1, <1>2, <1>4, ScopedLater DEF Judge
<1>5. CASE Work \/ Straggle
  BY <1>1, <1>2, <1>5, TouchLater DEF Work, Straggle
<1>6. CASE Prints \/ Ends \/ Poll \/ Die \/ Resume \/ FixWaits
  BY <1>3, <1>6 DEF Prints, Ends, Poll, Die, Resume, FixWaits, Checkout
<1>7. CASE Accept
  <2>1. fallback'.patch \in Patches
    BY <1>1, <1>7 DEF Accept, NoFallback
  <2>2. UNCHANGED <<tree, base, start>>
    BY <1>7 DEF Accept, Checkout
  <2> QED BY <1>1, <1>2, <2>1, <2>2
<1>8. ASSUME NEW p \in Providers, NotInstalled(p) \/ Launch(p) \/ InferLocally(p) \/ Fix(p)
      PROVE  TreeInv'
  <2>1. CASE NotInstalled(p)
    BY <1>4, <2>1 DEF NotInstalled, Bounds
  <2>2. CASE Launch(p) \/ Fix(p)
    BY <1>3, <2>2 DEF Launch, Fix, Bounds
  <2>3. CASE InferLocally(p)
    BY <1>3, <1>4, <2>3 DEF InferLocally, Bounds
  <2> QED BY <1>8, <2>1, <2>2, <2>3
<1>9. CASE LocalReturns \/ AttemptReturns \/ ObserverFails
  BY <1>4, <1>9 DEF LocalReturns, AttemptReturns, ObserverFails, Return, Bounds
<1>10. CASE HandOver
  <2>1. PICK back \in Restore(tree, base, run.delta): tree' = back.tree /\ fallback' = Retained
    BY <1>10 DEF HandOver
  <2>2. base' = base /\ start' = start
    BY <1>10 DEF HandOver, Bounds
  <2> QED BY <1>1, <1>2, <2>1, <2>2, RestoreLater, RetainedPatch
<1>11. CASE Promote
  <2>1. PICK back \in Restore(tree, base, run.delta): tree' = Patched(back.tree, fallback.patch)
    BY <1>11 DEF Promote
  <2>2. base' = base /\ start' = start /\ fallback' = NoFallback
    BY <1>11 DEF Promote, Bounds
  <2>3. Later(back.tree)
    BY <1>1, RestoreLater
  <2>4. Later(tree')
    BY <2>1, <2>3, <1>1, PatchedLater
  <2> QED BY <1>1, <1>2, <2>2, <2>4 DEF NoFallback
<1>12. CASE Fail
  <2>1. PICK back \in Restore(tree, base, run.delta): tree' = back.tree
    BY <1>12 DEF Fail
  <2>2. base' = base /\ start' = start /\ fallback' = NoFallback
    BY <1>12 DEF Fail, Bounds
  <2> QED BY <1>1, <1>2, <2>1, <2>2, RestoreLater DEF NoFallback
<1>13. CASE FixReturns
  <2>1. UNCHANGED <<base, start, fallback>>
    BY <1>13 DEF FixReturns, Bounds
  <2>2. PICK result: FixEnds(result)
    BY <1>13 DEF FixReturns
  <2>3. CASE tree' \in ScopedTree
    BY <1>1, <1>2, <2>1, <2>3, ScopedLater
  <2>4. CASE \E scoped \in ScopedTree: \E back \in Restore(scoped, base, Delta(scoped, base)): tree' = back.tree
    BY <1>1, <1>2, <2>1, <2>4, ScopedLater, RestoreLater
  <2> QED BY <2>2, <2>3, <2>4 DEF FixEnds
<1>14. CASE UNCHANGED vars
  BY <1>3, <1>14 DEF vars
<1> QED
  BY <1>5, <1>6, <1>7, <1>8, <1>9, <1>10, <1>11, <1>12, <1>13, <1>14
  DEF Next, ProviderSteps, HarnessSteps, Faults

(***************************************************************************)
(* The attempts, as the rest of the program takes them.                    *)
(***************************************************************************)
\* The delta that a rollback of the judged attempt undoes.
DeltaInv == at = "judge" => SparesEdited(run.delta, start)
\* The orchestrator's locals are the record they are made as.
Locals == [cur |-> run.cur, n |-> run.n, tried |-> run.tried, result |-> run.result,
           said |-> run.said, delta |-> run.delta, fixes |-> run.fixes]
\* The provider at work is one not tried before.  Whoever finds the checkout as it was not
\* is in a run that died or lost hold of a provider.
LoopInv ==
  /\ run = Locals /\ run.n \in Nat /\ faults \in Nat
  /\ run.tried \subseteq Providers
  /\ at \in {"working", "inferring"} => run.cur \in Providers \ run.tried
  /\ (astray \/ at = "dead") => faults > 0
  /\ at = "attempt" => Same(tree, start) \/ faults > 0
Inv == TreeInv /\ DeltaInv /\ LoopInv

\* A judged attempt: what the orchestrator knows of it.
LEMMA JudgeEffect ==
  ASSUME TreeInv, run = Locals, NEW p, NEW result, NEW said, Judge(p, result, said),
         base' = base, start' = start
  PROVE  /\ at' = "judge" /\ run'.tried = run.tried \cup {p} /\ run'.n = run.n
         /\ SparesEdited(run'.delta, start')
         /\ run' = Locals'
<1>1. Later(tree') /\ start \in Trees /\ base = Capture(start)
  BY ScopedLater DEF Judge, TreeInv
<1>2. run' = [run EXCEPT !.cur = p, !.result = result, !.said = said,
                         !.delta = Delta(tree', base), !.tried = run.tried \cup {p}]
  BY DEF Judge
<1>3. run'.delta = Delta(tree', base) /\ run'.tried = run.tried \cup {p} /\ run'.n = run.n
  BY <1>2 DEF Locals
<1>4. run' = Locals'
  BY <1>2 DEF Locals
<1>5. SparesEdited(Delta(tree', base), start)
  BY <1>1, DeltaSparesEdited DEF Later
<1> QED BY <1>3, <1>4, <1>5 DEF Judge

\* A fresh attempt's locals.
LEMMA FreshLocals ==
  ASSUME run' = Fresh \/ \E k, T: run' = [Fresh EXCEPT !.n = k, !.tried = T]
  PROVE  run' = Locals'
BY DEF Fresh, Locals

\* A rollback of the judged attempt that reports success is exact.
LEMMA JudgedRollback ==
  ASSUME TreeInv, DeltaInv, at = "judge", NEW back \in Restore(tree, base, run.delta), back.ok
  PROVE  Same(back.tree, start)
BY RestoreIsExact DEF TreeInv, DeltaInv, Later

\* So is one of a failed remediation.
LEMMA FixRollback ==
  ASSUME TreeInv, NEW scoped \in ScopedTree, NEW back \in Restore(scoped, base, Delta(scoped, base)), back.ok
  PROVE  Same(back.tree, start)
<1>1. Later(scoped)
  BY ScopedLater
<1>2. SparesEdited(Delta(scoped, base), start)
  BY <1>1, DeltaSparesEdited DEF TreeInv, Later
<1> QED BY <1>1, <1>2, RestoreIsExact DEF TreeInv, Later

\* Only faults lose hold of a provider.
LEMMA FaultsGrow ==
  ASSUME faults \in Nat, faults' = faults + 1
  PROVE  faults' \in Nat /\ faults' > 0
OBVIOUS

\* The account of the attempts survives every step.
LEMMA InvStep ==
  ASSUME Inv, [Next]_vars
  PROVE  Inv'
<1>1. TreeInv /\ DeltaInv /\ LoopInv /\ run = Locals
  BY DEF Inv, LoopInv
<1>2. TreeInv' /\ start' = start
  <2>1. TreeInv'
    BY <1>1, TreeStep
  <2>2. start' = start
    BY Zenon DEF Next, ProviderSteps, HarnessSteps, Faults, vars, Bounds, Checkout, Work, Straggle, Prints,
       Ends, Resume, FixWaits, FixReturns, Accept, LocalReturns, AttemptReturns, Poll, HandOver,
       Promote, Fail, NotInstalled, Launch, InferLocally, ObserverFails, Die, Fix
  <2> QED BY <2>1, <2>2
<1>3. SUFFICES DeltaInv' /\ LoopInv'
  BY <1>2 DEF Inv
\* A step that leaves the orchestrator where it is.
<1>4. ASSUME UNCHANGED <<at, run, faults, astray>>, UNCHANGED tree \/ at # "attempt" \/ faults > 0
      PROVE  DeltaInv' /\ LoopInv'
  BY <1>1, <1>2, <1>4 DEF DeltaInv, LoopInv, Locals
\* A step that judges an attempt.
<1>5. ASSUME NEW p \in Providers, NEW result, NEW said, Judge(p, result, said), base' = base,
             faults' \in Nat, astray' => faults' > 0
      PROVE  DeltaInv' /\ LoopInv'
  <2>1. /\ at' = "judge" /\ run'.tried = run.tried \cup {p} /\ run'.n = run.n
        /\ SparesEdited(run'.delta, start') /\ run' = Locals'
    BY <1>1, <1>2, <1>5, JudgeEffect
  <2> QED BY <1>1, <1>5, <2>1 DEF DeltaInv, LoopInv
\* A step into another state of the loop.
<1>6. ASSUME at' \notin {"judge", "working", "inferring", "dead", "attempt"}, run' = Locals',
             run'.n \in Nat, run'.tried \subseteq Providers, UNCHANGED <<faults, astray>>
      PROVE  DeltaInv' /\ LoopInv'
  BY <1>1, <1>6 DEF DeltaInv, LoopInv
<1>7. CASE Work \/ Straggle
  BY <1>1, <1>4, <1>7 DEF Work, Straggle, LoopInv
<1>8. CASE Prints \/ Ends \/ Poll \/ FixWaits
  BY <1>4, <1>8 DEF Prints, Ends, Poll, FixWaits, Checkout
<1>9. CASE Accept
  BY <1>1, <1>6, <1>9 DEF Accept, LoopInv, Locals
<1>10. ASSUME NEW p \in Providers, NotInstalled(p) PROVE DeltaInv' /\ LoopInv'
  BY <1>1, <1>5, <1>10 DEF NotInstalled, Bounds, LoopInv
<1>11. ASSUME NEW p \in Providers, at = "attempt", p \notin run.tried,
              at' \in {"working", "inferring"}, run' = [run EXCEPT !.cur = p],
              UNCHANGED <<faults, astray>>
       PROVE  DeltaInv' /\ LoopInv'
  BY <1>1, <1>11 DEF DeltaInv, LoopInv, Locals
<1>12. ASSUME NEW p \in Providers, Launch(p) PROVE DeltaInv' /\ LoopInv'
  BY <1>11, <1>12 DEF Launch, Choose, Bounds
<1>13. ASSUME NEW p \in Providers, InferLocally(p) PROVE DeltaInv' /\ LoopInv'
  BY <1>1, <1>5, <1>11, <1>13 DEF InferLocally, Choose, Bounds, LoopInv
<1>14. ASSUME NEW p \in Providers, Fix(p) PROVE DeltaInv' /\ LoopInv'
  <2>1. run' = Locals' /\ run'.n = run.n /\ run'.tried = run.tried
    BY <1>1, <1>14 DEF Fix, Locals
  <2> QED BY <1>1, <1>6, <1>14, <2>1 DEF Fix, Bounds, LoopInv
<1>15. CASE LocalReturns \/ AttemptReturns
  <2>1. run.cur \in Providers /\ UNCHANGED <<base, faults, astray>>
    BY <1>1, <1>15 DEF LocalReturns, AttemptReturns, Bounds, LoopInv
  <2> QED BY <1>1, <1>5, <1>15, <2>1 DEF LocalReturns, AttemptReturns, Return, LoopInv
<1>16. CASE ObserverFails
  <2>1. run.cur \in Providers /\ base' = base /\ faults' \in Nat /\ faults' > 0
    BY <1>1, <1>16, FaultsGrow DEF ObserverFails, LoopInv
  <2> QED BY <1>5, <1>16, <2>1 DEF ObserverFails
<1>17. CASE HandOver
  <2>1. PICK back \in Restore(tree, base, run.delta):
          /\ tree' = back.tree
          /\ IF back.ok THEN at' = "attempt" /\ run' = [Fresh EXCEPT !.n = run.n + 1, !.tried = run.tried]
             ELSE at' = "unrestored" /\ run' = Fresh
    BY <1>17 DEF HandOver
  <2>2. at = "judge" /\ UNCHANGED <<faults, astray>>
    BY <1>17 DEF HandOver, Bounds
  <2>3. run' = Locals'
    BY <2>1, FreshLocals
  <2>4. CASE back.ok
    <3>1. Same(tree', start')
      BY <1>1, <1>2, <2>1, <2>2, <2>4, JudgedRollback
    <3>2. run'.n = run.n + 1 /\ run'.tried = run.tried
      BY <2>1, <2>4 DEF Fresh
    <3> QED BY <1>1, <2>1, <2>2, <2>3, <2>4, <3>1, <3>2 DEF DeltaInv, LoopInv
  <2>5. CASE ~back.ok
    BY <1>6, <2>1, <2>2, <2>3, <2>5 DEF Fresh
  <2> QED BY <2>4, <2>5
<1>18. CASE Promote
  BY <1>1, <1>6, <1>18 DEF Promote, Bounds, LoopInv, Locals
<1>19. CASE Fail
  <2>1. run' = Fresh /\ at' \in {"failed", "unrestored"} /\ UNCHANGED <<faults, astray>>
    BY <1>19 DEF Fail, Bounds
  <2>2. run' = Locals'
    BY <2>1, FreshLocals
  <2> QED BY <1>6, <2>1, <2>2 DEF Fresh
<1>20. CASE FixReturns
  <2>1. UNCHANGED <<faults, astray>>
    BY <1>20 DEF FixReturns, Bounds
  <2>2. PICK result: FixEnds(result)
    BY <1>20 DEF FixReturns
  <2>3. CASE /\ result.ok /\ tree' \in ScopedTree /\ at' = "kept"
             /\ run' = [run EXCEPT !.result = result, !.delta = Delta(tree', base)]
    <3>1. run' = Locals' /\ run'.n = run.n /\ run'.tried = run.tried
      BY <1>1, <2>3 DEF Locals
    <3> QED BY <1>1, <1>6, <2>1, <2>3, <3>1 DEF LoopInv
  <2>4. CASE run' = Fresh /\ at' \in {"failed", "unrestored"}
    <3>1. run' = Locals'
      BY <2>4, FreshLocals
    <3> QED BY <1>6, <2>1, <2>4, <3>1 DEF Fresh
  <2> QED BY <2>2, <2>3, <2>4 DEF FixEnds
<1>21. CASE Die
  <2>1. run' = Fresh /\ at' = "dead" /\ faults' \in Nat /\ faults' > 0
    BY <1>1, <1>21, FaultsGrow DEF Die, LoopInv
  <2>2. run' = Locals'
    BY <2>1, FreshLocals
  <2> QED BY <2>1, <2>2 DEF DeltaInv, LoopInv, Fresh
<1>22. CASE Resume
  <2>1. at = "dead" /\ at' \in {"attempt", "kept"} /\ UNCHANGED <<run, faults, astray>>
    BY <1>22 DEF Resume
  <2> QED BY <1>1, <2>1 DEF DeltaInv, LoopInv, Locals
<1>23. CASE UNCHANGED vars
  BY <1>4, <1>23 DEF vars
<1> QED
  BY <1>7, <1>8, <1>9, <1>10, <1>12, <1>13, <1>14, <1>15, <1>16, <1>17, <1>18, <1>19,
     <1>20, <1>21, <1>22, <1>23
  DEF Next, ProviderSteps, HarnessSteps, Faults

\* It holds at the start.
LEMMA InvInit ==
  ASSUME Init, Ordinary(start)
  PROVE  Inv
<1>1. start = tree /\ base = Capture(tree) /\ at = "attempt" /\ run = Fresh /\ fallback = NoFallback
      /\ astray = FALSE /\ faults = 0 /\ tree \in Trees
  BY DEF Init
<1>2. Same(tree, start) /\ StillKnown(tree, start)
  BY <1>1 DEF Same, StillKnown
<1>3. fallback.patch \in Patches
  BY <1>1 DEF NoFallback, Patches
<1>4. run = Locals /\ run.n = 1 /\ run.tried = {}
  BY <1>1 DEF Fresh, Locals
<1> QED BY <1>1, <1>2, <1>3, <1>4 DEF Inv, TreeInv, Later, DeltaInv, LoopInv

(***************************************************************************)
(* Every step is one of AttemptLoop.                                       *)
(***************************************************************************)
Stage == IF at = "inferring" THEN "working" ELSE at
Clean == Same(tree, start)
Lost == faults > 0

\* Whether the checkout is clean is true or false.
LEMMA CleanIsBoolean == Clean \in BOOLEAN /\ Clean' \in BOOLEAN
BY DEF Clean, Same

\* The abstract state is unchanged when these are.
LEMMA Stutters ==
  ASSUME UNCHANGED <<Stage, run, tree, start, faults>>
  PROVE  UNCHANGED Loop!vars
BY DEF Loop!vars, Stage

\* A provider's work on the checkout is a write of the abstract loop.
LEMMA WritesAreWrites ==
  ASSUME Stage \in {"working", "fixing"} \/ faults > 0, UNCHANGED <<at, run, faults>>
  PROVE  Loop!Write
<1>1. UNCHANGED <<Stage, run.tried, run.n, faults > 0>>
  BY DEF Stage
<1> QED BY <1>1, CleanIsBoolean DEF Loop!Write, Stage, Clean

\* A judged attempt is a report of the abstract loop.
LEMMA JudgesAreReports ==
  ASSUME Inv, NEW p \in Providers \ run.tried, NEW result, NEW said, Judge(p, result, said),
         base' = base, start' = start, at \in {"attempt", "working", "inferring"},
         faults' = faults \/ faults' > 0
  PROVE  Loop!Next
<1>1. at' = "judge" /\ run'.tried = run.tried \cup {p} /\ run'.n = run.n
  BY JudgeEffect DEF Inv, LoopInv
<1>2. (faults' > 0) \in {(faults > 0), TRUE}
  OBVIOUS
<1>3. Loop!Report(p)
  BY <1>1, <1>2, CleanIsBoolean DEF Loop!Report, Clean
<1> QED BY <1>3 DEF Loop!Next

\* Every step of the attempts is a step of AttemptLoop, or none.
LEMMA StepImplements ==
  ASSUME Inv, [Next]_vars
  PROVE  [Loop!Next]_(Loop!vars)
<1>1. TreeInv /\ DeltaInv /\ LoopInv /\ run = Locals /\ Inv'
  BY InvStep DEF Inv, LoopInv
<1>2. start' = start
    BY Zenon DEF Next, ProviderSteps, HarnessSteps, Faults, vars, Bounds, Checkout, Work, Straggle, Prints,
       Ends, Resume, FixWaits, FixReturns, Accept, LocalReturns, AttemptReturns, Poll, HandOver,
       Promote, Fail, NotInstalled, Launch, InferLocally, ObserverFails, Die, Fix
<1>3. CASE Work
  <2>1. Loop!Write
    BY <1>3, WritesAreWrites DEF Work, Stage
  <2> QED BY <2>1 DEF Loop!Next
<1>4. CASE Straggle
  <2>1. Loop!Write
    BY <1>1, <1>4, WritesAreWrites DEF Straggle, LoopInv
  <2> QED BY <2>1 DEF Loop!Next
<1>5. CASE Prints \/ Ends \/ Poll \/ FixWaits \/ UNCHANGED vars
  <2>1. UNCHANGED <<at, run, tree, start, faults>>
    BY <1>5 DEF Prints, Ends, Poll, FixWaits, Checkout, vars
  <2> QED BY <2>1, Stutters DEF Stage
<1>6. CASE Accept \/ Promote
  <2>1. at = "judge" /\ at' = "kept" /\ UNCHANGED <<run, faults>>
    BY <1>6 DEF Accept, Promote, Terminal, Bounds
  <2>2. Loop!Keep
    BY <2>1, CleanIsBoolean DEF Loop!Keep, Clean
  <2> QED BY <2>2 DEF Loop!Next
<1>7. ASSUME NEW p \in Providers, NotInstalled(p) PROVE Loop!Next
  BY <1>2, <1>7, JudgesAreReports DEF NotInstalled, Choose, Bounds
<1>8. ASSUME NEW p, at = "attempt", at' \in {"working", "inferring"}, run' = [run EXCEPT !.cur = p],
             UNCHANGED <<tree, faults>>
      PROVE  Loop!Next
  <2>1. run'.tried = run.tried /\ run'.n = run.n
    BY <1>1, <1>8 DEF Locals
  <2>2. Clean \/ faults > 0
    BY <1>1, <1>8 DEF LoopInv, Clean
  <2>3. Loop!Launch
    BY <1>2, <1>8, <2>1, <2>2 DEF Loop!Launch, Clean
  <2> QED BY <2>3 DEF Loop!Next
<1>9. ASSUME NEW p \in Providers, Launch(p) PROVE Loop!Next
  BY <1>8, <1>9 DEF Launch, Choose, Bounds
<1>10. ASSUME NEW p \in Providers, InferLocally(p) PROVE Loop!Next
  BY <1>2, <1>8, <1>10, JudgesAreReports DEF InferLocally, Choose, Bounds
<1>11. CASE LocalReturns \/ AttemptReturns
  <2>1. run.cur \in Providers \ run.tried /\ at \in {"working", "inferring"} /\ UNCHANGED <<base, faults>>
    BY <1>1, <1>11 DEF LocalReturns, AttemptReturns, Bounds, LoopInv
  <2> QED BY <1>2, <1>11, <2>1, JudgesAreReports DEF LocalReturns, AttemptReturns, Return
<1>12. CASE ObserverFails
  <2>1. run.cur \in Providers \ run.tried /\ at = "working" /\ base' = base /\ faults' > 0
    BY <1>1, <1>12, FaultsGrow DEF ObserverFails, LoopInv
  <2> QED BY <1>2, <1>12, <2>1, JudgesAreReports DEF ObserverFails
<1>13. CASE HandOver
  <2>1. PICK back \in Restore(tree, base, run.delta):
          /\ tree' = back.tree
          /\ IF back.ok THEN at' = "attempt" /\ run' = [Fresh EXCEPT !.n = run.n + 1, !.tried = run.tried]
             ELSE at' = "unrestored" /\ run' = Fresh
    BY <1>13 DEF HandOver
  <2>2. at = "judge" /\ run.n < MaxAttempts /\ UNCHANGED faults
    BY <1>13 DEF HandOver, MayFailOver, Bounds
  <2>3. CASE back.ok
    <3>1. Clean'
      BY <1>1, <1>2, <2>1, <2>2, <2>3, JudgedRollback DEF Clean
    <3>2. run'.n = run.n + 1 /\ run'.tried = run.tried /\ at' = "attempt"
      BY <2>1, <2>3 DEF Fresh
    <3>3. Loop!HandOver
      BY <2>2, <3>1, <3>2, CleanIsBoolean DEF Loop!HandOver, Clean
    <3> QED BY <3>3 DEF Loop!Next
  <2>4. CASE ~back.ok
    <3>1. at' = "unrestored" /\ run'.tried = {} /\ run'.n = 1
      BY <2>1, <2>4 DEF Fresh
    <3>2. Loop!Fail
      BY <2>2, <3>1, CleanIsBoolean DEF Loop!Fail, Clean
    <3> QED BY <3>2 DEF Loop!Next
  <2> QED BY <2>3, <2>4
<1>14. CASE Fail
  <2>1. PICK back \in Restore(tree, base, run.delta):
          tree' = back.tree /\ at' = IF back.ok THEN "failed" ELSE "unrestored"
    BY <1>14 DEF Fail
  <2>2. at = "judge" /\ run' = Fresh /\ UNCHANGED faults
    BY <1>14 DEF Fail, Terminal, Bounds
  <2>3. back.ok => Clean'
    BY <1>1, <1>2, <2>1, <2>2, JudgedRollback DEF Clean
  <2>4. Loop!Fail
    BY <2>1, <2>2, <2>3, CleanIsBoolean DEF Loop!Fail, Clean, Fresh
  <2> QED BY <2>4 DEF Loop!Next
<1>15. ASSUME NEW p \in Providers, Fix(p) PROVE Loop!Next
  <2>1. run'.n = run.n /\ run'.tried = run.tried
    BY <1>1, <1>15 DEF Fix, Locals
  <2>2. Loop!Fix
    BY <1>15, <2>1 DEF Loop!Fix, Fix, Bounds
  <2> QED BY <2>2 DEF Loop!Next
<1>16. CASE FixReturns
  <2>1. at = "fixing" /\ UNCHANGED faults
    BY <1>16 DEF FixReturns, Bounds
  <2>2. PICK result: FixEnds(result)
    BY <1>16 DEF FixReturns
  <2>3. CASE /\ result.ok /\ tree' \in ScopedTree /\ at' = "kept"
             /\ run' = [run EXCEPT !.result = result, !.delta = Delta(tree', base)]
    <3>1. run'.n = run.n /\ run'.tried = run.tried
      BY <1>1, <2>3 DEF Locals
    <3>2. Loop!Fixed
      BY <2>1, <2>3, <3>1, CleanIsBoolean DEF Loop!Fixed, Clean
    <3> QED BY <3>2 DEF Loop!Next
  <2>4. ASSUME run' = Fresh, NEW scoped \in ScopedTree,
               NEW back \in Restore(scoped, base, Delta(scoped, base)),
               tree' = back.tree, at' = IF back.ok THEN "failed" ELSE "unrestored"
        PROVE  Loop!Next
    <3>1. back.ok => Clean'
      BY <1>1, <1>2, <2>4, FixRollback DEF Clean
    <3>2. Loop!Fail
      BY <2>1, <2>4, <3>1, CleanIsBoolean DEF Loop!Fail, Clean, Fresh
    <3> QED BY <3>2 DEF Loop!Next
  <2> QED BY <2>2, <2>3, <2>4 DEF FixEnds
<1>17. CASE Die
  <2>1. /\ at \in {"attempt", "working", "inferring", "judge", "kept", "fixing"}
        /\ at' = "dead" /\ run'.tried = {} /\ run'.n = 1 /\ faults' > 0 /\ UNCHANGED tree
    BY <1>1, <1>17, FaultsGrow DEF Die, Running, Fresh, LoopInv, Checkout
  <2>2. Loop!Die
    BY <1>2, <2>1 DEF Loop!Die
  <2> QED BY <2>2 DEF Loop!Next
<1>18. CASE Resume
  <2>1. at = "dead" /\ at' \in {"attempt", "kept"} /\ UNCHANGED <<tree, run, faults>>
    BY <1>18 DEF Resume, Checkout
  <2>2. Loop!Restart
    BY <1>2, <2>1 DEF Loop!Restart
  <2> QED BY <2>2 DEF Loop!Next
<1> QED
  BY <1>3, <1>4, <1>5, <1>6, <1>7, <1>9, <1>10, <1>11, <1>12, <1>13, <1>14, <1>15, <1>16, <1>17, <1>18
  DEF Next, ProviderSteps, HarnessSteps, Faults

(***************************************************************************)
(* The process of a call.                                                  *)
(***************************************************************************)
\* What the harness knows of a process is a record of its life.
ProcessInv ==
  /\ child = [alive |-> child.alive, code |-> child.code, said |-> child.said]
  /\ NoneOutlivesItsCall

\* A process that is reaped is dead, and says no more.
LEMMA Reaped ==
  ASSUME child = [alive |-> child.alive, code |-> child.code, said |-> child.said], Reap
  PROVE  ~child'.alive /\ child' = [alive |-> child'.alive, code |-> child'.code, said |-> child'.said]
BY DEF Reap

\* No step leaves a living process behind outside a call.
LEMMA ProcessStep ==
  ASSUME ProcessInv, [Next]_vars
  PROVE  ProcessInv'
<1> DEFINE Shape == child = [alive |-> child.alive, code |-> child.code, said |-> child.said]
<1>1. Shape /\ NoneOutlivesItsCall
  BY DEF ProcessInv
<1>2. ASSUME child' = child, at \notin {"working", "fixing"} \/ at' \in {"working", "fixing"} \/ ~child.alive
      PROVE  ProcessInv'
  BY <1>1, <1>2 DEF ProcessInv, NoneOutlivesItsCall
<1>3. ASSUME Reap PROVE ProcessInv'
  BY <1>1, <1>3, Reaped DEF ProcessInv, NoneOutlivesItsCall
<1>4. ASSUME child' = NoChild PROVE ProcessInv'
  BY <1>4 DEF ProcessInv, NoneOutlivesItsCall, NoChild
<1>5. CASE Work \/ Straggle
  BY <1>2, <1>5 DEF Work, Straggle, calls
<1>6. CASE Prints
  BY <1>1, <1>6 DEF Prints, Say, ProcessInv, NoneOutlivesItsCall
<1>7. CASE Ends
  BY <1>1, <1>7 DEF Ends, Exit, ProcessInv, NoneOutlivesItsCall
<1>8. ASSUME NEW print, Spawn(print), at' \in {"working", "fixing"} PROVE ProcessInv'
  BY <1>8 DEF Spawn, ProcessInv, NoneOutlivesItsCall
<1>9. ASSUME NEW p \in Providers, NotInstalled(p) PROVE ProcessInv'
  BY <1>2, <1>9 DEF NotInstalled, Choose, calls
<1>10. ASSUME NEW p \in Providers, Launch(p) PROVE ProcessInv'
  BY <1>8, <1>10 DEF Launch
<1>11. ASSUME NEW p \in Providers, InferLocally(p) PROVE ProcessInv'
  BY <1>2, <1>11 DEF InferLocally, Choose, calls
<1>12. ASSUME NEW p \in Providers, Fix(p) PROVE ProcessInv'
  BY <1>8, <1>12 DEF Fix
<1>13. CASE Poll
  BY <1>2, <1>13 DEF Poll, PollOn
<1>14. CASE FixWaits
  BY <1>2, <1>14 DEF FixWaits, Wait
<1>15. CASE AttemptReturns
  <2>1. CASE Reap
    BY <1>3, <2>1
  <2>2. CASE ~child.alive /\ UNCHANGED calls
    BY <1>2, <2>2 DEF calls
  <2> QED BY <1>15, <2>1, <2>2 DEF AttemptReturns, Return, StopWatched, StopAtDeadline
<1>16. CASE LocalReturns
  BY <1>2, <1>16 DEF LocalReturns, calls
<1>17. CASE ObserverFails
  BY <1>4, <1>17 DEF ObserverFails
<1>18. CASE Accept \/ HandOver \/ Promote \/ Fail
  BY <1>2, <1>18 DEF Accept, HandOver, Promote, Fail, Terminal, calls
<1>19. CASE FixReturns
  <2>1. CASE Reap
    BY <1>3, <2>1
  <2>2. CASE ~child.alive /\ UNCHANGED calls
    BY <1>2, <2>2 DEF calls
  <2> QED BY <1>19, <2>1, <2>2 DEF FixReturns, StopWaiting
<1>20. CASE Die
  BY <1>4, <1>20 DEF Die
<1>21. CASE Resume
  BY <1>2, <1>21 DEF Resume, calls
<1>22. CASE UNCHANGED vars
  BY <1>1, <1>22 DEF vars, calls, ProcessInv, NoneOutlivesItsCall
<1> QED
  BY <1>5, <1>6, <1>7, <1>9, <1>10, <1>11, <1>12, <1>13, <1>14, <1>15, <1>16, <1>17, <1>18,
     <1>19, <1>20, <1>21, <1>22
  DEF Next, ProviderSteps, HarnessSteps, Faults

(***************************************************************************)
(* The theorems.                                                           *)
(***************************************************************************)
\* However providers print, edit, hang, end in the moment they are stopped or are lost sight of,
\* none runs on when its call is over (_launch).
THEOREM NoneOutlivesCorrect == Spec => []NoneOutlivesItsCall
<1>1. Init => ProcessInv
  BY DEF Init, NoChild, ProcessInv, NoneOutlivesItsCall
<1>2. ProcessInv => NoneOutlivesItsCall
  BY DEF ProcessInv
<1> QED BY <1>1, <1>2, ProcessStep, PTL DEF Spec

\* The hypothesis of the next two theorems is about the checkout the person left: see Ordinary.
\* Whatever providers edit, delete, stage and commit, in whatever order with rollbacks, deaths
\* and resumes, a rollback that reports success has put the files back to the person's bytes
\* (restore_repository_to_baseline).
THEOREM RollbackCorrect == Spec /\ Ordinary(start) => RollbackIsExact
<1> DEFINE Exact == (at \in {"judge", "fixing"} /\ at' \in {"attempt", "failed"}) => Same(tree', start)
<1>1. ASSUME Inv, [Next]_vars PROVE [Exact]_vars
  <2> SUFFICES ASSUME Next, at \in {"judge", "fixing"}, at' \in {"attempt", "failed"}
               PROVE  Same(tree', start)
    BY <1>1
  <2>1. TreeInv /\ DeltaInv
    BY <1>1 DEF Inv
  <2>2. HandOver \/ Fail \/ FixReturns
    BY Zenon DEF Next, ProviderSteps, HarnessSteps, Faults, Work, Straggle, Prints, Ends, Resume,
       FixWaits, Accept, LocalReturns, AttemptReturns, Poll, Promote, Launch, NotInstalled,
       InferLocally, Choose, ObserverFails, Die, Fix, Judge, Return
  <2>3. CASE HandOver \/ Fail
    <3>1. PICK back \in Restore(tree, base, run.delta): tree' = back.tree /\ back.ok
      BY <2>3 DEF HandOver, Fail
    <3>2. at = "judge"
      BY <2>3 DEF HandOver, Fail, Terminal
    <3> QED BY <2>1, <3>1, <3>2, JudgedRollback
  <2>4. CASE FixReturns
    <3>1. PICK scoped \in ScopedTree: \E back \in Restore(scoped, base, Delta(scoped, base)):
            tree' = back.tree /\ back.ok
      BY <2>4 DEF FixReturns, FixEnds
    <3> QED BY <2>1, <3>1, FixRollback
  <2> QED BY <2>2, <2>3, <2>4
<1> QED BY <1>1, InvInit, InvStep, PTL DEF Spec, RollbackIsExact

\* The attempts are, step by step, what module AttemptLoop says of them: no provider twice, each
\* on a clean checkout, failure undone or reported, unless a provider was lost sight of
\* (_run_governed_loop).
THEOREM LoopStepsCorrect == Spec /\ Ordinary(start) => Loop!Init /\ [][Loop!Next]_(Loop!vars)
<1>1. Init => Loop!Init
  <2> SUFFICES ASSUME Init PROVE Loop!Init
    OBVIOUS
  <2>1. at = "attempt" /\ run = Fresh /\ faults = 0 /\ Same(tree, start)
    BY DEF Init, Same
  <2>2. run.tried = {} /\ run.n = 1
    BY <2>1 DEF Fresh
  <2> QED BY <2>1, <2>2, CleanIsBoolean DEF Loop!Init, Clean
<1>2. Inv /\ [Next]_vars => [Loop!Next]_(Loop!vars)
  BY StepImplements
<1> QED BY <1>1, <1>2, InvInit, InvStep, PTL DEF Spec

-----------------------------------------------------------------------------
(***************************************************************************)
(* The readiness cache, for any agents, folders, models and vendor rules,  *)
(* and any number of sessions and preparations beside the doctor: the      *)
(* record at rest is what was last observed, what the doctor's smokes met  *)
(* is what it saves, and its report goes by the last answers of the CLIs.  *)
(***************************************************************************)

Mechanisms == {"plain", "flag"}
Places == {"idle", "load", "save", "smoking", "prepare", "verify", "clear", "record", "report"}
Reports == [agent : Agents, folder : Workspaces, kind : Kinds, mech : Mechanisms]
Visits == [agent : {"none"}, folder : Workspaces, due : SUBSET Agents, age : Nat,
           answered : SUBSET Agents, able : SUBSET Agents]
Scopes == [agent : {"none"}, todo : SUBSET (Agents \X Folders)]
          \cup [agent : Agents, folder : Folders, todo : SUBSET (Agents \X Folders)]

CopiesTyped ==
    /\ cache \in [Agents -> Records]
    /\ seen \in [Agents -> Records]
    /\ copy \in [Writers -> [Agents -> Records]]
WritersTyped ==
    /\ pc \in [Writers -> Places]
    /\ job \in [Writers -> {NoJob} \cup Reports \cup Visits \cup Scopes]
    /\ \A s \in Sessions : pc[s] = "load" => job[s] \in Reports
    /\ pc[Doctor] \in {"smoking", "report"} => job[Doctor] \in Visits
    /\ pc[Preparer] \in {"prepare", "verify", "clear"} => job[Preparer] \in Scopes
    /\ pc[Preparer] = "verify" => job[Preparer].agent \in Agents /\ job[Preparer].folder \in Folders
ReadinessTypeOK == CopiesTyped /\ WritersTyped

\* A writer that holds the only copy, and whom no save has overtaken, has the
\* history in hand.
BehindHold == \A w \in behind : w \in Writers /\ Holding(w)
Alone(w) == \A v \in Writers : Holding(v) => v = w
LoneCopyIsCurrent ==
    \A w \in Writers : Holding(w) /\ w \notin behind /\ Alone(w) => copy[w] = seen
ReadinessInv == BehindHold /\ LoneCopyIsCurrent /\ RecordMatchesObservations

----------------------------------------------------------------------------
(* The evidence operators.                                                   *)

LEMMA NoEvidenceTyped == NoEvidence \in Records /\ NoCopy \in [Agents -> Records]
<1>1. NoEvidence \in Records
  BY BoundAssumption DEF NoEvidence, Records
<1> QED BY <1>1 DEF NoCopy

\* What is recorded is what was shown.
LEMMA ObservedIsShown ==
  ASSUME NEW rec \in Records, NEW kind \in Kinds, NEW f \in Workspaces,
         NEW mech \in Mechanisms, NEW fresh \in 0..Window
  PROVE  /\ Observed(rec, kind, f, mech, fresh) = Shown(rec, kind, f, mech, fresh, FALSE)
         /\ Observed(rec, kind, f, mech, fresh) \in Records
<1> DEFINE M == Models \cup {Any}
<1>0. /\ rec = [refusal |-> rec.refusal, limit |-> rec.limit,
                loggedOut |-> rec.loggedOut, interactive |-> rec.interactive]
      /\ rec.refusal \in [Workspaces -> {"none", "plain", "flag"}]
      /\ rec.limit \in [M -> 0..Window]
      /\ rec.loggedOut \in 0..Window /\ rec.interactive \in 0..Window
  BY DEF Records
<1>1. kind.type \in {"ok", "trust", "denied", "auth", "limit"} /\ kind.model \in M
  BY DEF Kinds
<1>2. 0 \in 0..Window
  BY BoundAssumption
<1>a. kind.type = "ok" => Observed(rec, kind, f, mech, fresh) = [rec EXCEPT !.interactive = 0]
  BY DEF Observed
<1>b. kind.type = "denied" => Observed(rec, kind, f, mech, fresh) = [rec EXCEPT !.interactive = fresh]
  BY DEF Observed
<1>c. kind.type = "auth" => Observed(rec, kind, f, mech, fresh) = [rec EXCEPT !.loggedOut = fresh]
  BY DEF Observed
<1>d. kind.type = "trust" => Observed(rec, kind, f, mech, fresh) = [rec EXCEPT !.refusal[f] = mech]
  BY DEF Observed
<1>e. kind.type = "limit" => Observed(rec, kind, f, mech, fresh) = [rec EXCEPT !.limit[kind.model] = fresh]
  BY DEF Observed, Limits
<1>3. CASE kind.type \in {"ok", "denied", "auth"}
  <2>1. rec.refusal = [g \in Workspaces |-> rec.refusal[g]] /\ rec.limit = [m \in M |-> rec.limit[m]]
    BY <1>0
  <2> QED BY <1>0, <1>1, <1>2, <1>3, <1>a, <1>b, <1>c, <2>1 DEF Shown, Records
<1>4. CASE kind.type = "trust"
  <2>1. rec.limit = [m \in M |-> rec.limit[m]]
    BY <1>0
  <2>2. [rec.refusal EXCEPT ![f] = mech] = [g \in Workspaces |-> IF g # f THEN rec.refusal[g] ELSE mech]
    BY <1>0
  <2>3. [rec.refusal EXCEPT ![f] = mech] \in [Workspaces -> {"none", "plain", "flag"}]
    BY <1>0 DEF Mechanisms
  <2> QED BY <1>0, <1>1, <1>2, <1>4, <1>d, <2>1, <2>2, <2>3 DEF Shown, Records
<1>5. CASE kind.type = "limit"
  <2>1. rec.refusal = [g \in Workspaces |-> rec.refusal[g]]
    BY <1>0
  <2>2. [rec.limit EXCEPT ![kind.model] = fresh]
        = [m \in M |-> IF kind.model = m THEN fresh ELSE rec.limit[m]]
    BY <1>0, <1>1
  <2>3. [rec.limit EXCEPT ![kind.model] = fresh] \in [M -> 0..Window]
    BY <1>0, <1>1
  <2> QED BY <1>0, <1>1, <1>2, <1>5, <1>e, <2>1, <2>2, <2>3 DEF Shown, Records
<1> QED BY <1>1, <1>3, <1>4, <1>5

LEMMA SmokedIsShown ==
  ASSUME NEW rec \in Records, NEW kind \in Kinds, NEW f \in Workspaces,
         NEW mech \in Mechanisms, NEW fresh \in 0..Window
  PROVE  /\ Smoked(rec, kind, f, mech, fresh) = Shown(rec, kind, f, mech, fresh, TRUE)
         /\ Smoked(rec, kind, f, mech, fresh) \in Records
<1> DEFINE M == Models \cup {Any}
<1>0. /\ rec = [refusal |-> rec.refusal, limit |-> rec.limit,
                loggedOut |-> rec.loggedOut, interactive |-> rec.interactive]
      /\ rec.refusal \in [Workspaces -> {"none", "plain", "flag"}]
      /\ rec.limit \in [M -> 0..Window]
      /\ rec.loggedOut \in 0..Window /\ rec.interactive \in 0..Window
  BY DEF Records
<1>1. kind.type \in {"ok", "trust", "denied", "auth", "limit"} /\ kind.model \in M
  BY DEF Kinds
<1>2. rec.refusal = [g \in Workspaces |-> rec.refusal[g]] /\ rec.limit = [m \in M |-> rec.limit[m]]
  BY <1>0
<1>3. CASE kind.type = "ok"
  <2>1. Observed(rec, kind, f, mech, fresh) = [rec EXCEPT !.interactive = 0]
    BY <1>3 DEF Observed
  <2>2. Smoked(rec, kind, f, mech, fresh) = [[rec EXCEPT !.interactive = 0] EXCEPT !.refusal[f] = "none"]
    BY <1>3, <2>1 DEF Smoked
  <2>3. [rec.refusal EXCEPT ![f] = "none"] = [g \in Workspaces |-> IF g # f THEN rec.refusal[g] ELSE "none"]
    BY <1>0
  <2>4. [rec.refusal EXCEPT ![f] = "none"] \in [Workspaces -> {"none", "plain", "flag"}]
    BY <1>0
  <2>5. 0 \in 0..Window
    BY BoundAssumption
  <2> QED BY <1>0, <1>2, <1>3, <2>2, <2>3, <2>4, <2>5 DEF Shown, Records
<1>4. CASE kind.type = "denied"
  <2>1. Smoked(rec, kind, f, mech, fresh) = rec
    BY <1>4 DEF Smoked
  <2> QED BY <1>0, <1>2, <1>4, <2>1 DEF Shown
<1>5. CASE kind.type \in {"trust", "auth", "limit"}
  <2>1. Smoked(rec, kind, f, mech, fresh) = Observed(rec, kind, f, mech, fresh)
    BY <1>5 DEF Smoked
  <2>2. Shown(rec, kind, f, mech, fresh, TRUE) = Shown(rec, kind, f, mech, fresh, FALSE)
    BY <1>5 DEF Shown
  <2> QED BY <2>1, <2>2, ObservedIsShown
<1> QED BY <1>1, <1>3, <1>4, <1>5

LEMMA OlderTyped ==
  ASSUME NEW rec \in Records
  PROVE  Older(rec) \in Records
<1> DEFINE M == Models \cup {Any}
<1>0. /\ rec = [refusal |-> rec.refusal, limit |-> rec.limit,
                loggedOut |-> rec.loggedOut, interactive |-> rec.interactive]
      /\ rec.refusal \in [Workspaces -> {"none", "plain", "flag"}]
      /\ rec.limit \in [M -> 0..Window]
      /\ rec.loggedOut \in 0..Window /\ rec.interactive \in 0..Window
  BY DEF Records
<1>1. \A n \in 0..Window : Less(n) \in 0..Window
  BY BoundAssumption DEF Less
<1>2. [m \in M |-> Less(rec.limit[m])] \in [M -> 0..Window]
  BY <1>0, <1>1
<1> QED BY <1>0, <1>1, <1>2 DEF Older, Records

LEMMA MechanismTyped == \A a, p : Mechanism(a, p) \in Mechanisms
BY DEF Mechanism, Mechanisms

LEMMA WritersAre ==
  /\ Doctor \in Writers /\ Preparer \in Writers /\ Sessions \subseteq Writers
  /\ Doctor \notin Sessions /\ Preparer \notin Sessions /\ Doctor # Preparer
  /\ Writers = Sessions \cup {Doctor, Preparer}
BY WriterAssumption DEF Writers, Doctor, Preparer

----------------------------------------------------------------------------
(* Type correctness.                                                         *)

LEMMA ReadinessTypeInit == ReadinessInit => ReadinessTypeOK
<1> SUFFICES ASSUME ReadinessInit PROVE ReadinessTypeOK
  OBVIOUS
<1>1. CopiesTyped
  BY NoEvidenceTyped DEF ReadinessInit, CopiesTyped
<1>2. WritersTyped
  BY WritersAre DEF ReadinessInit, WritersTyped, Places
<1> QED BY <1>1, <1>2 DEF ReadinessTypeOK

\* A writer's step changes its own place and job, and leaves them typed.
Moves(w) ==
    /\ \E p \in Places : pc' = [pc EXCEPT ![w] = p]
    /\ \E j \in {NoJob} \cup Reports \cup Visits \cup Scopes : job' = [job EXCEPT ![w] = j]
    /\ w \in Sessions /\ pc'[w] = "load" => job'[w] \in Reports
    /\ w = Doctor /\ pc'[w] \in {"smoking", "report"} => job'[w] \in Visits
    /\ w = Preparer /\ pc'[w] \in {"prepare", "verify", "clear"} => job'[w] \in Scopes
    /\ w = Preparer /\ pc'[w] = "verify" => job'[w].agent \in Agents /\ job'[w].folder \in Folders

LEMMA MovesTyped ==
  ASSUME WritersTyped, NEW w \in Writers, Moves(w)
  PROVE  WritersTyped'
BY WritersAre DEF WritersTyped, Moves

LEMMA StaysTyped ==
  ASSUME WritersTyped, UNCHANGED <<pc, job>>
  PROVE  WritersTyped'
BY DEF WritersTyped

\* The copies after a step that changes one writer's.
LEMMA CopyTyped ==
  ASSUME CopiesTyped, NEW w, NEW agents \in [Agents -> Records],
         copy' = [copy EXCEPT ![w] = agents], cache' \in [Agents -> Records],
         seen' \in [Agents -> Records]
  PROVE  CopiesTyped'
BY DEF CopiesTyped

LEMMA SavesTyped ==
  ASSUME CopiesTyped, NEW w \in Writers, NEW agents \in [Agents -> Records], Saves(w, agents) \/ SaveFails(w)
  PROVE  cache' \in [Agents -> Records] /\ seen' \in [Agents -> Records]
BY DEF CopiesTyped, Saves, SaveFails

LEMMA RoutedTyped ==
  ASSUME NEW a, NEW f, NEW mech, NEW kind \in Outcomes(a, f, mech)
  PROVE  kind \in Kinds
BY DEF Outcomes

LEMMA ReadinessTypeStep ==
  ASSUME ReadinessTypeOK, [ReadinessNext]_readinessVars
  PROVE  ReadinessTypeOK'
<1> USE WritersAre
<1>0. CopiesTyped /\ WritersTyped
  BY DEF ReadinessTypeOK
<1>a. /\ cache \in [Agents -> Records] /\ seen \in [Agents -> Records]
      /\ copy \in [Writers -> [Agents -> Records]]
  BY <1>0 DEF CopiesTyped
<1>b. /\ pc \in [Writers -> Places]
      /\ job \in [Writers -> {NoJob} \cup Reports \cup Visits \cup Scopes]
  BY <1>0 DEF WritersTyped
<1>1. ASSUME NEW s \in Sessions, Dispatch(s) PROVE ReadinessTypeOK'
  <2>1. CopiesTyped'
    BY <1>1, <1>0 DEF Dispatch, CopiesTyped
  <2>2. PICK a \in Agents, f \in Workspaces : \E kind \in Outcomes(a, f, Mechanism(a, Policy[s])) :
          job' = [job EXCEPT ![s] = [agent |-> a, folder |-> f, kind |-> kind,
                                     mech |-> Mechanism(a, Policy[s])]]
    BY <1>1, Zenon DEF Dispatch
  <2>3. PICK kind \in Kinds :
          job' = [job EXCEPT ![s] = [agent |-> a, folder |-> f, kind |-> kind,
                                     mech |-> Mechanism(a, Policy[s])]]
    BY <2>2, RoutedTyped
  <2>4. [agent |-> a, folder |-> f, kind |-> kind, mech |-> Mechanism(a, Policy[s])] \in Reports
    BY MechanismTyped DEF Reports
  <2>5. pc' = [pc EXCEPT ![s] = "load"]
    BY <1>1 DEF Dispatch
  <2>6. Moves(s)
    BY <1>b, <2>3, <2>4, <2>5 DEF Moves, Places
  <2> QED BY <1>0, <2>1, <2>6, MovesTyped DEF ReadinessTypeOK
<1>2. ASSUME NEW s \in Sessions, LoadCache(s) PROVE ReadinessTypeOK'
  <2> DEFINE j == job[s]
  <2>1. pc[s] = "load" /\ j \in Reports
    BY <1>2, <1>0 DEF LoadCache, WritersTyped
  <2>2. j.agent \in Agents /\ j.folder \in Workspaces /\ j.kind \in Kinds /\ j.mech \in Mechanisms
    BY <2>1 DEF Reports
  <2>3. Window \in 0..Window
    BY BoundAssumption
  <2>a. cache[j.agent] \in Records /\ seen[j.agent] \in Records
    BY <1>a, <2>2
  <2>4. /\ Observed(cache[j.agent], j.kind, j.folder, j.mech, Window) \in Records
        /\ Shown(seen[j.agent], j.kind, j.folder, j.mech, Window, FALSE) \in Records
    <3> HIDE DEF j
    <3>1. Observed(cache[j.agent], j.kind, j.folder, j.mech, Window) \in Records
      BY <2>2, <2>3, <2>a, ObservedIsShown
    <3>2. Shown(seen[j.agent], j.kind, j.folder, j.mech, Window, FALSE) \in Records
      <4>1. Observed(seen[j.agent], j.kind, j.folder, j.mech, Window) \in Records
        BY <2>2, <2>3, <2>a, ObservedIsShown
      <4>2. Observed(seen[j.agent], j.kind, j.folder, j.mech, Window)
            = Shown(seen[j.agent], j.kind, j.folder, j.mech, Window, FALSE)
        BY <2>2, <2>3, <2>a, ObservedIsShown
      <4> QED BY <4>1, <4>2
    <3> QED BY <3>1, <3>2
  <2>5. /\ copy' = [copy EXCEPT ![s] = [cache EXCEPT ![j.agent] = Observed(cache[j.agent], j.kind, j.folder, j.mech, Window)]]
        /\ seen' = [seen EXCEPT ![j.agent] = Shown(seen[j.agent], j.kind, j.folder, j.mech, Window, FALSE)]
        /\ cache' = cache /\ pc' = [pc EXCEPT ![s] = "save"] /\ job' = [job EXCEPT ![s] = NoJob]
    BY <1>2 DEF LoadCache
  <2>6. CopiesTyped'
    <3> HIDE DEF j
    <3>1. /\ [cache EXCEPT ![j.agent] = Observed(cache[j.agent], j.kind, j.folder, j.mech, Window)] \in [Agents -> Records]
          /\ seen' \in [Agents -> Records]
      BY <1>a, <2>2, <2>4, <2>5
    <3> QED BY <1>0, <1>a, <2>5, <3>1, CopyTyped
  <2>7. Moves(s)
    BY <1>b, <2>5 DEF Moves, Places
  <2> QED BY <1>0, <2>6, <2>7, MovesTyped DEF ReadinessTypeOK
<1>3. ASSUME NEW s \in Sessions, Save(s) PROVE ReadinessTypeOK'
  <2>1. Saves(s, copy[s]) \/ SaveFails(s)
    BY <1>3 DEF Save
  <2>2. /\ copy' = [copy EXCEPT ![s] = NoCopy]
        /\ pc' = [pc EXCEPT ![s] = "idle"] /\ job' = job
    BY <1>3 DEF Save
  <2>3. CopiesTyped'
    BY <1>0, <1>a, <2>1, <2>2, SavesTyped, CopyTyped, NoEvidenceTyped
  <2>4. job' = [job EXCEPT ![s] = job[s]]
    BY <1>b, <2>2
  <2>5. Moves(s)
    BY <1>b, <2>2, <2>4 DEF Moves, Places
  <2> QED BY <1>0, <2>3, <2>5, MovesTyped DEF ReadinessTypeOK
<1>4. CASE Examine
  <2>1. PICK probed \in SUBSET Agents, out \in SUBSET Agents :
          copy' = [copy EXCEPT ![Doctor] = Probed(cache, probed, out)] /\ seen' = Probed(seen, probed, out)
    BY <1>4 DEF Examine
  <2>2. ASSUME NEW agents \in [Agents -> Records] PROVE Probed(agents, probed, out) \in [Agents -> Records]
    <3>1. 0 \in 0..Window /\ Window \in 0..Window
      BY BoundAssumption
    <3> QED BY <3>1 DEF Probed, Records
  <2>3. CopiesTyped'
    <3>1. cache' = cache
      BY <1>4 DEF Examine
    <3> QED BY <1>0, <1>a, <2>1, <2>2, <3>1, CopyTyped
  <2>4. PICK f \in Workspaces, due \in SUBSET Agents :
          job' = [job EXCEPT ![Doctor] = [agent |-> "none", folder |-> f, due |-> due, age |-> 0,
                                          answered |-> {}, able |-> {}]]
    BY <1>4 DEF Examine
  <2>5. [agent |-> "none", folder |-> f, due |-> due, age |-> 0,
         answered |-> {}, able |-> {}] \in Visits
    BY DEF Visits
  <2>6. pc' = [pc EXCEPT ![Doctor] = "smoking"]
    BY <1>4 DEF Examine
  <2>7. Moves(Doctor)
    BY <1>b, <2>4, <2>5, <2>6 DEF Moves, Places
  <2> QED BY <1>0, <2>3, <2>7, MovesTyped DEF ReadinessTypeOK
<1>5. CASE RunSmoke
  <2> DEFINE f == job[Doctor].folder
             fresh == IF job[Doctor].age >= Window THEN 0 ELSE Window - job[Doctor].age
  <2>1. job[Doctor] \in Visits /\ pc' = pc /\ cache' = cache
    BY <1>5, <1>0 DEF RunSmoke, WritersTyped
  <2>2. f \in Workspaces /\ fresh \in 0..Window /\ job[Doctor].due \in SUBSET Agents
    BY <2>1, BoundAssumption DEF Visits
  <2>3. PICK a \in job[Doctor].due : \E kind \in Outcomes(a, f, Mechanism(a, Policy[Doctor])) :
          /\ copy' = [copy EXCEPT ![Doctor][a] = Smoked(@, kind, f, Mechanism(a, Policy[Doctor]), fresh)]
          /\ seen' = [seen EXCEPT ![a] = Shown(@, kind, f, Mechanism(a, Policy[Doctor]), fresh, TRUE)]
          /\ job' = [job EXCEPT ![Doctor].due = @ \ {a}, ![Doctor].answered = @ \cup {a}]
    BY <1>5, Zenon DEF RunSmoke
  <2> DEFINE mech == Mechanism(a, Policy[Doctor])
  <2>4. PICK kind \in Kinds :
          /\ copy' = [copy EXCEPT ![Doctor][a] = Smoked(@, kind, f, mech, fresh)]
          /\ seen' = [seen EXCEPT ![a] = Shown(@, kind, f, mech, fresh, TRUE)]
          /\ job' = [job EXCEPT ![Doctor].due = @ \ {a}, ![Doctor].answered = @ \cup {a}]
    BY <2>3, RoutedTyped
  <2>5. a \in Agents /\ mech \in Mechanisms
    BY <2>2, MechanismTyped
  <2>6. /\ Smoked(copy[Doctor][a], kind, f, mech, fresh) \in Records
        /\ Shown(seen[a], kind, f, mech, fresh, TRUE) \in Records
    <3> HIDE DEF f, fresh, mech
    <3>1. copy[Doctor][a] \in Records /\ seen[a] \in Records
      BY <1>a, <2>5
    <3>2. Smoked(copy[Doctor][a], kind, f, mech, fresh) \in Records
      BY <2>2, <2>5, <3>1, SmokedIsShown
    <3>3. Shown(seen[a], kind, f, mech, fresh, TRUE) = Smoked(seen[a], kind, f, mech, fresh)
      BY <2>2, <2>5, <3>1, SmokedIsShown
    <3>4. Smoked(seen[a], kind, f, mech, fresh) \in Records
      BY <2>2, <2>5, <3>1, SmokedIsShown
    <3> QED BY <3>2, <3>3, <3>4
  <2>7. CopiesTyped'
    <3> HIDE DEF f, fresh, mech
    <3>1. copy' = [copy EXCEPT ![Doctor] = [copy[Doctor] EXCEPT ![a] = Smoked(copy[Doctor][a], kind, f, mech, fresh)]]
      BY <1>a, <2>4
    <3>2. [copy[Doctor] EXCEPT ![a] = Smoked(copy[Doctor][a], kind, f, mech, fresh)] \in [Agents -> Records]
      BY <1>a, <2>5, <2>6
    <3>3. seen' \in [Agents -> Records]
      BY <1>a, <2>4, <2>5, <2>6
    <3> QED BY <1>0, <1>a, <2>1, <3>1, <3>2, <3>3, CopyTyped
  <2>8. Moves(Doctor)
    <3>1. pc' = [pc EXCEPT ![Doctor] = pc[Doctor]] /\ pc[Doctor] \in Places
      BY <1>b, <2>1
    <3>2. job' = [job EXCEPT ![Doctor] = [job[Doctor] EXCEPT !.due = @ \ {a}, !.answered = @ \cup {a}]]
      BY <1>b, <2>4
    <3>3. [job[Doctor] EXCEPT !.due = @ \ {a}, !.answered = @ \cup {a}] \in Visits
      BY <2>1, <2>5 DEF Visits
    <3> QED BY <1>b, <3>1, <3>2, <3>3 DEF Moves
  <2> QED BY <1>0, <2>7, <2>8, MovesTyped DEF ReadinessTypeOK
<1>6. CASE SaveReport
  <2>1. Saves(Doctor, copy[Doctor])
    BY <1>6 DEF SaveReport
  <2>2. /\ copy' = [copy EXCEPT ![Doctor] = NoCopy]
        /\ pc' = [pc EXCEPT ![Doctor] = "report"]
        /\ job' = [job EXCEPT ![Doctor] = [job[Doctor] EXCEPT !.able = Able(copy[Doctor])]]
    BY <1>b, <1>6 DEF SaveReport
  <2>3. CopiesTyped'
    BY <1>0, <1>a, <2>1, <2>2, SavesTyped, CopyTyped, NoEvidenceTyped
  <2>4. job[Doctor] \in Visits /\ Able(copy[Doctor]) \in SUBSET Agents
    BY <1>0, <1>6 DEF SaveReport, WritersTyped, Able
  <2>5. [job[Doctor] EXCEPT !.able = Able(copy[Doctor])] \in Visits
    BY <2>4 DEF Visits
  <2>6. Moves(Doctor)
    BY <1>b, <2>2, <2>5 DEF Moves, Places
  <2> QED BY <1>0, <2>3, <2>6, MovesTyped DEF ReadinessTypeOK
<1>7. CASE Authorize
  <2>1. CopiesTyped'
    BY <1>7, <1>0 DEF Authorize, CopiesTyped
  <2>2. ScopePlan \in SUBSET (Agents \X Folders)
    BY DEF ScopePlan
  <2>3. [agent |-> "none", todo |-> ScopePlan] \in Scopes
    BY <2>2 DEF Scopes
  <2>4. /\ pc' = [pc EXCEPT ![Preparer] = "prepare"]
        /\ job' = [job EXCEPT ![Preparer] = [agent |-> "none", todo |-> ScopePlan]]
    BY <1>7 DEF Authorize
  <2>5. Moves(Preparer)
    BY <1>b, <2>3, <2>4 DEF Moves, Places
  <2> QED BY <1>0, <2>1, <2>5, MovesTyped DEF ReadinessTypeOK
<1>8. CASE Prepare
  <2>1. CopiesTyped'
    BY <1>8, <1>0 DEF Prepare, CopiesTyped
  <2>2. job[Preparer] \in Scopes
    BY <1>8, <1>0 DEF Prepare, WritersTyped
  <2>3. job[Preparer].todo \in SUBSET (Agents \X Folders)
    BY <2>2 DEF Scopes
  <2>4. PICK a \in Agents, f \in Folders :
          \/ /\ pc' = [pc EXCEPT ![Preparer] = "idle"]
             /\ job' = [job EXCEPT ![Preparer] = NoJob]
          \/ /\ job' = [job EXCEPT ![Preparer] = [agent |-> a, folder |-> f, todo |-> @.todo \ {<<a, f>>}]]
             /\ pc' = [pc EXCEPT ![Preparer] = IF Check(a, f, store') = "READY" THEN "verify" ELSE "prepare"]
    BY <1>8, Zenon DEF Prepare
  <2>5. Moves(Preparer)
    <3>1. CASE /\ pc' = [pc EXCEPT ![Preparer] = "idle"]
               /\ job' = [job EXCEPT ![Preparer] = NoJob]
      BY <1>b, <3>1 DEF Moves, Places
    <3>2. CASE /\ job' = [job EXCEPT ![Preparer] = [agent |-> a, folder |-> f, todo |-> @.todo \ {<<a, f>>}]]
               /\ pc' = [pc EXCEPT ![Preparer] = IF Check(a, f, store') = "READY" THEN "verify" ELSE "prepare"]
      <4>1. PICK p \in {"verify", "prepare"} : pc' = [pc EXCEPT ![Preparer] = p]
        BY <3>2
      <4>2. [agent |-> a, folder |-> f, todo |-> job[Preparer].todo \ {<<a, f>>}] \in Scopes
        BY <2>3 DEF Scopes
      <4>3. /\ job' = [job EXCEPT ![Preparer] = [agent |-> a, folder |-> f, todo |-> job[Preparer].todo \ {<<a, f>>}]]
            /\ job'[Preparer].agent = a /\ job'[Preparer].folder = f
            /\ job'[Preparer] \in Scopes
        BY <1>b, <3>2, <4>2
      <4>4. p \in Places
        BY DEF Places
      <4>5. pc'[Preparer] = p
        BY <1>b, <4>1
      <4> QED BY <4>1, <4>2, <4>3, <4>4, <4>5 DEF Moves
    <3> QED BY <2>4, <3>1, <3>2
  <2> QED BY <1>0, <2>1, <2>5, MovesTyped DEF ReadinessTypeOK
<1>9. CASE Verify
  <2> DEFINE a == job[Preparer].agent
             f == job[Preparer].folder
  <2>1. /\ job[Preparer] \in Scopes /\ a \in Agents /\ f \in Folders
        /\ job' = job /\ cache' = cache
    BY <1>9, <1>0 DEF Verify, WritersTyped
  <2>2. \/ /\ pc' = [pc EXCEPT ![Preparer] = "prepare"] /\ UNCHANGED <<copy, seen>>
        \/ /\ f \in Workspaces
           /\ copy' = [copy EXCEPT ![Preparer] = [cache EXCEPT ![a].refusal[f] = "none"]]
           /\ seen' = [seen EXCEPT ![a].refusal[f] = "none"]
           /\ pc' = [pc EXCEPT ![Preparer] = "clear"]
    BY <1>9 DEF Verify
  <2> HIDE DEF a, f
  <2>3. ASSUME NEW agents \in [Agents -> Records], f \in Workspaces
        PROVE  [agents EXCEPT ![a].refusal[f] = "none"] \in [Agents -> Records]
    <3>1. agents[a] \in Records
      BY <2>1
    <3>2. [agents[a] EXCEPT !.refusal[f] = "none"] \in Records
      BY <2>3, <3>1 DEF Records
    <3> QED BY <2>1, <3>2
  <2>4. CopiesTyped'
    <3>1. CASE UNCHANGED <<copy, seen>>
      BY <1>0, <2>1, <3>1 DEF CopiesTyped
    <3>2. CASE /\ f \in Workspaces
               /\ copy' = [copy EXCEPT ![Preparer] = [cache EXCEPT ![a].refusal[f] = "none"]]
               /\ seen' = [seen EXCEPT ![a].refusal[f] = "none"]
      <4>1. /\ [cache EXCEPT ![a].refusal[f] = "none"] \in [Agents -> Records]
            /\ [seen EXCEPT ![a].refusal[f] = "none"] \in [Agents -> Records]
        BY <1>a, <2>3, <3>2
      <4> QED BY <1>0, <1>a, <2>1, <3>2, <4>1, CopyTyped
    <3> QED BY <2>2, <3>1, <3>2
  <2>5. job' = [job EXCEPT ![Preparer] = job[Preparer]] /\ job'[Preparer] = job[Preparer]
    BY <1>b, <2>1
  <2>6. PICK p \in {"prepare", "clear"} : pc' = [pc EXCEPT ![Preparer] = p]
    BY <2>2
  <2>7. p \in Places /\ pc'[Preparer] = p /\ p # "verify"
    BY <1>b, <2>6 DEF Places
  <2>8. Moves(Preparer)
    BY <2>1, <2>5, <2>6, <2>7 DEF Moves
  <2> QED BY <1>0, <2>4, <2>8, MovesTyped DEF ReadinessTypeOK
<1>10. CASE ClearRefusal
  <2>1. Saves(Preparer, copy[Preparer]) \/ SaveFails(Preparer)
    BY <1>10 DEF ClearRefusal
  <2>2. /\ copy' = [copy EXCEPT ![Preparer] = NoCopy]
        /\ pc' = [pc EXCEPT ![Preparer] = "prepare"] /\ job' = job
        /\ job[Preparer] \in Scopes
    BY <1>10, <1>0 DEF ClearRefusal, WritersTyped
  <2>3. CopiesTyped'
    BY <1>0, <1>a, <2>1, <2>2, SavesTyped, CopyTyped, NoEvidenceTyped
  <2>4. job' = [job EXCEPT ![Preparer] = job[Preparer]] /\ job'[Preparer] = job[Preparer]
    BY <1>b, <2>2
  <2>5. Moves(Preparer)
    BY <1>b, <2>2, <2>4 DEF Moves, Places
  <2> QED BY <1>0, <2>3, <2>5, MovesTyped DEF ReadinessTypeOK
<1>11. CASE LoadPrepared
  <2>1. CopiesTyped'
    BY <1>11, <1>0 DEF LoadPrepared, CopiesTyped
  <2>2. PICK p \in {"idle", "record"} : pc' = [pc EXCEPT ![Preparer] = p]
    BY <1>11 DEF LoadPrepared
  <2>3. Moves(Preparer)
    BY <1>b, <1>11, <2>2 DEF LoadPrepared, Moves, Places
  <2> QED BY <1>0, <2>1, <2>3, MovesTyped DEF ReadinessTypeOK
<1>12. CASE SavePrepared
  <2>1. CopiesTyped'
    BY <1>12, <1>0 DEF SavePrepared, CopiesTyped
  <2>2. pc' = [pc EXCEPT ![Preparer] = "idle"] /\ job' = [job EXCEPT ![Preparer] = job[Preparer]]
    BY <1>b, <1>12 DEF SavePrepared
  <2>3. Moves(Preparer)
    BY <1>b, <2>2 DEF Moves, Places
  <2> QED BY <1>0, <2>1, <2>3, MovesTyped DEF ReadinessTypeOK
<1>13. CASE Revoke
  BY <1>13, <1>0, StaysTyped DEF Revoke, CopiesTyped, ReadinessTypeOK
<1>14. CASE Tick
  <2>1. CopiesTyped'
    BY <1>a, <1>14, OlderTyped DEF Tick, CopiesTyped
  <2>2. CASE pc[Doctor] = "smoking" /\ job[Doctor].age < Window
    <3>1. /\ pc' = [pc EXCEPT ![Doctor] = pc[Doctor]] /\ pc[Doctor] \in Places
          /\ job' = [job EXCEPT ![Doctor] = [job[Doctor] EXCEPT !.age = @ + 1]]
      BY <1>b, <1>14, <2>2 DEF Tick
    <3>2. job[Doctor] \in Visits
      BY <1>0, <2>2 DEF WritersTyped
    <3>3. [job[Doctor] EXCEPT !.age = @ + 1] \in Visits
      BY <3>2 DEF Visits
    <3>4. Moves(Doctor)
      BY <1>b, <3>1, <3>3 DEF Moves
    <3> QED BY <1>0, <2>1, <3>4, MovesTyped DEF ReadinessTypeOK
  <2>3. CASE ~(pc[Doctor] = "smoking" /\ job[Doctor].age < Window)
    <3>1. UNCHANGED <<pc, job>>
      BY <1>14, <2>3 DEF Tick
    <3> QED BY <1>0, <2>1, <3>1, StaysTyped DEF ReadinessTypeOK
  <2> QED BY <2>2, <2>3
<1>15. CASE UNCHANGED readinessVars
  BY <1>15, <1>0, StaysTyped DEF readinessVars, CopiesTyped, ReadinessTypeOK
<1>16. ASSUME NEW s \in Sessions, ListModels(s) PROVE ReadinessTypeOK'
  <2>1. /\ copy' = [copy EXCEPT ![s] = cache] /\ cache' = cache /\ seen' = seen
        /\ pc' = [pc EXCEPT ![s] = "save"] /\ job' = [job EXCEPT ![s] = job[s]]
    BY <1>b, <1>16 DEF ListModels
  <2>2. CopiesTyped'
    BY <1>0, <1>a, <2>1, CopyTyped
  <2>3. Moves(s)
    BY <1>b, <2>1 DEF Moves, Places
  <2> QED BY <1>0, <2>2, <2>3, MovesTyped DEF ReadinessTypeOK
<1>17. CASE Report
  <2>1. CopiesTyped'
    BY <1>17, <1>0 DEF Report, CopiesTyped
  <2>2. Moves(Doctor)
    BY <1>b, <1>17 DEF Report, Moves, Places
  <2> QED BY <1>0, <2>1, <2>2, MovesTyped DEF ReadinessTypeOK
<1> QED BY <1>1, <1>2, <1>3, <1>4, <1>5, <1>6, <1>7, <1>8, <1>9, <1>10, <1>11, <1>12,
           <1>13, <1>14, <1>15, <1>16, <1>17 DEF ReadinessNext

----------------------------------------------------------------------------
(* The record matches what was observed.                                     *)

LEMMA ReadinessInvInit == ReadinessInit => ReadinessInv
<1> SUFFICES ASSUME ReadinessInit PROVE ReadinessInv
  OBVIOUS
<1>1. \A w \in Writers : ~Holding(w)
  BY DEF ReadinessInit, Holding
<1> QED BY <1>1 DEF ReadinessInit, ReadinessInv, BehindHold, LoneCopyIsCurrent, RecordMatchesObservations

\* Nothing the invariant speaks of changes.
Untouched ==
    /\ UNCHANGED <<cache, seen, copy, behind>>
    /\ \A v \in Writers : Holding(v)' <=> Holding(v)

LEMMA UntouchedKeeps ==
  ASSUME ReadinessInv, Untouched
  PROVE  ReadinessInv'
BY DEF ReadinessInv, BehindHold, LoneCopyIsCurrent, Alone, RecordMatchesObservations, Settled, Untouched

\* A writer takes a copy; were it the only one, it would take the history itself.
Takes(w) ==
    /\ ~Holding(w) /\ Holding(w)'
    /\ \A v \in Writers \ {w} : Holding(v)' <=> Holding(v)
    /\ UNCHANGED <<cache, behind>>
    /\ cache = seen => copy'[w] = seen'

LEMMA TakesKeeps ==
  ASSUME ReadinessInv, NEW w \in Writers, Takes(w)
  PROVE  ReadinessInv'
<1>1. BehindHold'
  BY DEF ReadinessInv, BehindHold, Takes
<1>2. RecordMatchesObservations'
  BY DEF RecordMatchesObservations, Settled, Takes
<1>3. ASSUME NEW v \in Writers, Holding(v)', v \notin behind', Alone(v)'
      PROVE  (copy[v] = seen)'
  <2>1. v = w
    BY <1>3 DEF Alone, Takes
  <2>2. Settled
    BY <1>3, <2>1 DEF Alone, Settled, Takes
  <2>3. cache = seen
    BY <2>2 DEF ReadinessInv, RecordMatchesObservations
  <2> QED BY <2>1, <2>3 DEF Takes
<1> QED BY <1>1, <1>2, <1>3 DEF ReadinessInv, LoneCopyIsCurrent

\* A writer that holds a copy saves it, or fails to.
LEMMA ReleasesKeeps ==
  ASSUME ReadinessInv, NEW w \in Writers, Saves(w, copy[w]) \/ SaveFails(w),
         Holding(w), ~Holding(w)',
         \A v \in Writers \ {w} : Holding(v)' <=> Holding(v)
  PROVE  ReadinessInv'
<1>1. behind' = (behind \cup {v \in Writers : Holding(v)}) \ {w}
  BY DEF Saves, SaveFails
<1>2. BehindHold'
  BY <1>1 DEF ReadinessInv, BehindHold
<1>3. ASSUME Settled' PROVE cache' = seen'
  <2>1. Alone(w)
    BY <1>3 DEF Alone, Settled
  <2>2. CASE w \in behind
    BY <2>2 DEF Saves, SaveFails
  <2>3. CASE w \notin behind
    <3>1. copy[w] = seen
      BY <2>1, <2>3 DEF ReadinessInv, LoneCopyIsCurrent
    <3> QED BY <2>3, <3>1 DEF Saves, SaveFails
  <2> QED BY <2>2, <2>3
<1>4. ASSUME NEW v \in Writers, Holding(v)' PROVE v \in behind'
  BY <1>1, <1>4
<1> QED BY <1>2, <1>3, <1>4 DEF ReadinessInv, LoneCopyIsCurrent, RecordMatchesObservations

\* A writer that holds a copy changes it as the history changes.
Revises(w) ==
    /\ Holding(w)
    /\ \A v \in Writers : Holding(v)' <=> Holding(v)
    /\ UNCHANGED behind
    /\ copy[w] = seen => copy'[w] = seen'

LEMMA RevisesKeeps ==
  ASSUME ReadinessInv, NEW w \in Writers, Revises(w)
  PROVE  ReadinessInv'
<1>1. BehindHold'
  BY DEF ReadinessInv, BehindHold, Revises
<1>2. ~Settled'
  BY DEF Settled, Revises
<1>3. ASSUME NEW v \in Writers, Holding(v)', v \notin behind', Alone(v)'
      PROVE  (copy[v] = seen)'
  <2>1. v = w /\ w \notin behind /\ Alone(w)
    BY <1>3 DEF Alone, Revises
  <2> QED BY <2>1 DEF ReadinessInv, LoneCopyIsCurrent, Revises
<1> QED BY <1>1, <1>2, <1>3 DEF ReadinessInv, LoneCopyIsCurrent, RecordMatchesObservations

LEMMA HoldingMoves ==
  ASSUME NEW w \in Writers, pc \in [Writers -> Places], NEW p, pc' = [pc EXCEPT ![w] = p]
  PROVE  /\ Holding(w)' <=> p \in {"save", "smoking", "clear"}
         /\ \A v \in Writers \ {w} : Holding(v)' <=> Holding(v)
BY DEF Holding

LEMMA ReadinessInvStep ==
  ASSUME ReadinessTypeOK, ReadinessInv, [ReadinessNext]_readinessVars
  PROVE  ReadinessInv'
<1> USE WritersAre
<1>0. CopiesTyped /\ WritersTyped
  BY DEF ReadinessTypeOK
<1>a. /\ cache \in [Agents -> Records] /\ seen \in [Agents -> Records]
      /\ copy \in [Writers -> [Agents -> Records]]
  BY <1>0 DEF CopiesTyped
<1>b. pc \in [Writers -> Places]
  BY <1>0 DEF WritersTyped
<1>1. ASSUME NEW s \in Sessions, Dispatch(s) PROVE ReadinessInv'
  <2>1. pc[s] = "idle" /\ pc' = [pc EXCEPT ![s] = "load"]
    BY <1>1 DEF Dispatch
  <2>2. Untouched
    BY <1>1, <1>b, <2>1, HoldingMoves DEF Dispatch, Untouched, Holding
  <2> QED BY <2>2, UntouchedKeeps
<1>2. ASSUME NEW s \in Sessions, LoadCache(s) PROVE ReadinessInv'
  <2> DEFINE j == job[s]
  <2>1. pc[s] = "load" /\ j \in Reports /\ pc' = [pc EXCEPT ![s] = "save"]
    BY <1>2, <1>0 DEF LoadCache, WritersTyped
  <2>2. j.agent \in Agents /\ j.folder \in Workspaces /\ j.kind \in Kinds /\ j.mech \in Mechanisms
    BY <2>1 DEF Reports
  <2>3. Window \in 0..Window
    BY BoundAssumption
  <2>5. /\ copy' = [copy EXCEPT ![s] = [cache EXCEPT ![j.agent] = Observed(cache[j.agent], j.kind, j.folder, j.mech, Window)]]
        /\ seen' = [seen EXCEPT ![j.agent] = Shown(seen[j.agent], j.kind, j.folder, j.mech, Window, FALSE)]
        /\ UNCHANGED <<cache, behind>>
    BY <1>2 DEF LoadCache
  <2> HIDE DEF j
  <2>6. cache[j.agent] \in Records
    BY <1>a, <2>2
  <2>7. Observed(cache[j.agent], j.kind, j.folder, j.mech, Window)
        = Shown(cache[j.agent], j.kind, j.folder, j.mech, Window, FALSE)
    BY <2>2, <2>3, <2>6, ObservedIsShown
  <2>8. cache = seen => copy'[s] = seen'
    BY <1>a, <2>5, <2>7
  <2>9. Takes(s)
    BY <1>b, <2>1, <2>5, <2>8, HoldingMoves DEF Takes, Holding
  <2> QED BY <2>9, TakesKeeps
<1>3. ASSUME NEW s \in Sessions, Save(s) PROVE ReadinessInv'
  <2>1. pc[s] = "save" /\ pc' = [pc EXCEPT ![s] = "idle"]
    BY <1>3 DEF Save
  <2>2. Saves(s, copy[s]) \/ SaveFails(s)
    BY <1>3 DEF Save
  <2>3. Holding(s) /\ ~Holding(s)' /\ \A v \in Writers \ {s} : Holding(v)' <=> Holding(v)
    BY <1>b, <2>1, HoldingMoves DEF Holding
  <2> QED BY <2>2, <2>3, ReleasesKeeps
<1>4. CASE Examine
  <2>1. pc[Doctor] = "idle" /\ pc' = [pc EXCEPT ![Doctor] = "smoking"] /\ UNCHANGED <<cache, behind>>
    BY <1>4 DEF Examine
  <2>2. PICK probed \in SUBSET Agents, out \in SUBSET Agents :
          copy' = [copy EXCEPT ![Doctor] = Probed(cache, probed, out)] /\ seen' = Probed(seen, probed, out)
    BY <1>4 DEF Examine
  <2>3. cache = seen => copy'[Doctor] = seen'
    BY <1>a, <2>2
  <2>4. Takes(Doctor)
    BY <1>b, <2>1, <2>3, HoldingMoves DEF Takes, Holding
  <2> QED BY <2>4, TakesKeeps
<1>5. CASE RunSmoke
  <2> DEFINE f == job[Doctor].folder
             fresh == IF job[Doctor].age >= Window THEN 0 ELSE Window - job[Doctor].age
  <2>1. job[Doctor] \in Visits /\ pc' = pc /\ behind' = behind /\ pc[Doctor] = "smoking"
    BY <1>5, <1>0 DEF RunSmoke, WritersTyped
  <2>2. f \in Workspaces /\ fresh \in 0..Window /\ job[Doctor].due \in SUBSET Agents
    BY <2>1, BoundAssumption DEF Visits
  <2>3. PICK a \in job[Doctor].due : \E kind \in Outcomes(a, f, Mechanism(a, Policy[Doctor])) :
          /\ copy' = [copy EXCEPT ![Doctor][a] = Smoked(@, kind, f, Mechanism(a, Policy[Doctor]), fresh)]
          /\ seen' = [seen EXCEPT ![a] = Shown(@, kind, f, Mechanism(a, Policy[Doctor]), fresh, TRUE)]
    BY <1>5, Zenon DEF RunSmoke
  <2> DEFINE mech == Mechanism(a, Policy[Doctor])
  <2>4. PICK kind \in Kinds :
          /\ copy' = [copy EXCEPT ![Doctor][a] = Smoked(@, kind, f, mech, fresh)]
          /\ seen' = [seen EXCEPT ![a] = Shown(@, kind, f, mech, fresh, TRUE)]
    BY <2>3, RoutedTyped
  <2>5. a \in Agents /\ mech \in Mechanisms
    BY <2>2, MechanismTyped
  <2> HIDE DEF f, fresh, mech
  <2>6. copy[Doctor][a] \in Records
    BY <1>a, <2>5
  <2>7. Smoked(copy[Doctor][a], kind, f, mech, fresh) = Shown(copy[Doctor][a], kind, f, mech, fresh, TRUE)
    BY <2>2, <2>5, <2>6, SmokedIsShown
  <2>8. copy'[Doctor] = [copy[Doctor] EXCEPT ![a] = Smoked(copy[Doctor][a], kind, f, mech, fresh)]
    BY <1>a, <2>4
  <2>9. copy[Doctor] = seen => copy'[Doctor] = seen'
    BY <1>a, <2>4, <2>7, <2>8
  <2>10. Revises(Doctor)
    BY <2>1, <2>9 DEF Revises, Holding
  <2> QED BY <2>10, RevisesKeeps
<1>6. CASE SaveReport
  <2>1. pc[Doctor] = "smoking" /\ pc' = [pc EXCEPT ![Doctor] = "report"]
    BY <1>6 DEF SaveReport
  <2>2. Saves(Doctor, copy[Doctor])
    BY <1>6 DEF SaveReport
  <2>3. Holding(Doctor) /\ ~Holding(Doctor)' /\ \A v \in Writers \ {Doctor} : Holding(v)' <=> Holding(v)
    BY <1>b, <2>1, HoldingMoves DEF Holding
  <2> QED BY <2>2, <2>3, ReleasesKeeps
<1>7. CASE Authorize
  <2>1. pc[Preparer] = "idle" /\ pc' = [pc EXCEPT ![Preparer] = "prepare"]
    BY <1>7 DEF Authorize
  <2>2. Untouched
    BY <1>7, <1>b, <2>1, HoldingMoves DEF Authorize, Untouched, Holding
  <2> QED BY <2>2, UntouchedKeeps
<1>8. CASE Prepare
  <2>1. pc[Preparer] = "prepare" /\ UNCHANGED <<cache, copy, seen, behind>>
    BY <1>8 DEF Prepare
  <2>2. PICK p \in {"idle", "verify", "prepare"} : pc' = [pc EXCEPT ![Preparer] = p]
    BY <1>8 DEF Prepare
  <2>3. Untouched
    BY <1>b, <2>1, <2>2, HoldingMoves DEF Untouched, Holding
  <2> QED BY <2>3, UntouchedKeeps
<1>9. CASE Verify
  <2> DEFINE a == job[Preparer].agent
             f == job[Preparer].folder
  <2>1. a \in Agents /\ f \in Folders /\ UNCHANGED <<cache, behind>> /\ pc[Preparer] = "verify"
    BY <1>9, <1>0 DEF Verify, WritersTyped
  <2>2. \/ /\ pc' = [pc EXCEPT ![Preparer] = "prepare"] /\ UNCHANGED <<copy, seen>>
        \/ /\ copy' = [copy EXCEPT ![Preparer] = [cache EXCEPT ![a].refusal[f] = "none"]]
           /\ seen' = [seen EXCEPT ![a].refusal[f] = "none"]
           /\ pc' = [pc EXCEPT ![Preparer] = "clear"]
    BY <1>9 DEF Verify
  <2> HIDE DEF a, f
  <2>3. CASE pc' = [pc EXCEPT ![Preparer] = "prepare"] /\ UNCHANGED <<copy, seen>>
    <3>1. Untouched
      BY <1>b, <2>1, <2>3, HoldingMoves DEF Untouched, Holding
    <3> QED BY <3>1, UntouchedKeeps
  <2>4. CASE /\ copy' = [copy EXCEPT ![Preparer] = [cache EXCEPT ![a].refusal[f] = "none"]]
             /\ seen' = [seen EXCEPT ![a].refusal[f] = "none"]
             /\ pc' = [pc EXCEPT ![Preparer] = "clear"]
    <3>1. cache = seen => copy'[Preparer] = seen'
      BY <1>a, <2>4
    <3>2. Takes(Preparer)
      BY <1>b, <2>1, <2>4, <3>1, HoldingMoves DEF Takes, Holding
    <3> QED BY <3>2, TakesKeeps
  <2> QED BY <2>2, <2>3, <2>4
<1>10. CASE ClearRefusal
  <2>1. pc[Preparer] = "clear" /\ pc' = [pc EXCEPT ![Preparer] = "prepare"]
    BY <1>10 DEF ClearRefusal
  <2>2. Saves(Preparer, copy[Preparer]) \/ SaveFails(Preparer)
    BY <1>10 DEF ClearRefusal
  <2>3. Holding(Preparer) /\ ~Holding(Preparer)' /\ \A v \in Writers \ {Preparer} : Holding(v)' <=> Holding(v)
    BY <1>b, <2>1, HoldingMoves DEF Holding
  <2> QED BY <2>2, <2>3, ReleasesKeeps
<1>11. CASE LoadPrepared
  <2>1. pc[Preparer] = "prepare" /\ UNCHANGED <<cache, copy, seen, behind>>
    BY <1>11 DEF LoadPrepared
  <2>2. PICK p \in {"idle", "record"} : pc' = [pc EXCEPT ![Preparer] = p]
    BY <1>11 DEF LoadPrepared
  <2>3. Untouched
    BY <1>b, <2>1, <2>2, HoldingMoves DEF Untouched, Holding
  <2> QED BY <2>3, UntouchedKeeps
<1>12. CASE SavePrepared
  <2>1. pc[Preparer] = "record" /\ UNCHANGED <<cache, copy, seen, behind>> /\ pc' = [pc EXCEPT ![Preparer] = "idle"]
    BY <1>12 DEF SavePrepared
  <2>3. Untouched
    BY <1>b, <2>1, HoldingMoves DEF Untouched, Holding
  <2> QED BY <2>3, UntouchedKeeps
<1>13. CASE Revoke
  <2>1. Untouched
    BY <1>13 DEF Revoke, Untouched, Holding
  <2> QED BY <2>1, UntouchedKeeps
<1>14. CASE Tick
  <2>1. /\ cache' = [a \in Agents |-> Older(cache[a])]
        /\ seen' = [a \in Agents |-> Older(seen[a])]
        /\ copy' = [w \in Writers |-> [a \in Agents |-> Older(copy[w][a])]]
        /\ UNCHANGED <<pc, behind>>
    BY <1>14 DEF Tick
  <2>2. \A w \in Writers : copy[w] = seen => copy'[w] = seen'
    BY <2>1
  <2>3. cache = seen => cache' = seen'
    BY <2>1
  <2>4. \A v \in Writers : Holding(v)' <=> Holding(v)
    BY <2>1 DEF Holding
  <2>5. behind' = behind
    BY <2>1
  <2> QED BY <2>2, <2>3, <2>4, <2>5
       DEF ReadinessInv, BehindHold, LoneCopyIsCurrent, Alone, RecordMatchesObservations, Settled
<1>15. CASE UNCHANGED readinessVars
  <2>1. Untouched
    BY <1>15 DEF readinessVars, Untouched, Holding
  <2> QED BY <2>1, UntouchedKeeps
<1>16. ASSUME NEW s \in Sessions, ListModels(s) PROVE ReadinessInv'
  <2>1. pc[s] = "idle" /\ pc' = [pc EXCEPT ![s] = "save"]
    BY <1>16 DEF ListModels
  <2>2. copy' = [copy EXCEPT ![s] = cache] /\ UNCHANGED <<cache, seen, behind>>
    BY <1>16 DEF ListModels
  <2>3. Takes(s)
    BY <1>a, <1>b, <2>1, <2>2, HoldingMoves DEF Takes, Holding
  <2> QED BY <2>3, TakesKeeps
<1>17. CASE Report
  <2>1. pc[Doctor] = "report" /\ pc' = [pc EXCEPT ![Doctor] = "idle"] /\ UNCHANGED <<cache, copy, seen, behind>>
    BY <1>17 DEF Report
  <2>2. Untouched
    BY <1>b, <2>1, HoldingMoves DEF Untouched, Holding
  <2> QED BY <2>2, UntouchedKeeps
<1> QED BY <1>1, <1>2, <1>3, <1>4, <1>5, <1>6, <1>7, <1>8, <1>9, <1>10, <1>11, <1>12,
           <1>13, <1>14, <1>15, <1>16, <1>17 DEF ReadinessNext

\* Whenever no writer is between its load and its save, the readiness cache holds for each
\* agent what was last observed of it, for any number of writers and agents.
THEOREM RecordMatchesObservationsCorrect == ReadinessSpec => []RecordMatchesObservations
<1>1. ReadinessInit => ReadinessTypeOK /\ ReadinessInv
  BY ReadinessTypeInit, ReadinessInvInit
<1>2. ReadinessTypeOK /\ ReadinessInv /\ [ReadinessNext]_readinessVars => (ReadinessTypeOK /\ ReadinessInv)'
  BY ReadinessTypeStep, ReadinessInvStep
<1>3. ReadinessInv => RecordMatchesObservations
  BY DEF ReadinessInv
<1> QED BY <1>1, <1>2, <1>3, PTL DEF ReadinessSpec

----------------------------------------------------------------------------
(* What the doctor's smokes met is in its copy, and vendor stores only grow. *)

StoreTyped == store \in [Agents -> SUBSET Folders]
SmokesAreHeld ==
    pc[Doctor] = "smoking" =>
        \A a \in Agents, f \in Workspaces :
            /\ f = job[Doctor].folder /\ a \in job[Doctor].answered
            /\ CliRefuses(a, f, Mechanism(a, Policy[Doctor]))
            => copy[Doctor][a].refusal[f] = Mechanism(a, Policy[Doctor])
SmokeInv == StoreTyped /\ SmokesAreHeld

StoreGrows == \A a \in Agents : store[a] \subseteq store'[a]

\* A vendor that has been told of more directories refuses no more of them.
LEMMA RefusesLess ==
  ASSUME StoreGrows, NEW a \in Agents, NEW f, NEW mech, CliRefuses(a, f, mech)'
  PROVE  CliRefuses(a, f, mech)
<1>1. Check(a, f, store)' # "READY" => Check(a, f, store) # "READY"
  BY DEF Check, StoreGrows
<1> QED BY <1>1 DEF CliRefuses

LEMMA TrustingGrows ==
  ASSUME StoreTyped, NEW a \in Agents, NEW f \in Workspaces, NEW mech, NEW kind,
         store' = Trusting(a, f, mech, kind)
  PROVE  StoreTyped' /\ StoreGrows
BY WriterAssumption DEF StoreTyped, StoreGrows, Trusting

\* The doctor's visit is as it was, or over.
VisitStays ==
    pc'[Doctor] = "smoking" =>
        /\ pc[Doctor] = "smoking"
        /\ job'[Doctor].folder = job[Doctor].folder /\ job'[Doctor].answered = job[Doctor].answered
        /\ \A a \in Agents : copy'[Doctor][a].refusal = copy[Doctor][a].refusal

LEMMA VisitStaysKeeps ==
  ASSUME SmokesAreHeld, StoreGrows, VisitStays
  PROVE  SmokesAreHeld'
<1> SUFFICES ASSUME (pc[Doctor] = "smoking")', NEW a \in Agents, NEW f \in Workspaces,
                    (f = job[Doctor].folder)', (a \in job[Doctor].answered)',
                    CliRefuses(a, f, Mechanism(a, Policy[Doctor]))'
             PROVE  (copy[Doctor][a].refusal[f] = Mechanism(a, Policy[Doctor]))'
  BY DEF SmokesAreHeld
<1>1. /\ pc[Doctor] = "smoking" /\ f = job[Doctor].folder /\ a \in job[Doctor].answered
      /\ copy'[Doctor][a].refusal = copy[Doctor][a].refusal
  BY DEF VisitStays
<1>2. CliRefuses(a, f, Mechanism(a, Policy[Doctor]))
  BY RefusesLess
<1> QED BY <1>1, <1>2 DEF SmokesAreHeld

LEMMA SmokeInvInit == ReadinessInit => SmokeInv
BY WritersAre DEF ReadinessInit, SmokeInv, StoreTyped, SmokesAreHeld

\* A step that leaves the stores and the doctor's copy alone.
LEMMA ElsewhereKeeps ==
  ASSUME SmokeInv, store' = store, VisitStays
  PROVE  SmokeInv'
BY VisitStaysKeeps DEF SmokeInv, StoreTyped, StoreGrows

\* The doctor's own smoke: what it meets goes into its copy at once.
LEMMA RunSmokeKeeps ==
  ASSUME ReadinessTypeOK, SmokeInv, RunSmoke
  PROVE  SmokeInv'
<1> USE WritersAre
<1> DEFINE f == job[Doctor].folder
           fresh == IF job[Doctor].age >= Window THEN 0 ELSE Window - job[Doctor].age
<1>1. job[Doctor] \in Visits /\ pc[Doctor] = "smoking" /\ pc' = pc
  BY DEF RunSmoke, ReadinessTypeOK, WritersTyped
<1>2. f \in Workspaces /\ job[Doctor].due \in SUBSET Agents
  BY <1>1 DEF Visits
<1>3. PICK b \in job[Doctor].due : \E kind \in Outcomes(b, f, Mechanism(b, Policy[Doctor])) :
        /\ copy' = [copy EXCEPT ![Doctor][b] = Smoked(@, kind, f, Mechanism(b, Policy[Doctor]), fresh)]
        /\ store' = Trusting(b, f, Mechanism(b, Policy[Doctor]), kind)
        /\ job' = [job EXCEPT ![Doctor].due = @ \ {b}, ![Doctor].answered = @ \cup {b}]
  BY Zenon DEF RunSmoke
<1> DEFINE mech == Mechanism(b, Policy[Doctor])
<1>4. PICK kind \in Outcomes(b, f, mech) :
        /\ copy' = [copy EXCEPT ![Doctor][b] = Smoked(@, kind, f, mech, fresh)]
        /\ store' = Trusting(b, f, mech, kind)
        /\ job' = [job EXCEPT ![Doctor].due = @ \ {b}, ![Doctor].answered = @ \cup {b}]
  BY <1>3
<1>5. b \in Agents /\ kind \in Kinds
  BY <1>2, <1>4 DEF Outcomes
<1>6. StoreTyped' /\ StoreGrows
  BY <1>2, <1>4, <1>5, TrustingGrows DEF SmokeInv
<1>7. /\ job'[Doctor].folder = f /\ job'[Doctor].answered = job[Doctor].answered \cup {b}
      /\ copy'[Doctor][b] = Smoked(copy[Doctor][b], kind, f, mech, fresh)
      /\ \A a \in Agents \ {b} : copy'[Doctor][a] = copy[Doctor][a]
  <2>1. job \in [Writers -> {NoJob} \cup Reports \cup Visits \cup Scopes]
    BY DEF ReadinessTypeOK, WritersTyped
  <2>2. copy \in [Writers -> [Agents -> Records]]
    BY DEF ReadinessTypeOK, CopiesTyped
  <2>3. job'[Doctor] = [job[Doctor] EXCEPT !.due = @ \ {b}, !.answered = @ \cup {b}]
    BY <1>4, <2>1
  <2>4. copy'[Doctor] = [copy[Doctor] EXCEPT ![b] = Smoked(copy[Doctor][b], kind, f, mech, fresh)]
    BY <1>4, <2>2
  <2>5. job'[Doctor].folder = f /\ job'[Doctor].answered = job[Doctor].answered \cup {b}
    BY <1>1, <2>3 DEF Visits
  <2>6. copy[Doctor] \in [Agents -> Records]
    BY <2>2
  <2> HIDE DEF f, mech, fresh
  <2> QED BY <1>5, <2>4, <2>5, <2>6
<1>8. SmokesAreHeld'
  <2> SUFFICES ASSUME NEW a \in Agents, NEW g \in Workspaces,
                      (g = job[Doctor].folder)', (a \in job[Doctor].answered)',
                      CliRefuses(a, g, Mechanism(a, Policy[Doctor]))'
               PROVE  (copy[Doctor][a].refusal[g] = Mechanism(a, Policy[Doctor]))'
    BY DEF SmokesAreHeld
  <2>1. g = f /\ CliRefuses(a, g, Mechanism(a, Policy[Doctor]))
    BY <1>6, <1>7, RefusesLess
  <2>2. CASE a = b
    <3>1. kind.type = "trust"
      BY <1>4, <2>1, <2>2 DEF Outcomes
    <3>2. Smoked(copy[Doctor][b], kind, f, mech, fresh) = [copy[Doctor][b] EXCEPT !.refusal[f] = mech]
      BY <3>1 DEF Smoked, Observed
    <3>3. copy[Doctor][b] \in Records
      BY <1>5 DEF ReadinessTypeOK, CopiesTyped
    <3>4. [copy[Doctor][b] EXCEPT !.refusal[f] = mech].refusal[f] = mech
      BY <1>2, <3>3 DEF Records
    <3> QED BY <1>7, <2>1, <2>2, <3>2, <3>4
  <2>3. CASE a # b
    <3>1. a \in job[Doctor].answered /\ copy'[Doctor][a] = copy[Doctor][a]
      BY <1>7, <2>3
    <3> QED BY <1>1, <2>1, <3>1 DEF SmokeInv, SmokesAreHeld
  <2> QED BY <2>2, <2>3
<1> QED BY <1>6, <1>8 DEF SmokeInv

LEMMA SmokeInvStep ==
  ASSUME ReadinessTypeOK, SmokeInv, [ReadinessNext]_readinessVars
  PROVE  SmokeInv'
<1> USE WritersAre
<1>a. /\ pc \in [Writers -> Places] /\ copy \in [Writers -> [Agents -> Records]]
      /\ job \in [Writers -> {NoJob} \cup Reports \cup Visits \cup Scopes]
  BY DEF ReadinessTypeOK, WritersTyped, CopiesTyped
<1>1. ASSUME NEW s \in Sessions, Dispatch(s) PROVE SmokeInv'
  <2>1. PICK a \in Agents, f \in Workspaces :
          \E kind \in Outcomes(a, f, Mechanism(a, Policy[s])) :
            store' = Trusting(a, f, Mechanism(a, Policy[s]), kind)
    BY <1>1, Zenon DEF Dispatch
  <2>2. StoreTyped' /\ StoreGrows
    BY <2>1, TrustingGrows DEF SmokeInv
  <2>3. VisitStays
    BY <1>1, <1>a DEF Dispatch, VisitStays
  <2> QED BY <2>2, <2>3, VisitStaysKeeps DEF SmokeInv
<1>2. ASSUME NEW s \in Sessions, LoadCache(s) \/ ListModels(s) \/ Save(s) PROVE SmokeInv'
  <2>1. VisitStays /\ store' = store
    BY <1>2, <1>a DEF LoadCache, ListModels, Save, VisitStays
  <2> QED BY <2>1, ElsewhereKeeps
<1>3. CASE Examine
  <2>1. store' = store
    BY <1>3 DEF Examine
  <2>2. job'[Doctor].answered = {}
    BY <1>3, <1>a DEF Examine
  <2> QED BY <2>1, <2>2 DEF SmokeInv, StoreTyped, SmokesAreHeld
<1>4. CASE RunSmoke
  BY <1>4, RunSmokeKeeps
<1>5. CASE SaveReport \/ Report
  <2>1. VisitStays /\ store' = store
    BY <1>5, <1>a DEF SaveReport, Report, VisitStays
  <2> QED BY <2>1, ElsewhereKeeps
<1>6. CASE Prepare
  <2>1. VisitStays
    BY <1>6, <1>a DEF Prepare, VisitStays
  <2>2. PICK a \in Agents, f \in Folders : store' \in {store, [store EXCEPT ![a] = @ \cup {f}]}
    BY <1>6, Zenon DEF Prepare
  <2>3. StoreTyped' /\ StoreGrows
    BY <2>2 DEF SmokeInv, StoreTyped, StoreGrows
  <2> QED BY <2>1, <2>3, VisitStaysKeeps DEF SmokeInv
<1>7. CASE Authorize \/ Verify \/ ClearRefusal \/ LoadPrepared \/ SavePrepared \/ Revoke
  <2>1. store' = store
    BY <1>7 DEF Authorize, Verify, ClearRefusal, LoadPrepared, SavePrepared, Revoke
  <2>2. VisitStays
    BY <1>7, <1>a DEF Authorize, Verify, ClearRefusal, LoadPrepared, SavePrepared, Revoke, VisitStays
  <2> QED BY <2>1, <2>2, ElsewhereKeeps
<1>8. CASE Tick
  <2>1. store' = store
    BY <1>8 DEF Tick
  <2>2. ASSUME pc'[Doctor] = "smoking" PROVE job'[Doctor].folder = job[Doctor].folder
                                              /\ job'[Doctor].answered = job[Doctor].answered
    <3>1. pc[Doctor] = "smoking"
      BY <1>8, <2>2 DEF Tick
    <3>2. job[Doctor] \in Visits
      BY <3>1 DEF ReadinessTypeOK, WritersTyped
    <3>3. \/ job' = job
          \/ job'[Doctor] = [job[Doctor] EXCEPT !.age = @ + 1]
      BY <1>8, <1>a DEF Tick
    <3> QED BY <3>2, <3>3 DEF Visits
  <2>3. \A a \in Agents : copy'[Doctor][a].refusal = copy[Doctor][a].refusal
    <3>1. \A a \in Agents : copy'[Doctor][a] = Older(copy[Doctor][a]) /\ copy[Doctor][a] \in Records
      BY <1>8, <1>a DEF Tick
    <3> QED BY <3>1 DEF Older, Records
  <2>4. VisitStays
    BY <1>8, <2>2, <2>3 DEF Tick, VisitStays
  <2> QED BY <2>1, <2>4, ElsewhereKeeps
<1>9. CASE UNCHANGED readinessVars
  BY <1>9, ElsewhereKeeps DEF readinessVars, VisitStays
<1> QED BY <1>1, <1>2, <1>3, <1>4, <1>5, <1>6, <1>7, <1>8, <1>9 DEF ReadinessNext

\* Only the doctor's own steps take it from its smokes to the report, and to rest.
LEMMA OnlyTheDoctorReports ==
  ASSUME ReadinessTypeOK, [ReadinessNext]_readinessVars
  PROVE  /\ pc[Doctor] = "smoking" /\ pc'[Doctor] = "report" => SaveReport
         /\ pc[Doctor] = "report" /\ pc'[Doctor] = "idle" => Report
<1> USE WritersAre
<1> SUFFICES ASSUME \/ pc[Doctor] = "smoking" /\ pc'[Doctor] = "report"
                    \/ pc[Doctor] = "report" /\ pc'[Doctor] = "idle"
             PROVE  SaveReport \/ Report
  BY DEF SaveReport, Report
<1>1. pc \in [Writers -> Places]
  BY DEF ReadinessTypeOK, WritersTyped
<1>2. ASSUME NEW s \in Sessions PROVE ~(Dispatch(s) \/ ListModels(s) \/ LoadCache(s) \/ Save(s))
  BY <1>1 DEF Dispatch, ListModels, LoadCache, Save
<1>3. ~Examine /\ ~RunSmoke
  BY <1>1 DEF Examine, RunSmoke
<1>4. ~Authorize /\ ~Prepare /\ ~Verify /\ ~ClearRefusal /\ ~LoadPrepared /\ ~SavePrepared
  BY <1>1 DEF Authorize, Prepare, Verify, ClearRefusal, LoadPrepared, SavePrepared
<1>5. ~Revoke /\ ~Tick /\ ~UNCHANGED readinessVars
  BY DEF Revoke, Tick, readinessVars
<1> QED BY <1>2, <1>3, <1>4, <1>5 DEF ReadinessNext

\* What the doctor's smokes met is on record once it has saved.
LEMMA SmokesAreRecorded ==
  ASSUME ReadinessTypeOK, SmokeInv, [ReadinessNext]_readinessVars, NEW a \in Agents,
         pc[Doctor] = "smoking", pc'[Doctor] = "report", a \in job[Doctor].answered,
         CliRefuses(a, job[Doctor].folder, Mechanism(a, Policy[Doctor]))
  PROVE  cache'[a].refusal[job[Doctor].folder] = Mechanism(a, Policy[Doctor])
<1>1. cache' = copy[Doctor]
  BY OnlyTheDoctorReports DEF SaveReport, Saves
<1>2. job[Doctor].folder \in Workspaces
  BY DEF ReadinessTypeOK, WritersTyped, Visits
<1> QED BY <1>1, <1>2 DEF SmokeInv, SmokesAreHeld

\* What the report counts, neither the last answer nor the vendor's store bars.
LEMMA CountedIsWilling ==
  ASSUME ReadinessTypeOK, ReadinessInv, [ReadinessNext]_readinessVars, NEW a \in Agents,
         pc[Doctor] = "report", pc'[Doctor] = "idle", a \in verdict'.workers
  PROVE  LET f == job[Doctor].folder
             mech == Mechanism(a, Policy[Doctor])
         IN /\ Settled => seen[a].refusal[f] \notin {mech, "flag"}
            /\ CliRefuses(a, f, mech) => <<a, f, mech>> \in Wary
<1> DEFINE f == job[Doctor].folder
           mech == Mechanism(a, Policy[Doctor])
<1>1. ~WorkspaceBlocked(a, f, cache[a].refusal[f], store, Policy[Doctor])
  BY OnlyTheDoctorReports DEF Report, Autonomous, Barred
<1>2. mech \in {"plain", "flag"}
  BY DEF Mechanism
<1>3. ASSUME Settled PROVE seen[a].refusal[f] \notin {mech, "flag"}
  <2>1. cache = seen
    BY <1>3 DEF ReadinessInv, RecordMatchesObservations
  <2>2. ~BindingRefusal(a, seen[a].refusal[f], Policy[Doctor])
    BY <1>1, <2>1 DEF WorkspaceBlocked
  <2> QED BY <1>2, <2>2 DEF BindingRefusal
<1>4. ASSUME CliRefuses(a, f, mech), <<a, f, mech>> \notin Wary PROVE FALSE
  <2>1. mech = "plain" /\ Check(a, f, store) # "READY"
    BY <1>4 DEF CliRefuses
  <2>2. Check(a, f, store) = "TRUST_REQUIRED"
    BY <2>1 DEF Check
  <2>3. Effective(a, Check(a, f, store), Policy[Doctor]) # "TRUST_REQUIRED"
    BY <1>1 DEF WorkspaceBlocked
  <2> QED BY <2>1, <2>2, <2>3 DEF Effective
<1> QED BY <1>3, <1>4

\* What the doctor's own smokes met is on record when it saves, whoever saved before; and
\* the report that lets a campaign start counts no worker whose CLI last turned it away, as far
\* as the record goes, nor one its vendor's store still bars.
THEOREM AnswersOutrankStoresCorrect == ReadinessSpec => AnswersOutrankStores
<1>1. ReadinessInit => ReadinessTypeOK /\ ReadinessInv /\ SmokeInv
  BY ReadinessTypeInit, ReadinessInvInit, SmokeInvInit
<1>2. ReadinessTypeOK /\ ReadinessInv /\ SmokeInv /\ [ReadinessNext]_readinessVars
      => (ReadinessTypeOK /\ ReadinessInv /\ SmokeInv)'
  BY ReadinessTypeStep, ReadinessInvStep, SmokeInvStep
<1>3. ReadinessTypeOK /\ ReadinessInv /\ SmokeInv /\ [ReadinessNext]_readinessVars =>
        [\A a \in Agents :
          LET f == job[Doctor].folder
              mech == Mechanism(a, Policy[Doctor])
          IN /\ pc[Doctor] = "smoking" /\ pc'[Doctor] = "report"
                /\ a \in job[Doctor].answered /\ CliRefuses(a, f, mech)
                => cache'[a].refusal[f] = mech
             /\ pc[Doctor] = "report" /\ pc'[Doctor] = "idle"
                /\ Starts(verdict') /\ a \in verdict'.workers
                => /\ Settled => seen[a].refusal[f] \notin {mech, "flag"}
                   /\ CliRefuses(a, f, mech) => <<a, f, mech>> \in Wary]_readinessVars
  BY SmokesAreRecorded, CountedIsWilling
<1> QED BY <1>1, <1>2, <1>3, PTL DEF ReadinessSpec, AnswersOutrankStores

-----------------------------------------------------------------------------
(***************************************************************************)
(* The provider pool, for any number of processes, resources, review roles *)
(* and launches, whatever the probes and the results say: a review role    *)
(* that fails with launches to spare has asked every resource that could   *)
(* serve it (PoolInv), and our own trouble never makes a resource less     *)
(* eligible. The records' types come first, then the order of the          *)
(* candidates, then one lemma for each thing a step does to a review.      *)
(***************************************************************************)

Statuses == {"UNKNOWN", "AVAILABLE", "DEGRADED", "DISABLED"} \cup Blocked
Probes == Worlds \cup {"READY", "NOT_PROBED"}
StatusRecs == [status : Statuses, readiness : Probes, retry : Int,
               excluded : SUBSET (Roles \cup {"review"}), metered : Nat]
PoolMaps == [Resources -> StatusRecs]
Turns == [maker : Resources \cup {None}, mapping : {<<>>} \cup [DOMAIN ReviewRoles -> Resources],
          role : 0..Len(ReviewRoles), queue : Seq(Resources), budget : Nat,
          served : Seq(Resources \cup {None})]
Assignments == [resource : Resources \cup {None}, role : Roles \cup {"none"}]
Asking == [Resources -> {"not", "away", "answered"}]

RecordsTyped == disk \in PoolMaps /\ mem \in [Pools -> PoolMaps] /\ world \in [Resources -> Probes]

LEMMA PoolConstants ==
  /\ Resources \subseteq Nat /\ None \notin Resources /\ None \in Int
  /\ Len(ReviewRoles) \in Nat /\ DOMAIN ReviewRoles = 1..Len(ReviewRoles)
  /\ \A i \in DOMAIN ReviewRoles : /\ ReviewRoles[i] \in Roles
                                   /\ ReviewRoles[i] \notin {"implementation", "none"}
  /\ "none" \notin Roles /\ "implementation" \in Roles
<1>1. /\ Resources \subseteq Nat /\ ReviewRoles \in Seq(STRING)
      /\ \A i \in DOMAIN ReviewRoles : ReviewRoles[i] \notin {"implementation", "none"}
  BY PolicyAssumption
<1>2. None \notin Nat /\ None \in Int
  BY DEF None
<1>3. Len(ReviewRoles) \in Nat /\ DOMAIN ReviewRoles = 1..Len(ReviewRoles)
  BY <1>1
<1>4. \A i \in DOMAIN ReviewRoles : ReviewRoles[i] \in Roles
  BY DEF Roles
<1>5. "none" \notin Roles /\ "implementation" \in Roles
  BY <1>1 DEF Roles
<1> QED BY <1>1, <1>2, <1>3, <1>4, <1>5

-----------------------------------------------------------------------------
(* The rank is a total order, so that there is a best candidate. *)

Place(states, r, advised, avoided, n) == Rank(states, r, advised, avoided)[n]

LEMMA RankTyped ==
  ASSUME NEW states, NEW r \in Resources, NEW advised, NEW avoided
  PROVE  LET k == Rank(states, r, advised, avoided) IN
         /\ k \in Seq(Nat) /\ Len(k) = 5 /\ DOMAIN k = 1..5 /\ k[5] = r
         /\ \A n \in 1..5 : k[n] \in Nat
<1>1. r \in Nat /\ EconomicRank(r) \in Nat
  BY PoolConstants DEF EconomicRank
<1>2. CapacityRank(states[r]) \in Nat
  BY DEF CapacityRank
<1> DEFINE x == EconomicRank(r)  y == CapacityRank(states[r])
           u == IF r = advised THEN 0 ELSE 1
           v == IF r = avoided THEN 1 ELSE 0
<1>3. u \in Nat /\ v \in Nat
  OBVIOUS
<1>4. Rank(states, r, advised, avoided) = <<x, y, u, v, r>>
  BY DEF Rank
<1> HIDE DEF x, y, u, v
<1>5. x \in Nat /\ y \in Nat
  BY <1>1, <1>2 DEF x, y
<1> QED BY <1>1, <1>3, <1>4, <1>5

\* Two keys, entry by entry.
LEMMA BeforeMeansLess ==
  ASSUME NEW a, NEW b, DOMAIN a = 1..5
  PROVE  Before(a, b) <=>
           \/ a[1] < b[1]
           \/ a[1] = b[1] /\ a[2] < b[2]
           \/ a[1] = b[1] /\ a[2] = b[2] /\ a[3] < b[3]
           \/ a[1] = b[1] /\ a[2] = b[2] /\ a[3] = b[3] /\ a[4] < b[4]
           \/ a[1] = b[1] /\ a[2] = b[2] /\ a[3] = b[3] /\ a[4] = b[4] /\ a[5] < b[5]
<1>1. DOMAIN a = {1, 2, 3, 4, 5}
  OBVIOUS
<1>2. /\ 1 .. 1 - 1 = {} /\ 1 .. 2 - 1 = {1} /\ 1 .. 3 - 1 = {1, 2}
      /\ 1 .. 4 - 1 = {1, 2, 3} /\ 1 .. 5 - 1 = {1, 2, 3, 4}
  OBVIOUS
<1> DEFINE At(n) == a[n] < b[n] /\ \A m \in 1 .. n - 1 : a[m] = b[m]
<1>3. Before(a, b) <=> At(1) \/ At(2) \/ At(3) \/ At(4) \/ At(5)
  BY <1>1 DEF Before
<1>4. At(1) <=> a[1] < b[1]
  BY <1>2
<1>5. At(2) <=> a[1] = b[1] /\ a[2] < b[2]
  BY <1>2
<1>6. At(3) <=> a[1] = b[1] /\ a[2] = b[2] /\ a[3] < b[3]
  BY <1>2
<1>7. At(4) <=> a[1] = b[1] /\ a[2] = b[2] /\ a[3] = b[3] /\ a[4] < b[4]
  BY <1>2
<1>8. At(5) <=> a[1] = b[1] /\ a[2] = b[2] /\ a[3] = b[3] /\ a[4] = b[4] /\ a[5] < b[5]
  BY <1>2
<1> HIDE DEF At
<1> QED BY <1>3, <1>4, <1>5, <1>6, <1>7, <1>8

\* Some member of a set has the least key.
LEMMA LeastByKey ==
  ASSUME NEW S, S # {}, NEW key, \A i \in S : key[i] \in Nat
  PROVE  \E i \in S : \A j \in S : key[i] <= key[j]
<1> DEFINE T == {key[i] : i \in S}
<1>1. T \subseteq Nat /\ T # {}
  OBVIOUS
<1>2. PICK x \in T : \A y \in T : ~(<<y, x>> \in OpToRel(<, Nat))
  BY <1>1, NatLessThanWellFounded, WFMin
<1>3. PICK i \in S : key[i] = x
  OBVIOUS
<1>4. ASSUME NEW j \in S PROVE key[i] <= key[j]
  <2>1. key[j] \in T /\ key[j] \in Nat /\ x \in Nat
    BY <1>1
  <2>2. <<key[j], x>> \in Nat \X Nat /\ <<key[j], x>>[1] = key[j] /\ <<key[j], x>>[2] = x
    BY <2>1
  <2>3. ~(key[j] < x)
    BY <1>2, <2>1, <2>2 DEF OpToRel
  <2> QED BY <1>3, <2>1, <2>3
<1> QED BY <1>4

LEMMA BestIsCandidate ==
  ASSUME NEW S \in SUBSET Resources, S # {}, NEW states, NEW advised, NEW avoided
  PROVE  Best(states, S, advised, avoided) \in S
<1> DEFINE P == [i \in Resources |-> Place(states, i, advised, avoided, 1)]
           O == [i \in Resources |-> Place(states, i, advised, avoided, 2)]
           R == [i \in Resources |-> Place(states, i, advised, avoided, 3)]
           Q == [i \in Resources |-> Place(states, i, advised, avoided, 4)]
           N == [i \in Resources |-> Place(states, i, advised, avoided, 5)]
           Ahead(i, j) == Before(Rank(states, i, advised, avoided), Rank(states, j, advised, avoided))
           Least(T, key) == {i \in T : \A j \in T : key[i] <= key[j]}
<1>1. \A i \in Resources : P[i] \in Nat /\ O[i] \in Nat /\ R[i] \in Nat /\ Q[i] \in Nat /\ N[i] \in Nat
  BY RankTyped DEF Place
<1>a. \A i, j \in Resources : Ahead(i, j) <=>
           \/ P[i] < P[j]
           \/ P[i] = P[j] /\ O[i] < O[j]
           \/ P[i] = P[j] /\ O[i] = O[j] /\ R[i] < R[j]
           \/ P[i] = P[j] /\ O[i] = O[j] /\ R[i] = R[j] /\ Q[i] < Q[j]
           \/ P[i] = P[j] /\ O[i] = O[j] /\ R[i] = R[j] /\ Q[i] = Q[j] /\ N[i] < N[j]
  <2>1. \A i \in Resources : DOMAIN Rank(states, i, advised, avoided) = 1..5
    BY RankTyped
  <2> QED BY <2>1, BeforeMeansLess DEF Place
<1>b. \A i, j \in Resources : N[i] = N[j] => i = j
  BY RankTyped DEF Place
<1>c. (\E i \in S : \A j \in S \ {i} : Ahead(i, j)) => Best(states, S, advised, avoided) \in S
  BY DEF Best
<1> HIDE DEF P, O, R, Q, N, Ahead
<1>2. ASSUME NEW T \in SUBSET S, T # {}, NEW key, \A i \in Resources : key[i] \in Nat
      PROVE  Least(T, key) # {} /\ Least(T, key) \subseteq T
  BY <1>2, LeastByKey
<1> DEFINE S1 == Least(S, P)  S2 == Least(S1, O)  S3 == Least(S2, R)
           S4 == Least(S3, Q)  S5 == Least(S4, N)
<1>3. S1 # {} /\ S1 \subseteq S /\ \A i \in S1, j \in S : P[i] <= P[j]
  BY <1>1, <1>2
<1>4. S2 # {} /\ S2 \subseteq S1 /\ \A i \in S2, j \in S1 : O[i] <= O[j]
  <2> HIDE DEF S1
  <2> QED BY <1>1, <1>2, <1>3
<1>5. S3 # {} /\ S3 \subseteq S2 /\ \A i \in S3, j \in S2 : R[i] <= R[j]
  <2> HIDE DEF S1, S2
  <2> QED BY <1>1, <1>2, <1>3, <1>4
<1>6. S4 # {} /\ S4 \subseteq S3 /\ \A i \in S4, j \in S3 : Q[i] <= Q[j]
  <2> HIDE DEF S1, S2, S3
  <2> QED BY <1>1, <1>2, <1>3, <1>4, <1>5
<1>7. S5 # {} /\ S5 \subseteq S4 /\ \A i \in S5, j \in S4 : N[i] <= N[j]
  <2> HIDE DEF S1, S2, S3, S4
  <2> QED BY <1>1, <1>2, <1>3, <1>4, <1>5, <1>6
<1>8. PICK i \in S : i \in S5
  BY <1>3, <1>4, <1>5, <1>6, <1>7
<1>9. ASSUME NEW j \in S \ {i} PROVE Ahead(i, j)
  <2>0. /\ i \in Resources /\ j \in Resources /\ i # j /\ i \in S1 /\ i \in S2 /\ i \in S3 /\ i \in S4
        /\ N[i] # N[j]
    BY <1>3, <1>4, <1>5, <1>6, <1>7, <1>8, <1>b
  <2>a. /\ P[i] \in Nat /\ O[i] \in Nat /\ R[i] \in Nat /\ Q[i] \in Nat /\ N[i] \in Nat
        /\ P[j] \in Nat /\ O[j] \in Nat /\ R[j] \in Nat /\ Q[j] \in Nat /\ N[j] \in Nat
    BY <1>1, <2>0
  <2>1. P[i] < P[j] \/ (P[i] = P[j] /\ j \in S1)
    <3>1. P[i] <= P[j]
      BY <1>3, <2>0
    <3>2. ASSUME P[i] = P[j] PROVE j \in S1
      BY <1>3, <2>0, <3>2
    <3> QED BY <2>a, <3>1, <3>2
  <2>2. j \in S1 => O[i] < O[j] \/ (O[i] = O[j] /\ j \in S2)
    <3> HIDE DEF S1
    <3>1. ASSUME j \in S1, O[i] = O[j] PROVE j \in S2
      BY <1>4, <2>0, <3>1
    <3> QED BY <1>4, <2>0, <2>a, <3>1
  <2>3. j \in S2 => R[i] < R[j] \/ (R[i] = R[j] /\ j \in S3)
    <3> HIDE DEF S2
    <3>1. ASSUME j \in S2, R[i] = R[j] PROVE j \in S3
      BY <1>5, <2>0, <3>1
    <3> QED BY <1>5, <2>0, <2>a, <3>1
  <2>4. j \in S3 => Q[i] < Q[j] \/ (Q[i] = Q[j] /\ j \in S4)
    <3> HIDE DEF S3
    <3>1. ASSUME j \in S3, Q[i] = Q[j] PROVE j \in S4
      BY <1>6, <2>0, <3>1
    <3> QED BY <1>6, <2>0, <2>a, <3>1
  <2>5. j \in S4 => N[i] < N[j]
    <3> HIDE DEF S4
    <3> QED BY <1>7, <1>8, <2>0, <2>a
  <2> HIDE DEF S1, S2, S3, S4, S5
  <2> QED BY <1>a, <2>0, <2>1, <2>2, <2>3, <2>4, <2>5
<1> QED BY <1>9, <1>c

-----------------------------------------------------------------------------
(* Every record keeps its type. *)

LEMMA ReadyTyped ==
  ASSUME NEW s \in StatusRecs, NEW r, NEW probe \in Probes
  PROVE  Ready(s, r, probe) \in StatusRecs
<1> DEFINE st == IF probe \in Unready THEN probe
                 ELSE IF probe # "READY" \/ s.status \in Exhausted THEN s.status
                 ELSE IF Local(r) THEN "AVAILABLE" ELSE "UNKNOWN"
<1>1. st \in Statuses
  BY DEF StatusRecs, Statuses, Blocked
<1>2. Ready(s, r, probe) = [s EXCEPT !.readiness = probe, !.status = st]
  BY DEF Ready
<1> HIDE DEF st
<1> QED BY <1>1, <1>2 DEF StatusRecs

LEMMA NewStatusTyped == NewStatus \in StatusRecs
BY DEF NewStatus, StatusRecs, Statuses, Probes, None

LEMMA SweptTyped ==
  ASSUME NEW states \in PoolMaps, world \in [Resources -> Probes]
  PROVE  Swept(states) \in PoolMaps
<1> SUFFICES ASSUME NEW r \in Resources
             PROVE Rechecked(Recovered(states[r], r, world[r]), r, world[r]) \in StatusRecs
  BY DEF Swept, PoolMaps
<1> DEFINE s == states[r]  probe == world[r]
<1>1. s \in StatusRecs /\ probe \in Probes
  BY DEF PoolMaps
<1> HIDE DEF s, probe
<1>2. [s EXCEPT !.retry = None, !.status = "UNKNOWN"] \in StatusRecs
  <2>1. None \in Int /\ "UNKNOWN" \in Statuses
    BY DEF None, Statuses
  <2> QED BY <1>1, <2>1 DEF StatusRecs
<1>3. Recovered(s, r, probe) \in StatusRecs
  BY <1>1, <1>2, ReadyTyped DEF Recovered
<1>4. Rechecked(Recovered(s, r, probe), r, probe) \in StatusRecs
  BY <1>1, <1>3, ReadyTyped DEF Rechecked
<1> QED BY <1>4 DEF s, probe

LEMMA InitialisedTyped ==
  ASSUME NEW states \in PoolMaps, world \in [Resources -> Probes], NEW probe
  PROVE  Initialised(states, probe) \in PoolMaps
<1> SUFFICES ASSUME NEW r \in Resources PROVE Initialised(states, probe)[r] \in StatusRecs
  BY DEF Initialised, PoolMaps
<1> DEFINE s == states[r]
           unparked == IF s.status = "DISABLED"
                       THEN [s EXCEPT !.status = "UNKNOWN", !.readiness = "NOT_PROBED"] ELSE s
<1>1. s \in StatusRecs /\ world[r] \in Probes /\ "NOT_PROBED" \in Probes
      /\ "UNKNOWN" \in Statuses /\ "DISABLED" \in Statuses
  BY DEF PoolMaps, Probes, Statuses
<1>2. Initialised(states, probe)[r] =
        IF ~Usable(r) THEN [s EXCEPT !.status = "DISABLED", !.readiness = "NOT_PROBED"]
        ELSE IF probe THEN Ready(unparked, r, world[r]) ELSE unparked
  BY DEF Initialised
<1> HIDE DEF s
<1>3. [s EXCEPT !.status = "DISABLED", !.readiness = "NOT_PROBED"] \in StatusRecs
  BY <1>1 DEF StatusRecs
<1>4. unparked \in StatusRecs
  BY <1>1 DEF StatusRecs
<1> HIDE DEF unparked
<1>5. Ready(unparked, r, world[r]) \in StatusRecs
  BY <1>1, <1>4, ReadyTyped
<1> QED BY <1>2, <1>3, <1>4, <1>5

LEMMA AgedTyped ==
  ASSUME NEW states \in PoolMaps
  PROVE  Aged(states) \in PoolMaps
<1> SUFFICES ASSUME NEW r \in Resources PROVE [states[r] EXCEPT !.retry = Sooner(@)] \in StatusRecs
  BY DEF Aged, PoolMaps
<1>1. states[r] \in StatusRecs /\ states[r].retry \in Int
  BY DEF PoolMaps, StatusRecs
<1>2. Sooner(states[r].retry) \in Int
  BY <1>1 DEF Sooner
<1>3. [states[r] EXCEPT !.retry = Sooner(states[r].retry)] \in StatusRecs
  BY <1>1, <1>2 DEF StatusRecs
<1> QED BY <1>3

LEMMA ResetTyped ==
  ASSUME NEW s \in StatusRecs, NEW r, NEW probe \in Probes
  PROVE  ResetStatus(s, r, probe) \in StatusRecs
<1> DEFINE cleared == [s EXCEPT !.status = "UNKNOWN", !.retry = None, !.excluded = {}]
<1>1. cleared \in StatusRecs
  <2>1. None \in Int /\ "UNKNOWN" \in Statuses /\ {} \in SUBSET (Roles \cup {"review"})
    BY DEF None, Statuses
  <2> QED BY <2>1 DEF StatusRecs
<1> HIDE DEF cleared
<1>2. Ready(cleared, r, probe) \in StatusRecs
  BY <1>1, ReadyTyped
<1> QED BY <1>1, <1>2 DEF ResetStatus, cleared

LEMMA CooldownTyped == \A c : CooldownOf(c) \in Nat
BY PolicyAssumption, Zenon DEF CooldownOf

LEMMA AnswersTyped ==
  ASSUME NEW o \in Answers
  PROVE  /\ o.hint \in Int
         /\ o.ours => o.class \in {"WORKSPACE_TRUST_REQUIRED", "EXECUTION_BUDGET_EXCEEDED"}
<1>1. RetryHints \cup {None} \subseteq Int
  BY PolicyAssumption DEF None
<1>2. CASE \E e \in Evidence : \E h \in RetryHints \cup {None} :
             o = [class |-> Classify(e), ours |-> OurTrouble(e), hint |-> h]
  <2>1. PICK e \in Evidence, h \in RetryHints \cup {None} :
          o = [class |-> Classify(e), ours |-> OurTrouble(e), hint |-> h]
    BY <1>2
  <2>2. o.class = Classify(e) /\ o.ours = OurTrouble(e) /\ o.hint = h
    BY <2>1
  <2>3. ASSUME OurTrouble(e) PROVE Classify(e) \in {"WORKSPACE_TRUST_REQUIRED", "EXECUTION_BUDGET_EXCEEDED"}
    <3>1. StructuralFailure(e) \in {"WORKSPACE_TRUST_REQUIRED", "EXECUTION_BUDGET_EXCEEDED"}
      BY <2>3 DEF OurTrouble, StructuralFailure
    <3> QED BY <3>1 DEF Classify
  <2> QED BY <1>1, <2>2, <2>3
<1>3. CASE \E c \in {"SUCCESS", "RESOURCE_CONSTRAINED"} : o = [class |-> c, ours |-> FALSE, hint |-> None]
  <2>1. o.ours = FALSE /\ o.hint = None
    BY <1>3
  <2> QED BY <1>1, <2>1
<1> QED BY <1>2, <1>3 DEF Answers

LEMMA RecordedTyped ==
  ASSUME NEW s \in StatusRecs, NEW r, NEW role \in Roles, NEW o \in Answers
  PROVE  Recorded(s, r, role, o) \in StatusRecs /\ Constrained(s) \in StatusRecs
<1> DEFINE counted == IF Metered(r) THEN [s EXCEPT !.metered = @ + 1] ELSE s
<1>1. counted \in StatusRecs
  <2>1. s.metered + 1 \in Nat
    BY DEF StatusRecs
  <2>2. [s EXCEPT !.metered = s.metered + 1] \in StatusRecs
    BY <2>1 DEF StatusRecs
  <2> QED BY <2>2
<1>2. Recorded(s, r, role, o) = IF o.class = "SUCCESS" THEN Succeeded(counted, role) ELSE Failed(counted, role, o)
  BY DEF Recorded
<1> HIDE DEF counted
<1>3. counted.excluded \in SUBSET (Roles \cup {"review"}) /\ counted.retry \in Int
  BY <1>1 DEF StatusRecs
<1>4. Succeeded(counted, role) \in StatusRecs
  <2>1. None \in Int /\ "AVAILABLE" \in Statuses /\ counted.excluded \ {role} \in SUBSET (Roles \cup {"review"})
    BY <1>3 DEF None, Statuses
  <2>2. [counted EXCEPT !.status = "AVAILABLE", !.retry = None, !.excluded = counted.excluded \ {role}] \in StatusRecs
    BY <1>1, <2>1 DEF StatusRecs
  <2> QED BY <2>2 DEF Succeeded
<1>5. Failed(counted, role, o) \in StatusRecs
  <2> DEFINE x == counted.excluded \cup {role} \cup IF ReviewRole(role) THEN {"review"} ELSE {}
  <2>1. x \in SUBSET (Roles \cup {"review"})
    BY <1>3
  <2>2. [counted EXCEPT !.excluded = x] \in StatusRecs
    <3> HIDE DEF x
    <3> QED BY <1>1, <2>1 DEF StatusRecs
  <2>3. RetryAt(counted, o) \in Int
    <3>1. o.hint \in Int /\ CooldownOf(o.class) \in Nat
      BY AnswersTyped, CooldownTyped
    <3> QED BY <1>3, <3>1 DEF RetryAt
  <2>4. CapacityOf(o.class) # "none" => CapacityOf(o.class) \in Statuses
    BY DEF CapacityOf, Statuses, Blocked, Exhausted, Unready
  <2>5. CapacityOf(o.class) # "none" =>
          [counted EXCEPT !.status = CapacityOf(o.class), !.retry = RetryAt(counted, o)] \in StatusRecs
    BY <1>1, <2>3, <2>4 DEF StatusRecs
  <2>6. [counted EXCEPT !.excluded = @ \cup {role} \cup IF ReviewRole(role) THEN {"review"} ELSE {}] \in StatusRecs
    BY <2>2
  <2> HIDE DEF x
  <2> QED BY <1>1, <2>5, <2>6, Zenon DEF Failed
<1>6. Constrained(s) \in StatusRecs
  BY DEF Constrained, StatusRecs, Statuses, Blocked
<1> QED BY <1>2, <1>4, <1>5, <1>6
-----------------------------------------------------------------------------
(* Every variable keeps its type. *)

\* The invariant of a process's review: c its cycle, a what became of the candidates of the
\* current role, j what its agent works on.  Candidates to come are different and were not
\* asked; every launch of the role's budget is left, spent on an answer, or under way.
Reviewing(j) == j.role \in Roles \ {"implementation"}
Answered(a) == {r \in Resources : a[r] = "answered"}
Underway(j) == IF Reviewing(j) THEN 1 ELSE 0

QueueFresh(c, a) ==
  /\ \A i \in DOMAIN c.queue : a[c.queue[i]] = "not"
  /\ \A i, k \in DOMAIN c.queue : i < k => c.queue[i] # c.queue[k]

ReviewerApart(c, a, j) ==
  Reviewing(j) => /\ j.resource \in Resources /\ a[j.resource] = "not" /\ Len(c.served) < c.role
                  /\ \A i \in DOMAIN c.queue : c.queue[i] # j.resource

LaunchesCounted(c, a, j) ==
  c.role > 0 => c.budget + Cardinality(Answered(a)) + Underway(j) = MaxLaunches

AllHadATurn(c, a) ==
  c.role > 0 /\ Len(c.served) = c.role /\ c.served[c.role] = None
    => c.queue = <<>> \/ Cardinality(Answered(a)) >= MaxLaunches

TurnOK(c, a, j) ==
  /\ c \in Turns /\ a \in Asking /\ j \in Assignments
  /\ Len(c.served) <= c.role
  /\ QueueFresh(c, a) /\ ReviewerApart(c, a, j) /\ LaunchesCounted(c, a, j) /\ AllHadATurn(c, a)

\* The inductive invariant of the pool.
PoolInv ==
  /\ RecordsTyped
  /\ running \in [Pools -> Assignments] /\ cycle \in [Pools -> Turns] /\ asked \in [Pools -> Asking]
  /\ \A p \in Pools : TurnOK(cycle[p], asked[p], running[p])

LEMMA PersistTyped ==
  ASSUME RecordsTyped, NEW p \in Pools, NEW states \in PoolMaps, Persist(p, states), world' = world
  PROVE  RecordsTyped'
BY DEF RecordsTyped, Persist

LEMMA AfterResultTyped ==
  ASSUME PoolInv, NEW p \in Pools, NEW o \in Answers, AfterResult(p, o), running[p].role \in Roles,
         world' = world
  PROVE  RecordsTyped'
<1> DEFINE r == running[p].resource  s == mem[p][r]
           new == IF o.class = "RESOURCE_CONSTRAINED" THEN Constrained(s)
                  ELSE Recorded(s, r, running[p].role, o)
<1>1. mem[p] \in PoolMaps /\ Persist(p, [mem[p] EXCEPT ![r] = new])
  BY DEF PoolInv, RecordsTyped, AfterResult
<1>2. [mem[p] EXCEPT ![r] = new] \in PoolMaps
  <2>1. CASE r \in Resources
    <3>1. s \in StatusRecs
      BY <1>1, <2>1 DEF PoolMaps
    <3>2. new \in StatusRecs
      <4> HIDE DEF s, r
      <4> QED BY <3>1, RecordedTyped
    <3> HIDE DEF new
    <3> QED BY <1>1, <2>1, <3>2 DEF PoolMaps
  <2>2. CASE r \notin Resources
    <3> HIDE DEF new, r
    <3> QED BY <1>1, <2>2 DEF PoolMaps
  <2> QED BY <2>1, <2>2
<1> HIDE DEF new, r
<1> QED BY <1>1, <1>2, PersistTyped DEF PoolInv

LEMMA RecordsTypedKept ==
  ASSUME PoolInv, [PoolNext]_poolVars
  PROVE  RecordsTyped'
<1>0. /\ disk \in PoolMaps /\ mem \in [Pools -> PoolMaps] /\ world \in [Resources -> Probes]
      /\ RecordsTyped
  BY DEF PoolInv, RecordsTyped
<1>1. ASSUME NEW p \in Pools, Open(p) PROVE RecordsTyped'
  <2>1. PICK probe \in BOOLEAN : disk' = Initialised(disk, probe) /\ mem' = [mem EXCEPT ![p] = disk']
    BY <1>1 DEF Open
  <2>2. disk' \in PoolMaps
    BY <1>0, <2>1, InitialisedTyped
  <2> QED BY <1>0, <1>1, <2>1, <2>2 DEF Open, RecordsTyped
<1>2. ASSUME NEW p \in Pools, Close(p) PROVE RecordsTyped'
  <2>1. Unrecorded \in PoolMaps
    BY NewStatusTyped DEF Unrecorded, PoolMaps
  <2> QED BY <1>0, <1>2, <2>1 DEF Close, RecordsTyped
<1>3. ASSUME NEW p \in Pools, Select(p) \/ PlanReview(p) \/ StartRole(p) PROVE RecordsTyped'
  <2>1. Persist(p, Swept(mem[p])) /\ world' = world
    <3>1. CASE Select(p)
      BY <3>1 DEF Select
    <3>2. CASE PlanReview(p)
      BY <3>2 DEF PlanReview
    <3>3. CASE StartRole(p)
      BY <3>3 DEF StartRole
    <3> QED BY <1>3, <3>1, <3>2, <3>3
  <2>2. Swept(mem[p]) \in PoolMaps
    BY <1>0, SweptTyped
  <2> QED BY <1>0, <2>1, <2>2, PersistTyped
<1>4. ASSUME NEW p \in Pools, ImplementationEnds(p) \/ ReviewerEnds(p) PROVE RecordsTyped'
  <2>1. running[p].role \in Roles /\ world' = world /\ \E o \in Answers : AfterResult(p, o)
    <3>1. CASE ImplementationEnds(p)
      BY <3>1, PoolConstants DEF ImplementationEnds, Possible
    <3>2. CASE ReviewerEnds(p)
      BY <3>2 DEF ReviewerEnds, Possible
    <3> QED BY <1>4, <3>1, <3>2
  <2> QED BY <2>1, AfterResultTyped
<1>5. ASSUME NEW p \in Pools, AskNext(p) \/ RoleFails(p) \/ CycleEnds(p) PROVE RecordsTyped'
  BY <1>0, <1>5, Zenon DEF AskNext, RoleFails, CycleEnds, RecordsTyped
<1>6. ASSUME NEW p \in Pools, NEW r \in Resources, Reset(p, r) PROVE RecordsTyped'
  <2>1. mem[p] \in PoolMaps /\ mem[p][r] \in StatusRecs /\ world[r] \in Probes
    BY <1>0 DEF PoolMaps
  <2>2. ResetStatus(mem[p][r], r, world[r]) \in StatusRecs
    BY <2>1, ResetTyped
  <2>3. [mem[p] EXCEPT ![r] = ResetStatus(mem[p][r], r, world[r])] \in PoolMaps
    BY <2>1, <2>2 DEF PoolMaps
  <2>4. Persist(p, [mem[p] EXCEPT ![r] = ResetStatus(mem[p][r], r, world[r])]) /\ world' = world
    BY <1>6 DEF Reset
  <2> QED BY <1>0, <2>3, <2>4, PersistTyped
<1>7. ASSUME NEW r \in Resources, Weather(r) PROVE RecordsTyped'
  BY <1>0, <1>7 DEF Weather, RecordsTyped, Probes
<1>8. ASSUME TimePasses PROVE RecordsTyped'
  BY <1>0, <1>8, AgedTyped DEF TimePasses, RecordsTyped
<1>9. ASSUME UNCHANGED poolVars PROVE RecordsTyped'
  BY <1>0, <1>9 DEF poolVars, RecordsTyped
<1> QED BY <1>1, <1>2, <1>3, <1>4, <1>5, <1>6, <1>7, <1>8, <1>9 DEF PoolNext, Run
-----------------------------------------------------------------------------
(* What each step does to the review of its process. *)

LEMMA AnsweredFinite ==
  ASSUME NEW a \in Asking
  PROVE  IsFiniteSet(Answered(a)) /\ Cardinality(Answered(a)) \in Nat
<1>1. IsFiniteSet(Answered(a))
  BY PolicyAssumption, FS_Subset DEF Answered
<1> QED BY <1>1, FS_CardinalityType

\* What a candidate that has not answered does to the count of answers.
LEMMA AnswersCounted ==
  ASSUME NEW a \in Asking, NEW r \in Resources, a[r] = "not"
  PROVE  /\ [a EXCEPT ![r] = "away"] \in Asking /\ [a EXCEPT ![r] = "answered"] \in Asking
         /\ Cardinality(Answered([a EXCEPT ![r] = "away"])) = Cardinality(Answered(a))
         /\ Cardinality(Answered([a EXCEPT ![r] = "answered"])) = Cardinality(Answered(a)) + 1
<1>1. /\ Answered([a EXCEPT ![r] = "away"]) = Answered(a)
      /\ Answered([a EXCEPT ![r] = "answered"]) = Answered(a) \cup {r} /\ r \notin Answered(a)
  BY DEF Answered, Asking
<1>2. Cardinality(Answered(a) \cup {r}) = Cardinality(Answered(a)) + 1
  BY <1>1, AnsweredFinite, FS_AddElement
<1>3. [a EXCEPT ![r] = "away"] \in Asking /\ [a EXCEPT ![r] = "answered"] \in Asking
  BY DEF Asking
<1> QED BY <1>1, <1>2, <1>3

LEMMA NoOneAnswered == Unasked \in Asking /\ Cardinality(Answered(Unasked)) = 0
<1>1. Unasked \in Asking /\ Answered(Unasked) = {}
  BY DEF Unasked, Asking, Answered
<1> QED BY <1>1, FS_EmptySet

LEMMA AtRest ==
  /\ Idle \in Assignments /\ ~Reviewing(Idle)
  /\ \A r \in Resources : LET j == [resource |-> r, role |-> "implementation"] IN
                          j \in Assignments /\ ~Reviewing(j)
<1>1. Idle \in Assignments /\ ~Reviewing(Idle)
  BY PoolConstants DEF Idle, Assignments, Reviewing
<1>2. ASSUME NEW r \in Resources
      PROVE  LET j == [resource |-> r, role |-> "implementation"] IN j \in Assignments /\ ~Reviewing(j)
  BY PoolConstants DEF Assignments, Reviewing
<1> QED BY <1>1, <1>2

LEMMA FreshTurn ==
  ASSUME NEW m \in Resources \cup {None}, NEW a \in Asking, NEW j \in Assignments, ~Reviewing(j)
  PROVE  TurnOK([NoCycle EXCEPT !.maker = m], a, j) /\ TurnOK(NoCycle, a, j)
<1>1. ASSUME NEW n \in Resources \cup {None}, NEW c,
             c = [maker |-> n, mapping |-> <<>>, role |-> 0, queue |-> <<>>, budget |-> 0, served |-> <<>>]
      PROVE  TurnOK(c, a, j)
  <2>1. c \in Turns
    <3>1. /\ <<>> \in Seq(Resources) /\ <<>> \in Seq(Resources \cup {None}) /\ 0 \in 0..Len(ReviewRoles)
          /\ <<>> \in {<<>>} \cup [DOMAIN ReviewRoles -> Resources] /\ 0 \in Nat
      BY PoolConstants
    <3>2. [maker |-> n, mapping |-> <<>>, role |-> 0, queue |-> <<>>, budget |-> 0, served |-> <<>>] \in Turns
      BY <3>1 DEF Turns
    <3> QED BY <1>1, <3>2
  <2>2. c.queue = <<>> /\ c.role = 0 /\ Len(c.served) = 0 /\ DOMAIN c.queue = {}
    BY <1>1
  <2> QED BY <2>1, <2>2 DEF TurnOK, QueueFresh, ReviewerApart, LaunchesCounted, AllHadATurn
<1>2. [NoCycle EXCEPT !.maker = m] = [maker |-> m, mapping |-> <<>>, role |-> 0, queue |-> <<>>,
                                      budget |-> 0, served |-> <<>>]
  BY DEF NoCycle
<1> QED BY <1>1, <1>2 DEF NoCycle

LEMMA RestedTurn ==
  ASSUME NEW c, NEW a, NEW j, TurnOK(c, a, j), ~Reviewing(j), NEW k \in Assignments, ~Reviewing(k)
  PROVE  TurnOK(c, a, k)
BY DEF TurnOK, ReviewerApart, LaunchesCounted, Underway

LEMMA PlannedTurn ==
  ASSUME NEW c, NEW a, NEW j, TurnOK(c, a, j), NEW m \in [DOMAIN ReviewRoles -> Resources]
  PROVE  TurnOK([c EXCEPT !.mapping = m], a, j)
<1> DEFINE d == [c EXCEPT !.mapping = m]
<1>1. c \in Turns
  BY DEF TurnOK
<1>2. /\ d \in Turns /\ d.role = c.role /\ d.queue = c.queue /\ d.budget = c.budget
      /\ d.served = c.served
  BY <1>1 DEF Turns
<1> HIDE DEF d
<1>3. TurnOK(d, a, j)
  BY <1>2 DEF TurnOK, QueueFresh, ReviewerApart, LaunchesCounted, AllHadATurn
<1> QED BY <1>3 DEF d

LEMMA StartedTurn ==
  ASSUME NEW c, NEW a, NEW j, TurnOK(c, a, j), ~Reviewing(j), c.role + 1 <= Len(ReviewRoles),
         NEW q \in Seq(Resources), \A i, k \in DOMAIN q : i < k => q[i] # q[k]
  PROVE  TurnOK([c EXCEPT !.role = c.role + 1, !.budget = MaxLaunches, !.queue = q], Unasked, j)
<1> DEFINE d == [c EXCEPT !.role = c.role + 1, !.budget = MaxLaunches, !.queue = q]
<1>1. c \in Turns /\ c.role \in Nat /\ Len(c.served) <= c.role /\ Len(c.served) \in Nat /\ j \in Assignments
  BY PoolConstants DEF TurnOK, Turns
<1>2. c.role + 1 \in 0..Len(ReviewRoles) /\ MaxLaunches \in Nat
  BY <1>1, PolicyAssumption, PoolConstants
<1>3. /\ d \in Turns /\ d.role = c.role + 1 /\ d.queue = q /\ d.budget = MaxLaunches
      /\ d.served = c.served
  BY <1>1, <1>2 DEF Turns
<1> HIDE DEF d
<1>4. QueueFresh(d, Unasked)
  <2>1. \A i \in DOMAIN q : q[i] \in Resources
    OBVIOUS
  <2> QED BY <1>3, <2>1 DEF QueueFresh, Unasked
<1>5. ReviewerApart(d, Unasked, j)
  BY DEF ReviewerApart
<1>6. LaunchesCounted(d, Unasked, j)
  BY <1>2, <1>3, NoOneAnswered DEF LaunchesCounted, Underway
<1>7. AllHadATurn(d, Unasked) /\ Len(d.served) <= d.role
  BY <1>1, <1>3 DEF AllHadATurn
<1>8. TurnOK(d, Unasked, j)
  BY <1>1, <1>3, <1>4, <1>5, <1>6, <1>7, NoOneAnswered DEF TurnOK
<1> QED BY <1>8 DEF d
\* The queue without its head.
LEMMA TailFresh ==
  ASSUME NEW q \in Seq(Resources), q # <<>>
  PROVE  /\ Head(q) \in Resources /\ Tail(q) \in Seq(Resources) /\ 1 \in DOMAIN q /\ Head(q) = q[1]
         /\ \A i \in DOMAIN Tail(q) : i + 1 \in DOMAIN q /\ 1 < i + 1 /\ Tail(q)[i] = q[i + 1]
         /\ \A i, k \in DOMAIN Tail(q) : i < k => i + 1 < k + 1
<1>1. Len(q) \in Nat /\ Len(q) > 0 /\ DOMAIN q = 1..Len(q) /\ DOMAIN Tail(q) = 1..(Len(q) - 1)
  OBVIOUS
<1>2. Tail(q) \in Seq(Resources) /\ Head(q) = q[1] /\ \A i \in DOMAIN Tail(q) : Tail(q)[i] = q[i + 1]
  BY <1>1
<1> QED BY <1>1, <1>2

\* A candidate in turn: the queue loses its head, which is not a later candidate.
HeadGone(c, b) == [c EXCEPT !.queue = Tail(c.queue), !.budget = b]

LEMMA HeadTaken ==
  ASSUME NEW c \in Turns, NEW a \in Asking, c.queue # <<>>, QueueFresh(c, a), NEW b \in Nat
  PROVE  LET d == HeadGone(c, b) IN
         /\ d \in Turns /\ d.role = c.role /\ d.served = c.served /\ d.budget = b
         /\ Head(c.queue) \in Resources /\ a[Head(c.queue)] = "not"
         /\ QueueFresh(d, a) /\ \A i \in DOMAIN d.queue : d.queue[i] # Head(c.queue)
<1> DEFINE d == HeadGone(c, b)
<1>1. c.queue \in Seq(Resources)
  BY DEF Turns
<1> DEFINE q == c.queue  t == Tail(q)
<1>2. d \in Turns /\ d.role = c.role /\ d.served = c.served /\ d.budget = b /\ d.queue = t
  <2>1. t \in Seq(Resources)
    BY <1>1, TailFresh
  <2> HIDE DEF t
  <2> QED BY <2>1 DEF Turns, t, HeadGone
<1>3. /\ \A i \in DOMAIN q : a[q[i]] = "not"
      /\ \A i, k \in DOMAIN q : i < k => q[i] # q[k]
  BY DEF QueueFresh
<1> HIDE DEF q, t, d
<1>4. Head(q) \in Resources /\ a[Head(q)] = "not"
  BY <1>1, <1>3, TailFresh DEF q
<1>5. \A i \in DOMAIN t : a[t[i]] = "not" /\ t[i] # Head(q)
  BY <1>1, <1>3, TailFresh DEF q, t
<1>6. \A i, k \in DOMAIN t : i < k => t[i] # t[k]
  BY <1>1, <1>3, TailFresh DEF q, t
<1> QED BY <1>2, <1>4, <1>5, <1>6 DEF QueueFresh, q, d

LEMMA PassedTurn ==
  ASSUME NEW c, NEW a, NEW j, TurnOK(c, a, j), ~Reviewing(j), Len(c.served) < c.role, c.queue # <<>>
  PROVE  TurnOK([c EXCEPT !.queue = Tail(c.queue)], [a EXCEPT ![Head(c.queue)] = "away"], j)
<1> DEFINE d == [c EXCEPT !.queue = Tail(c.queue), !.budget = c.budget]
           r == Head(c.queue)  e == [a EXCEPT ![r] = "away"]
<1>1. c \in Turns /\ a \in Asking /\ j \in Assignments /\ QueueFresh(c, a) /\ LaunchesCounted(c, a, j)
  BY DEF TurnOK
<1>2. c.budget \in Nat /\ [c EXCEPT !.queue = Tail(c.queue)] = d
  BY <1>1 DEF Turns
<1>3. /\ d \in Turns /\ d.role = c.role /\ d.served = c.served /\ d.budget = c.budget
      /\ r \in Resources /\ a[r] = "not"
      /\ QueueFresh(d, a) /\ \A i \in DOMAIN d.queue : d.queue[i] # r
  <2>1. d = HeadGone(c, c.budget)
    BY DEF HeadGone
  <2> HIDE DEF d
  <2> QED BY <1>1, <1>2, <2>1, HeadTaken
<1> HIDE DEF d, r
<1>4. e \in Asking /\ Cardinality(Answered(e)) = Cardinality(Answered(a))
  BY <1>1, <1>3, AnswersCounted
<1>5. QueueFresh(d, e)
  <2>1. \A i \in DOMAIN d.queue : d.queue[i] \in Resources
    BY <1>3 DEF Turns
  <2> QED BY <1>1, <1>3, <2>1 DEF QueueFresh, Asking
<1>6. LaunchesCounted(d, e, j)
  BY <1>1, <1>3, <1>4 DEF LaunchesCounted
<1> HIDE DEF e
<1>7. TurnOK(d, e, j)
  BY <1>1, <1>3, <1>4, <1>5, <1>6 DEF TurnOK, ReviewerApart, AllHadATurn
<1> QED BY <1>2, <1>7 DEF e, r

LEMMA LaunchedTurn ==
  ASSUME NEW c, NEW a, NEW j, TurnOK(c, a, j), ~Reviewing(j), Len(c.served) < c.role, c.queue # <<>>,
         c.budget > 0
  PROVE  TurnOK([c EXCEPT !.queue = Tail(c.queue), !.budget = c.budget - 1], a,
                [resource |-> Head(c.queue), role |-> ReviewRoles[c.role]])
<1> DEFINE b == c.budget - 1  d == [c EXCEPT !.queue = Tail(c.queue), !.budget = b]
           r == Head(c.queue)  k == [resource |-> r, role |-> ReviewRoles[c.role]]
<1>1. /\ c \in Turns /\ a \in Asking /\ QueueFresh(c, a) /\ LaunchesCounted(c, a, j)
      /\ c.role \in 0..Len(ReviewRoles) /\ Len(c.served) \in Nat /\ c.budget \in Nat
  BY DEF TurnOK, Turns
<1>2. b \in Nat /\ c.role > 0 /\ c.role \in DOMAIN ReviewRoles
  BY <1>1, PoolConstants
<1>3. /\ d \in Turns /\ d.role = c.role /\ d.served = c.served /\ d.budget = b
      /\ r \in Resources /\ a[r] = "not"
      /\ QueueFresh(d, a) /\ \A i \in DOMAIN d.queue : d.queue[i] # r
  <2>1. d = HeadGone(c, b)
    BY DEF HeadGone
  <2> HIDE DEF d, b
  <2> QED BY <1>1, <1>2, <2>1, HeadTaken
<1>4. k \in Assignments /\ Reviewing(k) /\ k.resource = r
  <2> HIDE DEF r
  <2> QED BY <1>2, <1>3, PoolConstants DEF Assignments, Reviewing
<1> HIDE DEF d, r, k
<1>5. LaunchesCounted(d, a, k)
  <2>1. c.budget + Cardinality(Answered(a)) + 0 = MaxLaunches
    BY <1>1, <1>2 DEF LaunchesCounted, Underway
  <2>2. Underway(k) = 1 /\ Cardinality(Answered(a)) \in Nat
    BY <1>1, <1>4, AnsweredFinite DEF Underway
  <2>3. b + Cardinality(Answered(a)) + 1 = MaxLaunches
    BY <1>1, <2>1, <2>2
  <2> HIDE DEF b
  <2> QED BY <1>3, <2>2, <2>3 DEF LaunchesCounted
<1>6. ReviewerApart(d, a, k)
  BY <1>3, <1>4 DEF ReviewerApart
<1>7. TurnOK(d, a, k)
  BY <1>1, <1>3, <1>4, <1>5, <1>6 DEF TurnOK, AllHadATurn
<1> QED BY <1>7 DEF d, k, r, b

LEMMA FailedTurn ==
  ASSUME NEW c, NEW a, NEW j, TurnOK(c, a, j), ~Reviewing(j), Len(c.served) < c.role,
         c.queue = <<>> \/ c.budget = 0
  PROVE  TurnOK([c EXCEPT !.served = Append(c.served, None)], a, j)
<1> DEFINE f == Append(c.served, None)  d == [c EXCEPT !.served = f]
<1>1. /\ c \in Turns /\ a \in Asking /\ j \in Assignments /\ QueueFresh(c, a) /\ LaunchesCounted(c, a, j)
      /\ c.role \in Nat /\ c.budget \in Nat /\ c.served \in Seq(Resources \cup {None})
  BY PoolConstants DEF TurnOK, Turns
<1>2. f \in Seq(Resources \cup {None}) /\ Len(f) = Len(c.served) + 1 /\ Len(c.served) \in Nat
  BY <1>1
<1> HIDE DEF f
<1>3. /\ d \in Turns /\ d.role = c.role /\ d.served = f /\ d.budget = c.budget
      /\ d.queue = c.queue
  BY <1>1, <1>2 DEF Turns
<1> HIDE DEF d
<1>4. c.queue = <<>> \/ Cardinality(Answered(a)) >= MaxLaunches
  <2>1. CASE c.budget = 0
    <3>1. c.role > 0 /\ Cardinality(Answered(a)) \in Nat /\ Underway(j) = 0 /\ MaxLaunches \in Nat
      BY <1>1, <1>2, AnsweredFinite, PolicyAssumption DEF Underway
    <3> QED BY <1>1, <2>1, <3>1 DEF LaunchesCounted
  <2> QED BY <2>1
<1>5. QueueFresh(d, a) /\ LaunchesCounted(d, a, j) /\ ReviewerApart(d, a, j) /\ AllHadATurn(d, a)
  BY <1>1, <1>3, <1>4 DEF QueueFresh, LaunchesCounted, ReviewerApart, AllHadATurn
<1>6. Len(d.served) <= d.role
  BY <1>1, <1>2, <1>3
<1>7. TurnOK(d, a, j)
  BY <1>1, <1>3, <1>5, <1>6 DEF TurnOK
<1> QED BY <1>7 DEF d, f

\* A reviewer that ends: an exhausted provider gives the launch back, another has answered.
LEMMA ReviewedTurn ==
  ASSUME NEW c, NEW a, NEW j, TurnOK(c, a, j), Reviewing(j), NEW away \in BOOLEAN, NEW f,
         f = c.served \/ f = Append(c.served, j.resource),
         NEW n, n = (IF away THEN 1 ELSE 0)
  PROVE  TurnOK([c EXCEPT !.budget = c.budget + n, !.served = f],
                [a EXCEPT ![j.resource] = IF away THEN "away" ELSE "answered"], Idle)
<1> DEFINE r == j.resource  b == c.budget + n  d == [c EXCEPT !.budget = b, !.served = f]
           e == [a EXCEPT ![r] = IF away THEN "away" ELSE "answered"]
<1>1. /\ c \in Turns /\ a \in Asking /\ QueueFresh(c, a) /\ LaunchesCounted(c, a, j)
      /\ c.role \in Nat /\ c.budget \in Nat /\ c.served \in Seq(Resources \cup {None})
      /\ Len(c.served) \in Nat /\ n \in Nat /\ b \in Nat
  BY PoolConstants DEF TurnOK, Turns
<1>2. /\ r \in Resources /\ a[r] = "not" /\ Len(c.served) < c.role
      /\ \A i \in DOMAIN c.queue : c.queue[i] # r
  BY DEF TurnOK, ReviewerApart
<1>3. /\ f \in Seq(Resources \cup {None}) /\ Len(f) <= c.role
      /\ Len(f) = c.role => f[c.role] \in Resources
  <2>1. CASE f = c.served
    BY <1>1, <1>2, <2>1
  <2>2. CASE f = Append(c.served, r)
    <3> HIDE DEF r
    <3>1. f \in Seq(Resources \cup {None}) /\ Len(f) = Len(c.served) + 1 /\ f[Len(f)] = r
      BY <1>1, <1>2, <2>2
    <3> QED BY <1>1, <1>2, <3>1
  <2> QED BY <2>1, <2>2
<1> HIDE DEF b, r
<1>4. /\ d \in Turns /\ d.role = c.role /\ d.served = f /\ d.budget = b
      /\ d.queue = c.queue
  BY <1>1, <1>3 DEF Turns
<1> HIDE DEF d
<1>5. /\ e \in Asking
      /\ Cardinality(Answered(e)) = Cardinality(Answered(a)) + (IF away THEN 0 ELSE 1)
  <2>1. CASE away
    <3>1. e = [a EXCEPT ![r] = "away"]
      BY <2>1
    <3> HIDE DEF e
    <3>2. e \in Asking /\ Cardinality(Answered(e)) = Cardinality(Answered(a))
      BY <1>1, <1>2, <3>1, AnswersCounted
    <3>3. Cardinality(Answered(a)) \in Nat
      BY <1>1, AnsweredFinite
    <3> QED BY <2>1, <3>2, <3>3
  <2>2. CASE ~away
    <3>1. e = [a EXCEPT ![r] = "answered"]
      BY <2>2
    <3> HIDE DEF e
    <3> QED BY <1>1, <1>2, <2>2, <3>1, AnswersCounted, AnsweredFinite
  <2> QED BY <2>1, <2>2
<1>6. QueueFresh(d, e)
  <2>1. \A i \in DOMAIN c.queue : c.queue[i] \in Resources
    BY <1>1 DEF Turns
  <2>2. \A i \in DOMAIN c.queue : e[c.queue[i]] = a[c.queue[i]]
    BY <1>1, <1>2, <2>1 DEF Asking
  <2> HIDE DEF e
  <2> QED BY <1>1, <1>4, <2>2 DEF QueueFresh
<1> HIDE DEF e
<1>7. LaunchesCounted(d, e, Idle)
  <2>1. Underway(j) = 1 /\ Underway(Idle) = 0 /\ Cardinality(Answered(a)) \in Nat /\ MaxLaunches \in Nat
    BY <1>1, AtRest, AnsweredFinite, PolicyAssumption DEF Underway
  <2>2. c.budget + Cardinality(Answered(a)) + 1 = MaxLaunches
    BY <1>1, <1>2, <2>1 DEF LaunchesCounted
  <2>3. b + Cardinality(Answered(e)) + 0 = MaxLaunches
    BY <1>1, <1>5, <2>1, <2>2 DEF b
  <2> QED BY <1>4, <2>1, <2>3 DEF LaunchesCounted
<1>8. ReviewerApart(d, e, Idle) /\ AllHadATurn(d, e)
  BY <1>3, <1>4, AtRest, PoolConstants DEF ReviewerApart, AllHadATurn
<1>9. TurnOK(d, e, Idle)
  BY <1>1, <1>3, <1>4, <1>5, <1>6, <1>7, <1>8, AtRest DEF TurnOK
<1> QED BY <1>9 DEF d, e, b, r
-----------------------------------------------------------------------------
(* The order in which candidates are asked puts no candidate before itself. *)

LEMMA OrderTyped ==
  ASSUME NEW states, NEW maker, NEW role, NEW preferred, NEW advised, NEW r \in Resources
  PROVE  LET o == AskingOrder(states, maker, role, preferred, advised, r) IN
         \A n \in DOMAIN o : o[n] \in Nat
<1> DEFINE x == IF r = maker THEN 2 ELSE IF Profile[r].provider = Profile[maker].provider THEN 1 ELSE 0
           y == IF r # preferred THEN 1 ELSE IF CapacityBlocked(states[r], role) THEN 2 ELSE 0
           k == Rank(states, r, advised, preferred)
<1>1. x \in Nat /\ y \in Nat
  OBVIOUS
<1>2. k \in Seq(Nat)
  BY RankTyped
<1>3. AskingOrder(states, maker, role, preferred, advised, r) = <<x, y>> \o k
  BY DEF AskingOrder
<1> HIDE DEF x, y, k
<1>4. <<x, y>> \o k \in Seq(Nat)
  <2>1. <<x, y>> \in Seq(Nat)
    BY <1>1
  <2> QED BY <1>2, <2>1
<1>5. \A s \in Seq(Nat) : \A n \in DOMAIN s : s[n] \in Nat
  OBVIOUS
<1> QED BY <1>3, <1>4, <1>5

LEMMA NotBeforeItself ==
  ASSUME NEW o, \A n \in DOMAIN o : o[n] \in Nat
  PROVE  ~Before(o, o)
BY DEF Before

LEMMA QueueOfDifferent ==
  ASSUME NEW states, NEW maker, NEW role, NEW preferred \in Resources, NEW advised,
         NEW q \in ReviewQueues(states, maker, role, preferred, advised)
  PROVE  q \in Seq(Resources) /\ \A i, k \in DOMAIN q : i < k => q[i] # q[k]
<1> DEFINE C == Eligible(states, role, {}) \cup {preferred}
           order(r) == AskingOrder(states, maker, role, preferred, advised, r)
<1>1. q \in [1..Cardinality(C) -> C] /\ \A i, k \in DOMAIN q : i < k => Before(order(q[i]), order(q[k]))
  BY DEF ReviewQueues
<1>2. C \subseteq Resources /\ Cardinality(C) \in Nat
  <2>1. C \subseteq Resources
    BY DEF Eligible
  <2>2. IsFiniteSet(C)
    BY <2>1, PolicyAssumption, FS_Subset
  <2> QED BY <2>1, <2>2, FS_CardinalityType
<1> HIDE DEF C
<1>3. q \in Seq(Resources)
  <2>1. q \in [1..Cardinality(C) -> Resources]
    BY <1>1, <1>2
  <2> QED BY <1>2, <2>1
<1>4. ASSUME NEW i \in DOMAIN q, NEW k \in DOMAIN q, i < k PROVE q[i] # q[k]
  <2>1. q[i] \in Resources
    BY <1>3
  <2>2. ~Before(order(q[i]), order(q[i]))
    <3>1. \A n \in DOMAIN order(q[i]) : order(q[i])[n] \in Nat
      BY <2>1, OrderTyped
    <3> HIDE DEF order
    <3> QED BY <3>1, NotBeforeItself
  <2> QED BY <1>1, <1>4, <2>2
<1> QED BY <1>3, <1>4

-----------------------------------------------------------------------------
(* The invariant is inductive. *)

\* One process's step, seen from its review.
LEMMA OneTurn ==
  ASSUME PoolInv, NEW p \in Pools, NEW c, NEW a, NEW j, TurnOK(c, a, j),
         cycle' = [cycle EXCEPT ![p] = c], asked' = [asked EXCEPT ![p] = a],
         running' = [running EXCEPT ![p] = j], RecordsTyped'
  PROVE  PoolInv'
<1>1. c \in Turns /\ a \in Asking /\ j \in Assignments
  BY DEF TurnOK
<1>2. /\ running' \in [Pools -> Assignments] /\ cycle' \in [Pools -> Turns] /\ asked' \in [Pools -> Asking]
  BY <1>1 DEF PoolInv
<1>3. ASSUME NEW q \in Pools PROVE TurnOK(cycle'[q], asked'[q], running'[q])
  <2>1. CASE q = p
    BY <2>1 DEF PoolInv
  <2>2. CASE q # p
    <3>1. cycle'[q] = cycle[q] /\ asked'[q] = asked[q] /\ running'[q] = running[q]
      BY <2>2 DEF PoolInv
    <3> QED BY <3>1 DEF PoolInv
  <2> QED BY <2>1, <2>2
<1> QED BY <1>2, <1>3 DEF PoolInv

LEMMA SameTurns ==
  ASSUME PoolInv, UNCHANGED <<cycle, asked, running>>, RecordsTyped'
  PROVE  PoolInv'
BY DEF PoolInv

LEMMA PoolStarts == PoolInit => PoolInv
<1> SUFFICES ASSUME PoolInit PROVE PoolInv
  OBVIOUS
<1>1. RecordsTyped
  <2>1. Unrecorded \in PoolMaps
    BY NewStatusTyped DEF Unrecorded, PoolMaps
  <2> QED BY <2>1 DEF PoolInit, RecordsTyped, Probes
<1>2. TurnOK(NoCycle, Unasked, Idle)
  BY FreshTurn, AtRest, NoOneAnswered
<1>3. NoCycle \in Turns /\ Unasked \in Asking /\ Idle \in Assignments
  BY <1>2 DEF TurnOK
<1>4. /\ cycle = [p \in Pools |-> NoCycle] /\ asked = [p \in Pools |-> Unasked]
      /\ running = [p \in Pools |-> Idle]
  BY DEF PoolInit, Unasked
<1> QED BY <1>1, <1>2, <1>3, <1>4 DEF PoolInv
LEMMA ChosenIsCandidate ==
  ASSUME NEW S \in SUBSET Resources, NEW states, NEW explicit, NEW advised, NEW avoided
  PROVE  Chosen(states, S, explicit, advised, avoided) \in S \cup {None}
<1>1. Best(states, S, advised, avoided) \in S \cup {None}
  <2>1. CASE S = {}
    BY <2>1 DEF Best
  <2>2. CASE S # {}
    BY <2>2, BestIsCandidate
  <2> QED BY <2>1, <2>2
<1> QED BY <1>1 DEF Chosen

LEMMA SelectKeeps ==
  ASSUME PoolInv, RecordsTyped', NEW p \in Pools, Select(p)
  PROVE  PoolInv'
<1> DEFINE states == Swept(mem[p])  candidates == Eligible(states, "implementation", tried[p])
<1>1. candidates \in SUBSET Resources
  BY DEF Eligible
<1>2. PICK explicit \in Resources \cup {None} : \E advised \in Recommended(candidates) :
        \E judged \in Judgments(candidates, explicit) :
          LET advice == IF judged.pick = None THEN advised ELSE judged.pick
              r == IF judged.blocks THEN None ELSE Chosen(states, candidates, explicit, advice, None)
          IN  IF r = None THEN UNCHANGED running
              ELSE running' = [running EXCEPT ![p] = [resource |-> r, role |-> "implementation"]]
  BY Zenon DEF Select
<1> HIDE DEF candidates, states
<1>3. \/ UNCHANGED running
      \/ \E r \in Resources : running' = [running EXCEPT ![p] = [resource |-> r, role |-> "implementation"]]
  <2>1. \A advice : Chosen(states, candidates, explicit, advice, None) \in Resources \cup {None}
    BY <1>1, ChosenIsCandidate
  <2> QED BY <1>2, <2>1
<1>4. UNCHANGED <<cycle, asked>> /\ running[p] = Idle
  BY DEF Select
<1>5. CASE UNCHANGED running
  BY <1>4, <1>5, SameTurns
<1>6. ASSUME NEW r \in Resources,
             running' = [running EXCEPT ![p] = [resource |-> r, role |-> "implementation"]]
      PROVE  PoolInv'
  <2> DEFINE k == [resource |-> r, role |-> "implementation"]
  <2>1. k \in Assignments /\ ~Reviewing(k)
    BY AtRest
  <2>2. TurnOK(cycle[p], asked[p], running[p]) /\ ~Reviewing(running[p])
    BY <1>4, AtRest DEF PoolInv
  <2> HIDE DEF k
  <2>3. TurnOK(cycle[p], asked[p], k)
    BY <2>1, <2>2, RestedTurn
  <2>4. cycle' = [cycle EXCEPT ![p] = cycle[p]] /\ asked' = [asked EXCEPT ![p] = asked[p]]
    BY <1>4 DEF PoolInv
  <2> QED BY <1>6, <2>3, <2>4, OneTurn DEF k
<1> QED BY <1>3, <1>5, <1>6

LEMMA EndedWorkKeeps ==
  ASSUME PoolInv, RecordsTyped', NEW p \in Pools, ImplementationEnds(p)
  PROVE  PoolInv'
<1>1. /\ running[p].role = "implementation" /\ running' = [running EXCEPT ![p] = Idle]
      /\ UNCHANGED asked
      /\ \/ UNCHANGED cycle
         \/ cycle' = [cycle EXCEPT ![p] = [NoCycle EXCEPT !.maker = running[p].resource]]
  BY DEF ImplementationEnds
<1>2. /\ TurnOK(cycle[p], asked[p], running[p]) /\ running[p] \in Assignments
      /\ ~Reviewing(running[p]) /\ asked[p] \in Asking
      /\ asked' = [asked EXCEPT ![p] = asked[p]] /\ [cycle EXCEPT ![p] = cycle[p]] = cycle
  BY <1>1 DEF PoolInv, Reviewing
<1>3. TurnOK(cycle[p], asked[p], Idle)
  BY <1>2, AtRest, RestedTurn
<1>4. TurnOK([NoCycle EXCEPT !.maker = running[p].resource], asked[p], Idle)
  <2>1. running[p].resource \in Resources \cup {None}
    BY <1>2 DEF Assignments
  <2> QED BY <1>2, <2>1, AtRest, FreshTurn
<1>5. CASE UNCHANGED cycle
  BY <1>1, <1>2, <1>3, <1>5, OneTurn
<1>6. CASE cycle' = [cycle EXCEPT ![p] = [NoCycle EXCEPT !.maker = running[p].resource]]
  BY <1>1, <1>2, <1>4, <1>6, OneTurn
<1> QED BY <1>1, <1>5, <1>6

LEMMA PlanKeeps ==
  ASSUME PoolInv, RecordsTyped', NEW p \in Pools, PlanReview(p)
  PROVE  PoolInv'
<1>1. PICK m \in [DOMAIN ReviewRoles -> Resources] : cycle' = [cycle EXCEPT ![p].mapping = m]
  BY DEF PlanReview
<1>2. UNCHANGED <<running, asked>>
  BY DEF PlanReview
<1>3. TurnOK(cycle[p], asked[p], running[p])
  BY DEF PoolInv
<1>4. /\ cycle' = [cycle EXCEPT ![p] = [cycle[p] EXCEPT !.mapping = m]]
      /\ asked' = [asked EXCEPT ![p] = asked[p]] /\ running' = [running EXCEPT ![p] = running[p]]
  BY <1>1, <1>2 DEF PoolInv
<1>5. TurnOK([cycle[p] EXCEPT !.mapping = m], asked[p], running[p])
  BY <1>3, PlannedTurn
<1> QED BY <1>4, <1>5, OneTurn

LEMMA StartKeeps ==
  ASSUME PoolInv, RecordsTyped', NEW p \in Pools, StartRole(p)
  PROVE  PoolInv'
<1> DEFINE c == cycle[p]  i == c.role + 1  states == Swept(mem[p])
<1>1. /\ running[p] = Idle /\ UNCHANGED running /\ asked' = [asked EXCEPT ![p] = Unasked]
      /\ c.mapping # <<>> /\ i <= Len(ReviewRoles)
      /\ \E advised \in Resources :
         \E queue \in ReviewQueues(states, c.maker, ReviewRoles[i], c.mapping[i], advised) :
           cycle' = [cycle EXCEPT ![p] = [c EXCEPT !.role = i, !.budget = MaxLaunches, !.queue = queue]]
  BY DEF StartRole
<1>2. PICK advised \in Resources :
         \E queue \in ReviewQueues(states, c.maker, ReviewRoles[i], c.mapping[i], advised) :
           cycle' = [cycle EXCEPT ![p] = [c EXCEPT !.role = i, !.budget = MaxLaunches, !.queue = queue]]
  BY <1>1
<1>3. PICK queue \in ReviewQueues(states, c.maker, ReviewRoles[i], c.mapping[i], advised) :
           cycle' = [cycle EXCEPT ![p] = [c EXCEPT !.role = i, !.budget = MaxLaunches, !.queue = queue]]
  BY <1>2
<1>4. TurnOK(c, asked[p], running[p]) /\ ~Reviewing(running[p]) /\ c \in Turns
      /\ running' = [running EXCEPT ![p] = running[p]]
  BY <1>1, AtRest DEF PoolInv
<1>5. c.mapping[i] \in Resources
  <2>1. c.role \in 0..Len(ReviewRoles) /\ c.mapping \in [DOMAIN ReviewRoles -> Resources]
    BY <1>1, <1>4 DEF Turns
  <2>2. i \in DOMAIN ReviewRoles
    BY <1>1, <2>1, PoolConstants
  <2> QED BY <2>1, <2>2
<1> HIDE DEF c, states
<1>6. queue \in Seq(Resources) /\ \A m, n \in DOMAIN queue : m < n => queue[m] # queue[n]
  <2> HIDE DEF i
  <2> QED BY <1>3, <1>5, QueueOfDifferent
<1>7. TurnOK([c EXCEPT !.role = i, !.budget = MaxLaunches, !.queue = queue], Unasked, running[p])
  BY <1>1, <1>4, <1>6, StartedTurn
<1> HIDE DEF i
<1> QED BY <1>1, <1>3, <1>4, <1>7, OneTurn

LEMMA AskKeeps ==
  ASSUME PoolInv, RecordsTyped', NEW p \in Pools, AskNext(p)
  PROVE  PoolInv'
<1> DEFINE c == cycle[p]  r == Head(c.queue)
<1>1. running[p] = Idle /\ Len(c.served) < c.role /\ c.queue # <<>> /\ c.budget > 0
  BY DEF AskNext, InRole
<1>2. TurnOK(c, asked[p], running[p]) /\ ~Reviewing(running[p]) /\ c \in Turns
  BY <1>1, AtRest DEF PoolInv
<1>3. CASE /\ cycle' = [cycle EXCEPT ![p].queue = Tail(@)]
           /\ asked' = [asked EXCEPT ![p][r] = "away"] /\ UNCHANGED running
  <2>1. /\ cycle' = [cycle EXCEPT ![p] = [c EXCEPT !.queue = Tail(c.queue)]]
        /\ asked' = [asked EXCEPT ![p] = [asked[p] EXCEPT ![r] = "away"]]
        /\ running' = [running EXCEPT ![p] = running[p]]
    BY <1>3 DEF PoolInv
  <2>2. TurnOK([c EXCEPT !.queue = Tail(c.queue)], [asked[p] EXCEPT ![r] = "away"], running[p])
    <3> HIDE DEF c
    <3> QED BY <1>1, <1>2, PassedTurn
  <2> HIDE DEF c, r
  <2> QED BY <2>1, <2>2, OneTurn
<1>4. CASE /\ cycle' = [cycle EXCEPT ![p].queue = Tail(@), ![p].budget = @ - 1]
           /\ running' = [running EXCEPT ![p] = [resource |-> r, role |-> ReviewRoles[c.role]]]
           /\ UNCHANGED asked
  <2>1. /\ cycle' = [cycle EXCEPT ![p] = [c EXCEPT !.queue = Tail(c.queue), !.budget = c.budget - 1]]
        /\ asked' = [asked EXCEPT ![p] = asked[p]]
    BY <1>2, <1>4 DEF PoolInv, Turns
  <2>2. TurnOK([c EXCEPT !.queue = Tail(c.queue), !.budget = c.budget - 1], asked[p],
               [resource |-> r, role |-> ReviewRoles[c.role]])
    <3> HIDE DEF c
    <3> QED BY <1>1, <1>2, LaunchedTurn
  <2> HIDE DEF c, r
  <2> QED BY <1>4, <2>1, <2>2, OneTurn
<1> QED BY <1>3, <1>4 DEF AskNext

LEMMA FailKeeps ==
  ASSUME PoolInv, RecordsTyped', NEW p \in Pools, RoleFails(p)
  PROVE  PoolInv'
<1> DEFINE c == cycle[p]
<1>1. /\ running[p] = Idle /\ Len(c.served) < c.role /\ (c.queue = <<>> \/ c.budget = 0)
      /\ UNCHANGED <<running, asked>>
      /\ cycle' = [cycle EXCEPT ![p].served = Append(@, None)]
  BY DEF RoleFails, InRole
<1>2. TurnOK(c, asked[p], running[p]) /\ ~Reviewing(running[p])
  BY <1>1, AtRest DEF PoolInv
<1>3. /\ cycle' = [cycle EXCEPT ![p] = [c EXCEPT !.served = Append(c.served, None)]]
      /\ asked' = [asked EXCEPT ![p] = asked[p]] /\ running' = [running EXCEPT ![p] = running[p]]
  BY <1>1 DEF PoolInv
<1> HIDE DEF c
<1>4. TurnOK([c EXCEPT !.served = Append(c.served, None)], asked[p], running[p])
  BY <1>1, <1>2, FailedTurn
<1> QED BY <1>3, <1>4, OneTurn

LEMMA ReviewedKeeps ==
  ASSUME PoolInv, RecordsTyped', NEW p \in Pools, ReviewerEnds(p)
  PROVE  PoolInv'
<1> DEFINE c == cycle[p]  j == running[p]  r == j.resource
<1>1. PICK o \in Possible(r), valid \in BOOLEAN :
        /\ cycle' = [cycle EXCEPT ![p].budget = @ + Refund(o.class),
                       ![p].served = IF o.class = "SUCCESS" /\ valid THEN Append(@, r) ELSE @]
        /\ asked' = [asked EXCEPT ![p][r] = IF o.class \in Exhausting THEN "away" ELSE "answered"]
  BY DEF ReviewerEnds
<1>2. running' = [running EXCEPT ![p] = Idle] /\ Reviewing(j)
  BY DEF ReviewerEnds, Reviewing
<1> DEFINE away == o.class \in Exhausting
           f == IF o.class = "SUCCESS" /\ valid THEN Append(c.served, r) ELSE c.served
           n == IF away THEN 1 ELSE 0
           d == [c EXCEPT !.budget = c.budget + n, !.served = f]
           e == [asked[p] EXCEPT ![r] = IF away THEN "away" ELSE "answered"]
<1>3. TurnOK(c, asked[p], j) /\ c \in Turns
  BY DEF PoolInv
<1>4. cycle' = [cycle EXCEPT ![p] = d] /\ asked' = [asked EXCEPT ![p] = e]
  <2>1. Refund(o.class) = n
    BY DEF Refund
  <2> QED BY <1>1, <1>3, <2>1 DEF PoolInv, Turns
<1>5. TurnOK(d, e, Idle)
  <2>1. (f = c.served \/ f = Append(c.served, r)) /\ n = (IF away THEN 1 ELSE 0) /\ away \in BOOLEAN
    OBVIOUS
  <2> HIDE DEF f, n, away, c, j
  <2> QED BY <1>2, <1>3, <2>1, ReviewedTurn
<1> HIDE DEF d, e, j
<1> QED BY <1>2, <1>4, <1>5, OneTurn

LEMMA PoolStep == PoolInv /\ [PoolNext]_poolVars => PoolInv'
<1> SUFFICES ASSUME PoolInv, [PoolNext]_poolVars PROVE PoolInv'
  OBVIOUS
<1>0. RecordsTyped'
  BY RecordsTypedKept
<1>1. ASSUME NEW p \in Pools, Open(p) PROVE PoolInv'
  BY <1>0, <1>1, SameTurns DEF Open
<1>2. ASSUME NEW p \in Pools, Close(p) \/ CycleEnds(p) PROVE PoolInv'
  <2>1. cycle' = [cycle EXCEPT ![p] = NoCycle] /\ asked' = [asked EXCEPT ![p] = Unasked]
    BY <1>2 DEF Close, CycleEnds
  <2>2. running' = [running EXCEPT ![p] = Idle]
    <3>1. CASE Close(p)
      BY <3>1 DEF Close
    <3>2. CASE CycleEnds(p)
      BY <3>2 DEF CycleEnds, PoolInv
    <3> QED BY <1>2, <3>1, <3>2
  <2>3. TurnOK(NoCycle, Unasked, Idle)
    BY FreshTurn, AtRest, NoOneAnswered
  <2> QED BY <1>0, <2>1, <2>2, <2>3, OneTurn
<1>3. ASSUME NEW p \in Pools, Run(p) PROVE PoolInv'
  BY <1>0, <1>3, SelectKeeps, EndedWorkKeeps, PlanKeeps, StartKeeps, AskKeeps, FailKeeps, ReviewedKeeps,
     <1>2 DEF Run
<1>4. ASSUME NEW p \in Pools, NEW r \in Resources, Reset(p, r) PROVE PoolInv'
  BY <1>0, <1>4, SameTurns DEF Reset
<1>5. ASSUME NEW r \in Resources, Weather(r) PROVE PoolInv'
  BY <1>0, <1>5, SameTurns DEF Weather
<1>6. ASSUME TimePasses PROVE PoolInv'
  BY <1>0, <1>6, SameTurns DEF TimePasses
<1>7. ASSUME UNCHANGED poolVars PROVE PoolInv'
  BY <1>0, <1>7, SameTurns DEF poolVars
<1> QED BY <1>1, <1>2, <1>3, <1>4, <1>5, <1>6, <1>7 DEF PoolNext

\* The pool's records, its reviews and the launches they spend, from the first step on.
THEOREM PoolInvHolds == PoolSpec => []PoolInv
<1> QED BY PoolStarts, PoolStep, PTL DEF PoolSpec

\* An outage of some providers never denies a review turn to a healthy one behind them,
\* whatever the roles, the budget of launches and the number of processes are
\* (invoke_reviewer_with_failover).
THEOREM OutageDeniesNobodyCorrect == PoolSpec => []OutageDeniesNobody
<1>1. PoolInv => OutageDeniesNobody
  BY DEF PoolInv, TurnOK, AllHadATurn, Answered, OutageDeniesNobody
<1> QED BY <1>1, PoolInvHolds, PTL

\* What a deadline of ours or an untrusted folder teaches leaves a resource as eligible as it was.
LEMMA OwnTroubleRecorded ==
  ASSUME NEW s \in StatusRecs, NEW r, NEW role, NEW o \in Answers, o.ours, NEW any,
         CapacityBlocked(IF o.class = "RESOURCE_CONSTRAINED" THEN Constrained(s)
                         ELSE Recorded(s, r, role, o), any)
  PROVE  CapacityBlocked(s, any)
<1> DEFINE counted == IF Metered(r) THEN [s EXCEPT !.metered = @ + 1] ELSE s
           new == Failed(counted, role, o)
<1>1. o.class \in {"WORKSPACE_TRUST_REQUIRED", "EXECUTION_BUDGET_EXCEEDED"}
  BY AnswersTyped
<1>2. CapacityBlocked(new, any)
  BY <1>1 DEF Recorded
<1>3. counted.status = s.status /\ counted.excluded = s.excluded
  BY DEF StatusRecs
<1>4. counted \in [status : Statuses, readiness : Probes, retry : Int,
                   excluded : SUBSET (Roles \cup {"review"}), metered : Nat]
  <2>1. s.metered + 1 \in Nat /\ [s EXCEPT !.metered = s.metered + 1] \in StatusRecs
    BY DEF StatusRecs
  <2> QED BY <2>1 DEF StatusRecs
<1> HIDE DEF counted
<1>5. CASE o.class = "WORKSPACE_TRUST_REQUIRED"
  <2>1. new = counted
    <3>1. ~(CapacityOf(o.class) # "none")
      BY <1>5 DEF CapacityOf
    <3> QED BY <1>5, <3>1 DEF Failed
  <2> HIDE DEF new
  <2> QED BY <1>2, <1>3, <2>1 DEF CapacityBlocked, RoleExcluded
<1>6. CASE o.class = "EXECUTION_BUDGET_EXCEEDED"
  <2>1. CapacityOf(o.class) = "DEGRADED"
    BY <1>6 DEF CapacityOf
  <2>2. new = [counted EXCEPT !.status = "DEGRADED", !.retry = RetryAt(counted, o)]
    BY <1>6, <2>1 DEF Failed
  <2>3. new.status = "DEGRADED" /\ new.excluded = counted.excluded
    BY <1>4, <2>2
  <2>4. "DEGRADED" \notin Blocked
    BY DEF Blocked, Exhausted, Unready
  <2> HIDE DEF new
  <2> QED BY <1>2, <1>3, <2>3, <2>4 DEF CapacityBlocked, RoleExcluded
<1> QED BY <1>1, <1>5, <1>6

\* A deadline of ours, or a folder nobody trusts, never benches a resource that was eligible:
\* not for another role, not in another process's records (classify_result, record_result).
THEOREM OwnTroubleNeverBenchesCorrect == PoolSpec => OwnTroubleNeverBenches
<1> DEFINE Kept(p, r, role) == CapacityBlocked(mem'[p][r], role) => CapacityBlocked(mem[p][r], role)
<1>1. ASSUME PoolInv, [PoolNext]_poolVars, last' = "ours", NEW p \in Pools, NEW r \in Resources,
             NEW role \in Roles
      PROVE  Kept(p, r, role)
  <2>1. CASE \E q \in Pools : ImplementationEnds(q) \/ ReviewerEnds(q)
    <3>1. PICK q \in Pools : ImplementationEnds(q) \/ ReviewerEnds(q)
      BY <2>1
    <3>2. PICK o \in Answers : AfterResult(q, o) /\ last' = IF o.ours THEN "ours" ELSE "theirs"
      BY <3>1 DEF ImplementationEnds, ReviewerEnds, Possible
    <3> DEFINE k == running[q].resource  s == mem[q][k]
               new == IF o.class = "RESOURCE_CONSTRAINED" THEN Constrained(s)
                      ELSE Recorded(s, k, running[q].role, o)
    <3>3. o.ours
      BY <1>1, <3>2
    <3>4. mem' = [mem EXCEPT ![q] = [mem[q] EXCEPT ![k] = new]]
      BY <3>2 DEF AfterResult, Persist
    <3>5. mem \in [Pools -> PoolMaps]
      BY <1>1 DEF PoolInv, RecordsTyped
    <3>6. CASE p = q /\ r = k
      <4>1. s \in StatusRecs
        BY <3>5, <3>6 DEF PoolMaps
      <4>2. CapacityBlocked(new, role) => CapacityBlocked(s, role)
        <5> HIDE DEF k, s
        <5> QED BY <3>3, <4>1, OwnTroubleRecorded
      <4>3. mem'[p][r] = new /\ mem[p][r] = s
        <5> HIDE DEF new, k
        <5> QED BY <3>4, <3>5, <3>6 DEF PoolMaps, s
      <4> QED BY <4>2, <4>3
    <3>7. CASE ~(p = q /\ r = k)
      <4>1. mem'[p][r] = mem[p][r]
        <5> HIDE DEF new, k
        <5> QED BY <3>4, <3>5, <3>7 DEF PoolMaps
      <4> QED BY <4>1
    <3> QED BY <3>6, <3>7
  <2>2. CASE ~\E q \in Pools : ImplementationEnds(q) \/ ReviewerEnds(q)
    <3>1. last' = "none" \/ UNCHANGED poolVars
      BY <1>1, <2>2, Zenon DEF PoolNext, Run, Open, Close, RoleFails, CycleEnds, AskNext, PlanReview, StartRole,
         Select, Reset, Weather, TimePasses
    <3>2. mem' = mem
      BY <1>1, <3>1 DEF poolVars
    <3> QED BY <3>2
  <2> QED BY <2>1, <2>2
<1>2. PoolInv /\ [PoolNext]_poolVars =>
        (last' = "ours" => \A p \in Pools, r \in Resources, role \in Roles : Kept(p, r, role))
  BY <1>1
<1>3. QED
  BY <1>2, PoolInvHolds, PTL DEF PoolSpec, OwnTroubleNeverBenches
=============================================================================
