------------------------------ MODULE WorkTree ------------------------------
(***************************************************************************)
(* git_baseline.py, file by file: what git reports of a checkout, what of  *)
(* it existed before an attempt, what an attempt is held to have changed,  *)
(* and how that is undone.                                                 *)
(*                                                                         *)
(* A tree gives every path its content in HEAD, in the index and in the    *)
(* worktree.  The bytes of a file are one of Contents.  Directories        *)
(* matter where git names a directory in place of the files inside; empty  *)
(* directories, links and renames are left out, and so are files outside   *)
(* the repository, which no path can name (_safe_path_within_repo).        *)
(***************************************************************************)
CONSTANTS Paths,      \* files of the checkout
          Folder,     \* [Paths -> the directory a path lies in, or Top]
          Top,        \* the root of the checkout
          Internal,   \* paths of the control plane: .git, .task_runs
          Large       \* paths whose files exceed snapshot_size_limit_bytes

ASSUME PathsAssumption == Internal \cup Large \subseteq Paths
\* A directory is named with a slash at its end.
ASSUME FolderAssumption == \A p \in Paths: Folder[p] \notin Paths

Contents == {"base", "user", "agent"}
Missing == "missing"
File == [head: Contents \cup {Missing}, index: Contents \cup {Missing}, work: Contents \cup {Missing}]
Trees == [Paths -> File]

Heads(tree) == [p \in Paths |-> tree[p].head]

(***************************************************************************)
(* git status --porcelain.                                                 *)
(***************************************************************************)
\* is_internal_control_plane_path.
Project == Paths \ Internal

Tracked(tree) == {p \in Project: tree[p].index # Missing}
\* A directory without a tracked file is named in place of its files.
Named(tree, p) ==
  IF Folder[p] = Top \/ \E q \in Tracked(tree): Folder[q] = Folder[p] THEN p ELSE Folder[p]

Untracked(tree) ==
  {Named(tree, p): p \in {q \in Project: tree[q].index = Missing /\ tree[q].work # Missing}}
\* A D in either column, whatever the other one says.
Deleted(tree) == {p \in Project: \/ tree[p].head # Missing /\ tree[p].index = Missing
                                 \/ tree[p].index # Missing /\ tree[p].work = Missing}
Added(tree) == {p \in Tracked(tree): tree[p].head = Missing /\ tree[p].work # Missing}
Modified(tree) == {p \in Tracked(tree) \ (Deleted(tree) \cup Added(tree)):
                     tree[p].index # tree[p].head \/ tree[p].work # tree[p].index}

(***************************************************************************)
(* The baseline, and the changes held against an attempt.                  *)
(***************************************************************************)
Readable(tree, p) == p \in Paths \ Large /\ tree[p].work # Missing
Snapshots(tree, names) == {[path |-> p, bytes |-> tree[p].work]: p \in {q \in names: q \in Paths /\ Readable(tree, q)}}

\* capture_baseline keeps what was modified or untracked: not the staged files, not the deletions.
Capture(tree) ==
  [head |-> Heads(tree), modified |-> Modified(tree), untracked |-> Untracked(tree),
   snapshots |-> Snapshots(tree, Modified(tree) \cup Untracked(tree))]

\* capture_delta.
Delta(tree, base) ==
  [added |-> (Untracked(tree) \ base.untracked) \cup (Added(tree) \ base.modified),
   modified |-> Modified(tree) \ base.modified, deleted |-> Deleted(tree) \ base.modified]
Changed(delta) == delta.added \cup delta.modified \cup delta.deleted
IsEmpty(delta) == Changed(delta) = {}

\* diff_content: HEAD against the worktree, and the text of new files; a directory has none.
DiffContent(tree, delta) == {<<p, tree[p].work>>: p \in Changed(delta) \cap Paths}

(***************************************************************************)
(* restore_repository_to_baseline.                                         *)
(***************************************************************************)
Bytes(base, p) == (CHOOSE s \in base.snapshots: s.path = p).bytes

\* Mutant of PutBack: only what was tracked is written back.
PutBackTracked(base) == {s.path: s \in base.snapshots} \cap base.modified
\* _restore_pre_existing_files: the files with a snapshot,
PutBack(base) == {s.path: s \in base.snapshots}
\* and git checkout for other tracked files: from the index, nothing when it is not there.
CheckedOut(tree, base, delta) == ((delta.modified \cup delta.deleted) \ base.modified) \cap Tracked(tree)

\* _remove_task_added_paths: a directory goes file by file, and no file that was untracked before.
Unlinked(base, delta) ==
  {p \in Project \ base.untracked: \/ p \in delta.added
                                   \/ Folder[p] \in delta.added \ base.untracked}

\* In that order.
Rewritten(tree, base, delta, p) ==
  IF p \in Unlinked(base, delta) THEN Missing
  ELSE IF p \in CheckedOut(tree, base, delta) THEN tree[p].index
  ELSE IF p \in PutBack(base) THEN Bytes(base, p) ELSE tree[p].work
Restored(tree, base, delta) ==
  {[p \in Paths |-> [tree[p] EXCEPT !.work = Rewritten(tree, base, d, p)]]: d \in {delta}}

HeadDrifted(tree, base) == Heads(tree) # base.head
Residual(tree, base) == Changed(Delta(tree, base)) \ (base.modified \cup base.untracked)

\* The one outcome of the call: what it leaves, and what it reports.
Restore(tree, base, delta) ==
  IF HeadDrifted(tree, base) THEN {[tree |-> tree, ok |-> FALSE]}
  ELSE {[tree |-> after, ok |-> Residual(after, base) = {}]: after \in Restored(tree, base, delta)}
=============================================================================
