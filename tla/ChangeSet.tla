----------------------------- MODULE ChangeSet -----------------------------
(***************************************************************************)
(* The change set of a task, specs/<specId>/changes.json: how a runner's   *)
(* files become one, how a run's change set is merged into the recorded    *)
(* one, and how a change set is applied to a clone.                        *)
(*                                                                         *)
(* Contents are abstracted to their authors: what a file holds is the set  *)
(* of runs whose work is in it, or Gone.  A run writes a whole file with   *)
(* what it saw of it plus its own work; a patch carries its own work only, *)
(* and changes the file its diff names, which need not be its path.        *)
(***************************************************************************)
EXTENDS Sequences, FiniteSets, Integers

CONSTANTS
  Runs,      \* implementation runs that may return files
  Paths,     \* paths they may name
  Unsafe,    \* those that pathRejection refuses
  Filtered,  \* those of them the runner drops itself
  Blank,     \* the path of an entry that names none
  Absent,    \* the mark of a file that is not there
  MaxFiles, MaxBytes   \* deliveryLimits

ASSUME ChangeSetAssumption ==
  /\ Filtered \subseteq Unsafe /\ Unsafe \subseteq Paths
  /\ Blank \notin Paths
  /\ Absent \notin Runs
  /\ {MaxFiles, MaxBytes} \subseteq Nat \ {0}

Modes == {"delete", "patch", "write"}
Gone == {Absent}
Contents == (SUBSET Runs) \cup {Gone}
Trees == [Paths -> Contents]

\* A recorded change: its run, its mode, the file it changes (a diff may name
\* another file than its path) and the contents it was made on.
Changes == [run : Runs, mode : Modes, file : Paths, on : Contents]
IsChangeSet(cs) == DOMAIN cs \subseteq Paths /\ cs \in [DOMAIN cs -> Changes]
NoChanges == [path \in {} |-> path]

-----------------------------------------------------------------------------
(* Recording. *)

\* sanitizeFileChanges in the runner, then normalizeChangeSet: entries that
\* are blank, filtered or carry no change are dropped.
Kept(files) ==
  {i \in DOMAIN files : /\ files[i].path \notin Filtered \cup {Blank}
                        /\ files[i].mode # "empty"}

\* Mutant: the first entry of a path counts, even one that carries no change.
FirstMutant(files, path) ==
  CHOOSE i \in DOMAIN files :
    /\ files[i].path = path
    /\ \A k \in DOMAIN files : files[k].path = path => i <= k

\* Of several entries for one path the first is kept.
First(files, path) ==
  CHOOSE i \in Kept(files) :
    /\ files[i].path = path
    /\ \A k \in Kept(files) : files[k].path = path => i <= k

FromRunner(run, files, seen) ==
  [path \in {files[i].path : i \in Kept(files)} |->
     LET entry == files[First(files, path)]
         file == IF entry.mode = "patch" THEN entry.names ELSE path
     IN [run |-> run, mode |-> entry.mode, file |-> file, on |-> seen[file]]]

\* Mutant: the change set of a run replaces the recorded one.
MergeMutant(base, delta) == IF delta = NoChanges THEN base ELSE delta

\* MergeChangeSet: by path, the later one wins.
Merge(base, delta) ==
  [path \in DOMAIN base \cup DOMAIN delta |->
     IF path \in DOMAIN delta THEN delta[path] ELSE base[path]]

-----------------------------------------------------------------------------
(* Applying. *)

\* A body weighs two, a diff one, a deletion nothing.
BytesOf(cs) ==
  2 * Cardinality({p \in DOMAIN cs : cs[p].mode = "write"})
    + Cardinality({p \in DOMAIN cs : cs[p].mode = "patch"})

TooMany(cs) == Cardinality(DOMAIN cs) > MaxFiles
TooHeavy(cs) == BytesOf(cs) > MaxBytes

UnsafePath(cs) == DOMAIN cs \cap Unsafe # {}

\* Deleting what is not there is skipped; the rest is applied.
Applied(cs, tree) ==
  {p \in DOMAIN cs : cs[p].mode = "delete" => tree[p] # Gone}

\* What applyChangeSet refuses before or after it touches a file.
Refused(cs, tree) ==
  \/ cs = NoChanges \/ TooMany(cs) \/ UnsafePath(cs) \/ TooHeavy(cs)
  \/ Applied(cs, tree) = {}

\* A diff made on a file that was there changes it, one made on none creates
\* it; it fits if the file is there likewise, or another entry brings it about.
Fits(cs, tree, p) ==
  cs[p].mode = "patch" =>
    LET file == cs[p].file IN
    \/ (tree[file] = Gone) = (cs[p].on = Gone)
    \/ \E other \in DOMAIN cs \ {p} : cs[other].file = file

\* A diff a model made may fail to match all the same.
MayApply(cs, tree) == \A p \in DOMAIN cs : Fits(cs, tree, p)

\* The runs whose diffs change a file.
Patchers(cs, file) ==
  {cs[p].run : p \in {q \in DOMAIN cs : cs[q].mode = "patch" /\ cs[q].file = file}}

\* The tree applyChangeSet leaves; of entries that meet in one file, writes
\* come first and deletions last.
ApplyTo(cs, tree) ==
  [p \in Paths |->
     LET patched == Patchers(cs, p)
         written == IF p \in DOMAIN cs /\ cs[p].mode = "write"
                    THEN (cs[p].on \ Gone) \cup {cs[p].run} ELSE tree[p]
     IN CASE p \in DOMAIN cs /\ cs[p].mode = "delete" -> Gone
          [] patched # {} -> (written \ Gone) \cup patched
          [] OTHER        -> written]

=============================================================================
