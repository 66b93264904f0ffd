-------------------------- MODULE Delivery_proofs --------------------------
(***************************************************************************)
(* For every set of runs, deliveries, paths and branches, whatever runners *)
(* return and wherever calls fail: the types, what a delivered task points *)
(* at, that no unsafe path is shipped and none is committed to the base.   *)
(***************************************************************************)
EXTENDS DeliveryProperties, WellFoundedInduction, SequenceTheorems, TLAPS

-----------------------------------------------------------------------------
(* Change sets, trees and commits. *)

LEMMA NothingIsTyped ==
  IsChangeSet(NoChanges) /\ IsCommit(NoCommit) /\ DOMAIN NoCommit.files = {}
BY DeliveryAssumption DEF IsChangeSet, NoChanges, IsCommit, NoCommit

LEMMA MergeIsTyped ==
  ASSUME NEW base, IsChangeSet(base), NEW delta, IsChangeSet(delta)
  PROVE  IsChangeSet(Merge(base, delta))
BY DEF IsChangeSet, Merge

\* A set of positions has a first one.
LEMMA FirstPosition ==
  ASSUME NEW S \in SUBSET Nat, S # {}
  PROVE  \E i \in S : \A k \in S : i <= k
<1>1. PICK i \in S : \A k \in S : ~ (<<k, i>> \in OpToRel(<, Nat))
  BY NatLessThanWellFounded, WFMin
<1>2. \A k \in S : i <= k
  <2> SUFFICES ASSUME NEW k \in S, k < i PROVE FALSE
    OBVIOUS
  <2>1. <<k, i>> \in OpToRel(<, Nat)
    BY DEF OpToRel
  <2> QED BY <2>1, <1>1
<1> QED BY <1>2

\* What a runner returns is a change set, made by that run.
LEMMA RunnerIsTyped ==
  ASSUME NEW run \in Runs, NEW out \in Outputs, NEW seen \in Trees
  PROVE  IsChangeSet(FromRunner(run, out, seen))
<1> DEFINE Entries == [path : Paths \cup {Blank}, names : Paths,
                       mode : Modes \cup {"empty"}]
<1>1. out \in Seq(Entries)
  BY DeliveryAssumption
<1>2. ASSUME NEW i \in Kept(out)
      PROVE  /\ i \in Nat /\ out[i].path \in Paths /\ out[i].names \in Paths
             /\ out[i].mode \in Modes
  <2>1. i \in 1..Len(out) /\ out[i] \in Entries
    <3>1. i \in DOMAIN out
      BY DEF Kept
    <3> HIDE DEF Entries
    <3> QED BY <1>1, <3>1
  <2>2. out[i].path # Blank /\ out[i].mode # "empty"
    BY DEF Kept
  <2>3. Len(out) \in Nat
    BY <1>1
  <2> QED BY <2>1, <2>2, <2>3
<1>3. ASSUME NEW path \in {out[i].path : i \in Kept(out)}
      PROVE  First(out, path) \in Kept(out)
  <2> DEFINE S == {i \in Kept(out) : out[i].path = path}
  <2>1. S \in SUBSET Nat /\ S # {}
    BY <1>2, <1>3
  <2>2. \E i \in S : \A k \in S : i <= k
    <3> HIDE DEF S
    <3> QED BY <2>1, FirstPosition
  <2>3. \E i \in Kept(out) :
           /\ out[i].path = path
           /\ \A k \in Kept(out) : out[k].path = path => i <= k
    BY <2>2
  <2> QED BY <2>3 DEF First
<1>4. ASSUME NEW path \in {out[i].path : i \in Kept(out)}
      PROVE  LET entry == out[First(out, path)]
                 file == IF entry.mode = "patch" THEN entry.names ELSE path
             IN [run |-> run, mode |-> entry.mode, file |-> file, on |-> seen[file]]
                  \in Changes
  <2> DEFINE entry == out[First(out, path)]
             file == IF entry.mode = "patch" THEN entry.names ELSE path
  <2>1. file \in Paths /\ entry.mode \in Modes
    BY <1>2, <1>3
  <2> HIDE DEF file, entry
  <2>2. seen[file] \in Contents
    BY <2>1 DEF Trees
  <2>3. [run |-> run, mode |-> entry.mode, file |-> file, on |-> seen[file]] \in Changes
    BY <2>1, <2>2 DEF Changes
  <2> QED BY <2>3 DEF file, entry
<1>5. {out[i].path : i \in Kept(out)} \subseteq Paths
  BY <1>2
<1> QED BY <1>4, <1>5 DEF IsChangeSet, FromRunner

\* Applying a change set to a tree leaves a tree.
LEMMA ApplyIsTyped ==
  ASSUME NEW cs, IsChangeSet(cs), NEW tree \in Trees
  PROVE  ApplyTo(cs, tree) \in Trees
<1>1. ASSUME NEW p \in Paths PROVE ApplyTo(cs, tree)[p] \in Contents
  <2> DEFINE patched == Patchers(cs, p)
             written == IF p \in DOMAIN cs /\ cs[p].mode = "write"
                        THEN (cs[p].on \ Gone) \cup {cs[p].run} ELSE tree[p]
  <2>1. patched \in SUBSET Runs
    BY DEF Patchers, IsChangeSet, Changes
  <2>2. written \in Contents
    <3>1. CASE p \in DOMAIN cs /\ cs[p].mode = "write"
      <4>1. cs[p].run \in Runs /\ cs[p].on \in Contents
        BY <3>1 DEF IsChangeSet, Changes
      <4>2. (cs[p].on \ Gone) \in SUBSET Runs
        BY <4>1 DEF Contents, Gone
      <4> QED BY <3>1, <4>1, <4>2 DEF Contents
    <3>2. CASE ~(p \in DOMAIN cs /\ cs[p].mode = "write")
      BY <3>2 DEF Trees
    <3> QED BY <3>1, <3>2
  <2> HIDE DEF patched, written
  <2>3. (written \ Gone) \cup patched \in Contents
    BY <2>1, <2>2 DEF Contents, Gone
  <2>4. ApplyTo(cs, tree)[p] =
          CASE p \in DOMAIN cs /\ cs[p].mode = "delete" -> Gone
            [] patched # {} -> (written \ Gone) \cup patched
            [] OTHER        -> written
    BY DEF ApplyTo, patched, written
  <2>5. ApplyTo(cs, tree)[p] \in {Gone, (written \ Gone) \cup patched, written}
    BY <2>4
  <2> QED BY <2>2, <2>3, <2>5 DEF Contents
<1> QED BY <1>1 DEF ApplyTo, Trees

\* So does applying a part of one, before a file that fails.
LEMMA PartIsTyped ==
  ASSUME NEW cs, IsChangeSet(cs), NEW tree \in Trees, NEW done \in SUBSET DOMAIN cs
  PROVE  ApplyTo([p \in done |-> cs[p]], tree) \in Trees
<1> DEFINE part == [p \in done |-> cs[p]]
<1>1. IsChangeSet(part)
  BY DEF IsChangeSet
<1> HIDE DEF part
<1>2. ApplyTo(part, tree) \in Trees
  BY <1>1, ApplyIsTyped
<1> QED BY <1>2 DEF part

\* The commit of a delivery has the files of its change set, and none unsafe.
LEMMA CommitIsTyped ==
  ASSUME NEW cs, IsChangeSet(cs), NEW tree \in Trees
  PROVE  LET commit == CommitOf(cs, tree) IN
         /\ IsCommit(commit)
         /\ ~UnsafePath(cs) => DOMAIN commit.files \cap Unsafe = {}
         /\ ~Identical(commit) => commit # NoCommit
         /\ commit.changes = cs
<1> DEFINE sent == [p \in Applied(cs, tree) |-> ApplyTo(cs, tree)[p]]
<1>1. CommitOf(cs, tree) = [changes |-> cs, onto |-> tree, files |-> sent]
  BY DEF CommitOf
<1>2. Applied(cs, tree) \subseteq DOMAIN cs /\ DOMAIN cs \subseteq Paths
  BY DEF Applied, IsChangeSet
<1>3. \A p \in Paths : ApplyTo(cs, tree)[p] \in Contents
  BY ApplyIsTyped DEF Trees
<1>4. DOMAIN sent = Applied(cs, tree) /\ sent \in [DOMAIN sent -> Contents]
  BY <1>2, <1>3
<1> HIDE DEF sent
<1>5. IsCommit(CommitOf(cs, tree))
  BY <1>1, <1>2, <1>4 DEF IsCommit
<1>6. ~UnsafePath(cs) => DOMAIN sent \cap Unsafe = {}
  BY <1>2, <1>4 DEF UnsafePath
<1>7. Identical(NoCommit)
  BY NothingIsTyped DEF Identical
<1> QED BY <1>1, <1>5, <1>6, <1>7

-----------------------------------------------------------------------------
(* The inductive invariant. *)

\* What a process holds, at its label: a delivery's commit has no unsafe path and
\* from its push on no base branch, and then it finds that commit on its branch.
HoldsOK(l, at, rem, pul) ==
  /\ IsLocal(l)
  /\ at \in RunLabels \cup DeliveryLabels
  /\ DOMAIN l.commit.files \cap Unsafe = {}
  /\ l.fault # "delivered"
  /\ at \in {"push", "pull", "record", "clear"} => l.branch # Base /\ l.commit # NoCommit
  /\ at \in {"pull", "record", "clear"} => rem[l.branch] = l.commit
  /\ at \in {"record", "clear"} => l.branch \in pul

FilesOK(s, c, ses, m, cs) ==
  s \in Setups /\ c \in BOOLEAN /\ ses \in Trees /\ m \in Trees /\ IsChangeSet(cs)

RemoteOK(rem, pul) ==
  /\ DOMAIN rem = Branches
  /\ \A b \in Branches : IsCommit(rem[b]) /\ DOMAIN rem[b].files \cap Unsafe = {}
  /\ rem[Base] = NoCommit
  /\ pul \subseteq Branches \ {Base}
  /\ \A b \in pul : rem[b] # NoCommit

RecordOK(del, rem, pul) ==
  /\ DOMAIN del = {"status", "branch", "files"}
  /\ del.status \in Statuses /\ del.branch \in Branches
  /\ del.status = "delivered" => del.branch # Base
  /\ del.branch # Base => del.branch \in pul /\ rem[del.branch].files = del.files

IInv ==
  /\ FilesOK(setup, cloned, session, main, changes)
  /\ pulls \subseteq Branches \X Targets
  /\ RemoteOK(remote, Heads)
  /\ RecordOK(delivery, remote, Heads)
  /\ DOMAIN pc = Procs /\ pc = [p \in Procs |-> pc[p]]
  /\ DOMAIN loc = Procs /\ \A p \in Procs : HoldsOK(loc[p], pc[p], remote, Heads)

\* What a step of p may do: change what p holds, add branches and pull requests.
Advanced(p) ==
  /\ DOMAIN pc' = Procs /\ pc' = [q \in Procs |-> pc'[q]] /\ DOMAIN loc' = Procs
  /\ \A q \in Procs \ {p} : pc'[q] = pc[q] /\ loc'[q] = loc[q]
  /\ \A b \in Branches : remote[b] # NoCommit => remote'[b] = remote[b]
  /\ pulls' \subseteq Branches \X Targets
  /\ Heads \subseteq Heads'
  /\ FilesOK(setup', cloned', session', main', changes')
  /\ RemoteOK(remote', Heads')
  /\ RecordOK(delivery', remote', Heads')
  /\ HoldsOK(loc'[p], pc'[p], remote', Heads')

Frame(p) ==
  /\ DOMAIN pc' = Procs /\ pc' = [q \in Procs |-> pc'[q]] /\ DOMAIN loc' = Procs
  /\ \A q \in Procs \ {p} : pc'[q] = pc[q] /\ loc'[q] = loc[q]

LEMMA FreshHolds ==
  ASSUME NEW at \in {"idle", "done", "dead"}, NEW rem, NEW pul
  PROVE  HoldsOK(Fresh, at, rem, pul)
<1>1. << >> \in Seq(Outcomes) /\ Len(<< >>) = 0 /\ DOMAIN << >> = {}
  OBVIOUS
<1>2. IsLocal(Fresh)
  BY <1>1, NothingIsTyped, DeliveryAssumption DEF IsLocal, Fresh, Statuses
<1> QED BY <1>1, <1>2, NothingIsTyped DEF HoldsOK, Fresh, RunLabels, DeliveryLabels

\* A process that leaves holds nothing.
LEMMA LeaveHolds ==
  ASSUME IInv, NEW p \in Procs, Leave(p), NEW rem, NEW pul
  PROVE  Frame(p) /\ HoldsOK(loc'[p], pc'[p], rem, pul)
<1>1. Frame(p) /\ pc'[p] = "done" /\ loc'[p] = Fresh
  BY DEF Leave, Go, Frame, IInv
<1> QED BY <1>1, FreshHolds

\* A process that only goes on holds what it held.
LEMMA GoHolds ==
  ASSUME IInv, NEW p \in Procs, NEW at, Go(p, at), UNCHANGED loc
  PROVE  Frame(p) /\ pc'[p] = at /\ loc'[p] = loc[p]
BY DEF Go, Frame, IInv

\* A delivery that fails holds its fault.
LEMMA FailHolds ==
  ASSUME IInv, NEW d \in Procs, NEW fault \in Statuses \ {"delivered"}, Fail(d, fault),
         NEW rem, NEW pul
  PROVE  Frame(d) /\ HoldsOK(loc'[d], pc'[d], rem, pul)
<1>1. HoldsOK(loc[d], pc[d], remote, Heads)
  BY DEF IInv
<1>2. /\ Frame(d) /\ pc'[d] = "fail"
      /\ loc'[d] = [loc[d] EXCEPT !.fault = fault]
  BY DEF Fail, Go, Frame, IInv
<1>3. IsLocal(loc'[d])
  BY <1>1, <1>2 DEF HoldsOK, IsLocal
<1> QED BY <1>1, <1>2, <1>3 DEF HoldsOK, IsLocal, DeliveryLabels

\* When the remote only grows, what was recorded and what others hold stays true.
LEMMA RecordStays ==
  ASSUME RemoteOK(remote, Heads), NEW rem, NEW pul, NEW del, RecordOK(del, remote, Heads),
         \A b \in Branches : remote[b] # NoCommit => rem[b] = remote[b],
         Heads \subseteq pul
  PROVE  RecordOK(del, rem, pul)
BY DEF RemoteOK, RecordOK

LEMMA HoldsStays ==
  ASSUME NEW rem, NEW pul, NEW l, NEW at, HoldsOK(l, at, remote, Heads),
         \A b \in Branches : remote[b] # NoCommit => rem[b] = remote[b],
         Heads \subseteq pul
  PROVE  HoldsOK(l, at, rem, pul)
BY DEF HoldsOK, IsLocal

LEMMA KeptKeeps ==
  ASSUME IInv, NEW p \in Procs, Advanced(p)
  PROVE  IInv'
<1>1. \A q \in Procs : HoldsOK(loc'[q], pc'[q], remote', Heads')
  <2> SUFFICES ASSUME NEW q \in Procs \ {p}
               PROVE  HoldsOK(loc[q], pc[q], remote', Heads')
    BY DEF Advanced
  <2> QED BY HoldsStays DEF IInv, Advanced
<1> QED BY <1>1 DEF IInv, Advanced

\* A step that changes nothing but what its process holds.
LEMMA InnerStep ==
  ASSUME IInv, NEW p \in Procs, UNCHANGED <<local, files, github>>, Frame(p),
         HoldsOK(loc'[p], pc'[p], remote, Heads)
  PROVE  Advanced(p)
BY DEF IInv, Advanced, Frame, Heads, local, files, github

-----------------------------------------------------------------------------
(* The steps of a run. *)

LEMMA RunIsProc == Runs \subseteq Procs /\ Deliveries \subseteq Procs
BY DEF Procs

LEMMA RunStartKept == ASSUME IInv, NEW j \in Runs, RunStart(j) PROVE Advanced(j)
<1>1. /\ j \in Procs /\ HoldsOK(loc[j], pc[j], remote, Heads)
      /\ session \in Trees /\ main \in Trees /\ cloned \in BOOLEAN
  BY RunIsProc DEF IInv, FilesOK
<1>2. /\ session' \in Trees /\ cloned' \in BOOLEAN
      /\ UNCHANGED <<setup, changes, delivery, main, remote, pulls>>
  BY <1>1 DEF RunStart, files, github
<1>3. Frame(j) /\ HoldsOK(loc'[j], pc'[j], remote, Heads)
  <2>1. CASE Leave(j)
    BY <1>1, <2>1, LeaveHolds
  <2>2. CASE Go(j, "walk") /\ loc' = [loc EXCEPT ![j].tree = session']
    <3>1. /\ Frame(j) /\ pc'[j] = "walk"
          /\ loc'[j] = [loc[j] EXCEPT !.tree = session']
      BY <1>1, <2>2 DEF Go, Frame, IInv
    <3>2. IsLocal(loc'[j])
      BY <1>1, <1>2, <3>1 DEF HoldsOK, IsLocal
    <3> QED BY <1>1, <3>1, <3>2 DEF HoldsOK, IsLocal, RunLabels
  <2> QED BY <2>1, <2>2 DEF RunStart
<1> QED BY <1>2, <1>3 DEF IInv, Advanced, Frame, FilesOK, Heads

LEMMA RunnerCallKept == ASSUME IInv, NEW j \in Runs, RunnerCall(j) PROVE Advanced(j)
<1>1. j \in Procs /\ HoldsOK(loc[j], pc[j], remote, Heads)
  BY RunIsProc DEF IInv
<1>2. PICK outcome \in Outcomes : loc' = [loc EXCEPT ![j].tried = Append(@, outcome)]
  BY DEF RunnerCall, Attempts, Outcomes
<1>3. /\ Frame(j) /\ pc'[j] = "walk"
      /\ loc'[j] = [loc[j] EXCEPT !.tried = Append(@, outcome)]
  BY <1>1, <1>2 DEF RunnerCall, Frame, IInv
<1>4. loc'[j].tried \in Seq(Outcomes)
  BY <1>1, <1>3 DEF HoldsOK, IsLocal
<1>5. IsLocal(loc'[j])
  BY <1>1, <1>3, <1>4 DEF HoldsOK, IsLocal
<1>6. HoldsOK(loc'[j], pc'[j], remote, Heads)
  BY <1>1, <1>3, <1>5 DEF HoldsOK, IsLocal, RunLabels
<1> QED BY <1>1, <1>3, <1>6, InnerStep DEF RunnerCall

LEMMA RunnerFallbackKept == ASSUME IInv, NEW j \in Runs, RunnerFallback(j) PROVE Advanced(j)
<1>1. j \in Procs /\ HoldsOK(loc[j], pc[j], remote, Heads)
  BY RunIsProc DEF IInv
<1>2. Frame(j) /\ pc'[j] = "fallback" /\ loc'[j] = loc[j]
  BY <1>1, GoHolds DEF RunnerFallback
<1>3. HoldsOK(loc'[j], pc'[j], remote, Heads)
  BY <1>1, <1>2 DEF HoldsOK, RunnerFallback, RunLabels
<1> QED BY <1>1, <1>2, <1>3, InnerStep DEF RunnerFallback

LEMMA RunnerResultKept == ASSUME IInv, NEW j \in Runs, RunnerResult(j) PROVE Advanced(j)
<1>1. j \in Procs /\ HoldsOK(loc[j], pc[j], remote, Heads)
  BY RunIsProc DEF IInv
<1>2. PICK output \in Outputs :
        LET delta == FromRunner(j, output, loc[j].tree) IN
        IF delta = NoChanges THEN Leave(j)
        ELSE Go(j, "apply") /\ loc' = [loc EXCEPT ![j] = [Fresh EXCEPT !.cs = delta]]
  BY DEF RunnerResult
<1> DEFINE delta == FromRunner(j, output, loc[j].tree)
<1>3. IsChangeSet(delta)
  BY <1>1, RunnerIsTyped DEF HoldsOK, IsLocal
<1> HIDE DEF delta
<1>4. Frame(j) /\ HoldsOK(loc'[j], pc'[j], remote, Heads)
  <2>1. CASE delta = NoChanges
    BY <1>1, <1>2, <2>1, LeaveHolds DEF delta
  <2>2. CASE delta # NoChanges
    <3>1. Frame(j) /\ pc'[j] = "apply" /\ loc'[j] = [Fresh EXCEPT !.cs = delta]
      BY <1>1, <1>2, <2>2 DEF delta, Go, Frame, IInv
    <3>2. HoldsOK(Fresh, "idle", remote, Heads)
      BY FreshHolds
    <3>3. IsLocal(loc'[j])
      BY <1>3, <3>1, <3>2 DEF HoldsOK, IsLocal
    <3> QED BY <3>1, <3>2, <3>3 DEF HoldsOK, IsLocal, RunLabels
  <2> QED BY <2>1, <2>2
<1> QED BY <1>1, <1>4, InnerStep DEF RunnerResult

LEMMA ApplyToSessionKept == ASSUME IInv, NEW j \in Runs, ApplyToSession(j) PROVE Advanced(j)
<1>1. j \in Procs /\ HoldsOK(loc[j], pc[j], remote, Heads)
  BY RunIsProc DEF IInv
<1>2. IsChangeSet(loc[j].cs) /\ session \in Trees
  BY <1>1 DEF HoldsOK, IsLocal, IInv, FilesOK
<1>3. session' \in Trees
  <2>1. \/ session' \in {session, ApplyTo(loc[j].cs, session)}
        \/ \E done \in SUBSET DOMAIN loc[j].cs :
             session' = ApplyTo([p \in done |-> loc[j].cs[p]], session)
    BY DEF ApplyToSession
  <2> QED BY <1>2, <2>1, ApplyIsTyped, PartIsTyped
<1>4. Leave(j) \/ (Go(j, "merge.read") /\ UNCHANGED loc)
  BY DEF ApplyToSession
<1>5. Frame(j) /\ HoldsOK(loc'[j], pc'[j], remote, Heads)
  <2>1. CASE Go(j, "merge.read") /\ UNCHANGED loc
    BY <1>1, <2>1, GoHolds DEF HoldsOK, RunLabels
  <2> QED BY <1>1, <1>4, <2>1, LeaveHolds
<1>6. UNCHANGED <<setup, cloned, changes, delivery, main, remote, pulls>>
  BY DEF ApplyToSession, files, github
<1> QED BY <1>3, <1>5, <1>6 DEF IInv, Advanced, Frame, FilesOK, Heads

LEMMA MergeReadKept == ASSUME IInv, NEW j \in Runs, MergeRead(j) PROVE Advanced(j)
<1>1. j \in Procs /\ HoldsOK(loc[j], pc[j], remote, Heads) /\ IsChangeSet(changes)
  BY RunIsProc DEF IInv, FilesOK
<1>2. /\ Frame(j) /\ pc'[j] = "merge.write"
      /\ loc'[j] = [loc[j] EXCEPT !.base = changes]
  BY <1>1 DEF MergeRead, Go, Frame, IInv
<1>3. IsLocal(loc'[j])
  BY <1>1, <1>2 DEF HoldsOK, IsLocal
<1>4. HoldsOK(loc'[j], pc'[j], remote, Heads)
  BY <1>1, <1>2, <1>3 DEF HoldsOK, IsLocal, RunLabels
<1> QED BY <1>1, <1>2, <1>4, InnerStep DEF MergeRead

LEMMA MergeWriteKept == ASSUME IInv, NEW j \in Runs, MergeWrite(j) PROVE Advanced(j)
<1>1. j \in Procs /\ HoldsOK(loc[j], pc[j], remote, Heads)
  BY RunIsProc DEF IInv
<1>2. IsChangeSet(changes')
  BY <1>1, MergeIsTyped DEF MergeWrite, HoldsOK, IsLocal
<1>3. Frame(j) /\ HoldsOK(loc'[j], pc'[j], remote, Heads)
  BY <1>1, LeaveHolds DEF MergeWrite
<1>4. UNCHANGED <<setup, cloned, session, delivery, main, remote, pulls>>
  BY DEF MergeWrite, local, github
<1> QED BY <1>2, <1>3, <1>4 DEF IInv, Advanced, Frame, FilesOK, Heads

-----------------------------------------------------------------------------
(* The steps of a delivery. *)

LEMMA BeginKept == ASSUME IInv, NEW d \in Deliveries, Begin(d) PROVE Advanced(d)
<1>1. d \in Procs /\ HoldsOK(loc[d], pc[d], remote, Heads)
  BY RunIsProc DEF IInv
<1>2. \/ \E fault \in Statuses \ {"delivered"} : Fail(d, fault)
      \/ \E branch \in Branches, target \in Targets :
           /\ Go(d, "read")
           /\ loc' = [loc EXCEPT ![d].branch = branch, ![d].target = target]
  BY DEF Begin, Statuses
<1>3. Frame(d) /\ HoldsOK(loc'[d], pc'[d], remote, Heads)
  <2>1. ASSUME NEW branch \in Branches, NEW target \in Targets, Go(d, "read"),
               loc' = [loc EXCEPT ![d].branch = branch, ![d].target = target]
        PROVE  Frame(d) /\ HoldsOK(loc'[d], pc'[d], remote, Heads)
    <3>1. /\ Frame(d) /\ pc'[d] = "read"
          /\ loc'[d] = [loc[d] EXCEPT !.branch = branch, !.target = target]
      BY <1>1, <2>1 DEF Go, Frame, IInv
    <3>2. IsLocal(loc'[d])
      BY <1>1, <3>1 DEF HoldsOK, IsLocal
    <3> QED BY <1>1, <3>1, <3>2 DEF HoldsOK, IsLocal, DeliveryLabels
  <2> QED BY <1>1, <1>2, <2>1, FailHolds
<1> QED BY <1>1, <1>3, InnerStep DEF Begin

LEMMA ReadChangesKept == ASSUME IInv, NEW d \in Deliveries, ReadChanges(d) PROVE Advanced(d)
<1>1. d \in Procs /\ HoldsOK(loc[d], pc[d], remote, Heads) /\ IsChangeSet(changes)
  BY RunIsProc DEF IInv, FilesOK
<1>2. CASE Fail(d, "no_changes_produced")
  BY <1>1, <1>2, FailHolds, InnerStep DEF ReadChanges, Statuses
<1>3. CASE Go(d, "clone") /\ loc' = [loc EXCEPT ![d].cs = changes]
  <2>1. /\ Frame(d) /\ pc'[d] = "clone"
        /\ loc'[d] = [loc[d] EXCEPT !.cs = changes]
    BY <1>1, <1>3 DEF Go, Frame, IInv
  <2>2. IsLocal(loc'[d])
    BY <1>1, <2>1 DEF HoldsOK, IsLocal
  <2>3. HoldsOK(loc'[d], pc'[d], remote, Heads)
    BY <1>1, <2>1, <2>2 DEF HoldsOK, IsLocal, DeliveryLabels
  <2> QED BY <1>1, <2>1, <2>3, InnerStep DEF ReadChanges
<1> QED BY <1>2, <1>3 DEF ReadChanges

LEMMA CloneKept == ASSUME IInv, NEW d \in Deliveries, Clone(d) PROVE Advanced(d)
<1>1. d \in Procs /\ HoldsOK(loc[d], pc[d], remote, Heads) /\ main \in Trees
  BY RunIsProc DEF IInv, FilesOK
<1>2. CASE Fail(d, "workspace_unavailable")
  BY <1>1, <1>2, FailHolds, InnerStep DEF Clone, Statuses
<1>3. CASE Go(d, "commit") /\ loc' = [loc EXCEPT ![d].tree = main]
  <2>1. /\ Frame(d) /\ pc'[d] = "commit"
        /\ loc'[d] = [loc[d] EXCEPT !.tree = main]
    BY <1>1, <1>3 DEF Go, Frame, IInv
  <2>2. IsLocal(loc'[d])
    BY <1>1, <2>1 DEF HoldsOK, IsLocal
  <2>3. HoldsOK(loc'[d], pc'[d], remote, Heads)
    BY <1>1, <2>1, <2>2 DEF HoldsOK, IsLocal, DeliveryLabels
  <2> QED BY <1>1, <2>1, <2>3, InnerStep DEF Clone
<1> QED BY <1>2, <1>3 DEF Clone

LEMMA CommitKept == ASSUME IInv, NEW d \in Deliveries, Commit(d) PROVE Advanced(d)
<1> DEFINE cs == loc[d].cs
           tree == loc[d].tree
           commit == CommitOf(cs, tree)
<1>1. d \in Procs /\ HoldsOK(loc[d], pc[d], remote, Heads)
  BY RunIsProc DEF IInv
<1>2. \/ \E fault \in Statuses \ {"delivered"} : Fail(d, fault)
      \/ /\ ApplyFault(cs, tree) = "none" /\ loc[d].branch # Base /\ ~Identical(commit)
         /\ Go(d, "push") /\ loc' = [loc EXCEPT ![d].commit = commit]
  BY DEF Commit, ApplyFault, Statuses, GitRefuses
<1>3. ASSUME NEW fault \in Statuses \ {"delivered"}, Fail(d, fault)
      PROVE  Advanced(d)
  BY <1>1, <1>3, FailHolds, InnerStep DEF Commit
<1>4. CASE /\ ApplyFault(cs, tree) = "none" /\ loc[d].branch # Base /\ ~Identical(commit)
           /\ Go(d, "push") /\ loc' = [loc EXCEPT ![d].commit = commit]
  <2>1. IsChangeSet(cs) /\ tree \in Trees
    BY <1>1 DEF HoldsOK, IsLocal
  <2>2. ~UnsafePath(cs)
    BY <1>4 DEF ApplyFault
  <2>3. IsCommit(commit) /\ DOMAIN commit.files \cap Unsafe = {} /\ commit # NoCommit
    <3> HIDE DEF cs, tree
    <3> QED BY <1>4, <2>1, <2>2, CommitIsTyped
  <2> HIDE DEF commit
  <2>4. /\ Frame(d) /\ pc'[d] = "push"
        /\ loc'[d] = [loc[d] EXCEPT !.commit = commit]
    BY <1>1, <1>4 DEF Go, Frame, IInv
  <2>5. IsLocal(loc'[d])
    BY <1>1, <2>3, <2>4 DEF HoldsOK, IsLocal
  <2>6. HoldsOK(loc'[d], pc'[d], remote, Heads)
    BY <1>1, <1>4, <2>3, <2>4, <2>5 DEF HoldsOK, IsLocal, DeliveryLabels
  <2> QED BY <1>1, <2>4, <2>6, InnerStep DEF Commit
<1> QED BY <1>2, <1>3, <1>4

\* A push that the remote takes leaves the commits there are.
LEMMA PushKept == ASSUME IInv, NEW d \in Deliveries, Push(d) PROVE Advanced(d)
<1> DEFINE branch == loc[d].branch
           commit == loc[d].commit
<1>1. /\ d \in Procs /\ HoldsOK(loc[d], pc[d], remote, Heads) /\ pc[d] = "push"
      /\ RemoteOK(remote, Heads) /\ RecordOK(delivery, remote, Heads)
  BY RunIsProc DEF IInv, Push
<1>2. branch \in Branches \ {Base} /\ commit # NoCommit /\ IsCommit(commit)
  BY <1>1 DEF HoldsOK, IsLocal
<1>3. UNCHANGED <<local, files, main, pulls>> /\ Heads' = Heads
  BY DEF Push, Heads
<1>4. CASE UNCHANGED remote /\ \E fault \in {"push_rejected", "push_failed"} : Fail(d, fault)
  <2>1. Frame(d) /\ HoldsOK(loc'[d], pc'[d], remote, Heads)
    BY <1>1, <1>4, FailHolds DEF Statuses
  <2> QED BY <1>1, <1>3, <1>4, <2>1, InnerStep DEF github
<1>5. CASE /\ remote[branch] \in {NoCommit, commit}
           /\ remote' = [remote EXCEPT ![branch] = commit]
           /\ (Go(d, "pull") /\ UNCHANGED loc) \/ Fail(d, "push_failed")
  <2>1. /\ DOMAIN remote' = Branches
        /\ remote'[branch] = commit
        /\ \A b \in Branches : remote[b] # NoCommit => remote'[b] = remote[b]
        /\ \A b \in Branches : b = branch \/ remote'[b] = remote[b]
    BY <1>1, <1>2, <1>5 DEF RemoteOK
  <2>2. DOMAIN commit.files \cap Unsafe = {}
    BY <1>1 DEF HoldsOK
  <2>3. RemoteOK(remote', Heads')
    <3>1. Base \in Branches /\ Base # branch
      BY <1>2, DeliveryAssumption
    <3>2. \A b \in Branches : IsCommit(remote'[b]) /\ DOMAIN remote'[b].files \cap Unsafe = {}
      BY <1>1, <1>2, <2>1, <2>2 DEF RemoteOK
    <3> QED BY <1>1, <1>2, <1>3, <2>1, <3>1, <3>2 DEF RemoteOK
  <2>4. RecordOK(delivery', remote', Heads')
    BY <1>1, <1>3, <2>1, RecordStays DEF files
  <2>5. Frame(d) /\ HoldsOK(loc'[d], pc'[d], remote', Heads')
    <3>1. CASE Fail(d, "push_failed")
      BY <1>1, <3>1, FailHolds DEF Statuses
    <3>2. CASE Go(d, "pull") /\ UNCHANGED loc
      <4>1. Frame(d) /\ pc'[d] = "pull" /\ loc'[d] = loc[d]
        BY <1>1, <3>2, GoHolds
      <4>2. HoldsOK(loc[d], pc[d], remote', Heads')
        BY <1>1, <1>3, <2>1, HoldsStays
      <4> QED BY <4>1, <4>2, <1>1, <2>1 DEF HoldsOK, DeliveryLabels
    <3> QED BY <1>5, <3>1, <3>2
  <2> QED BY <1>3, <2>1, <2>3, <2>4, <2>5 DEF IInv, Advanced, Frame, FilesOK, local, files
<1> QED BY <1>4, <1>5 DEF Push

LEMMA OpenPullKept == ASSUME IInv, NEW d \in Deliveries, OpenPull(d) PROVE Advanced(d)
<1> DEFINE branch == loc[d].branch
<1>1. /\ d \in Procs /\ HoldsOK(loc[d], pc[d], remote, Heads) /\ pc[d] = "pull"
      /\ RemoteOK(remote, Heads) /\ RecordOK(delivery, remote, Heads)
  BY RunIsProc DEF IInv, OpenPull
<1>2. branch \in Branches \ {Base} /\ remote[branch] # NoCommit
  BY <1>1 DEF HoldsOK, IsLocal
<1>3. UNCHANGED <<local, files, main, remote>>
  BY DEF OpenPull
<1>4. CASE UNCHANGED pulls /\ Fail(d, "missing_pull_requests_permission")
  <2>1. Frame(d) /\ HoldsOK(loc'[d], pc'[d], remote, Heads)
    BY <1>1, <1>4, FailHolds DEF Statuses
  <2> QED BY <1>1, <1>3, <1>4, <2>1, InnerStep DEF github
<1>5. CASE /\ pulls' = pulls \cup {<<branch, loc[d].target>>}
           /\ (Go(d, "record") /\ UNCHANGED loc) \/ Fail(d, "upstream_error")
  <2>0. Heads' = Heads \cup {branch} /\ pulls' \subseteq Branches \X Targets
    <3>1. loc[d].target \in Targets /\ pulls \subseteq Branches \X Targets
      BY <1>1 DEF HoldsOK, IsLocal, IInv
    <3>2. pulls' \subseteq Branches \X Targets
      BY <1>2, <1>5, <3>1
    <3>3. Heads' = {pull[1] : pull \in pulls \cup {<<branch, loc[d].target>>}}
      BY <1>5 DEF Heads
    <3>4. {pull[1] : pull \in pulls \cup {<<branch, loc[d].target>>}} = Heads \cup {branch}
      <4>1. <<branch, loc[d].target>>[1] = branch
        OBVIOUS
      <4> QED BY <4>1 DEF Heads
    <3> QED BY <3>2, <3>3, <3>4
  <2>1. RemoteOK(remote', Heads')
    BY <1>1, <1>2, <1>3, <2>0 DEF RemoteOK
  <2>2. RecordOK(delivery', remote', Heads')
    BY <1>1, <1>3, <2>0, RecordStays DEF files
  <2>3. Frame(d) /\ HoldsOK(loc'[d], pc'[d], remote', Heads')
    <3>1. CASE Fail(d, "upstream_error")
      BY <1>1, <3>1, FailHolds DEF Statuses
    <3>2. CASE Go(d, "record") /\ UNCHANGED loc
      <4>1. Frame(d) /\ pc'[d] = "record" /\ loc'[d] = loc[d]
        BY <1>1, <3>2, GoHolds
      <4>2. HoldsOK(loc[d], pc[d], remote', Heads')
        BY <1>1, <1>3, <2>0, HoldsStays
      <4> QED BY <4>1, <4>2, <1>1, <2>0 DEF HoldsOK, DeliveryLabels
    <3> QED BY <1>5, <3>1, <3>2
  <2> QED BY <1>3, <2>0, <2>1, <2>2, <2>3 DEF IInv, Advanced, Frame, FilesOK, local, files
<1> QED BY <1>4, <1>5 DEF OpenPull

\* What is recorded is what the delivery pushed, on the branch it opened.
LEMMA RecordKept == ASSUME IInv, NEW d \in Deliveries, Record(d) PROVE Advanced(d)
<1>1. /\ d \in Procs /\ HoldsOK(loc[d], pc[d], remote, Heads) /\ pc[d] = "record"
  BY RunIsProc DEF IInv, Record
<1>2. UNCHANGED <<local, changes, github>> /\ delivery' = Delivered(d)
  BY DEF Record
<1>3. RecordOK(delivery', remote, Heads)
  BY <1>1, <1>2 DEF RecordOK, Delivered, HoldsOK, IsLocal, Statuses
<1>4. Frame(d) /\ pc'[d] = "clear" /\ loc'[d] = loc[d]
  BY <1>1, GoHolds DEF Record
<1>5. HoldsOK(loc'[d], pc'[d], remote, Heads)
  BY <1>1, <1>4 DEF HoldsOK, DeliveryLabels
<1> QED BY <1>2, <1>3, <1>4, <1>5 DEF IInv, Advanced, Frame, FilesOK, local, github, Heads

LEMMA RecordFailureKept == ASSUME IInv, NEW d \in Deliveries, RecordFailure(d) PROVE Advanced(d)
<1>1. d \in Procs /\ HoldsOK(loc[d], pc[d], remote, Heads) /\ RecordOK(delivery, remote, Heads)
  BY RunIsProc DEF IInv
<1>2. /\ UNCHANGED <<local, changes, github>>
      /\ delivery' = [delivery EXCEPT !.status = loc[d].fault]
  BY DEF RecordFailure
<1>3. RecordOK(delivery', remote, Heads)
  BY <1>1, <1>2 DEF RecordOK, HoldsOK, IsLocal
<1>4. Frame(d) /\ HoldsOK(loc'[d], pc'[d], remote, Heads)
  BY <1>1, LeaveHolds DEF RecordFailure
<1> QED BY <1>2, <1>3, <1>4 DEF IInv, Advanced, Frame, FilesOK, local, github, Heads

LEMMA ClearKept == ASSUME IInv, NEW d \in Deliveries, Clear(d) PROVE Advanced(d)
<1>1. d \in Procs
  BY RunIsProc
<1>2. UNCHANGED <<local, delivery, github>> /\ IsChangeSet(changes')
  BY NothingIsTyped DEF Clear
<1>3. Frame(d) /\ HoldsOK(loc'[d], pc'[d], remote, Heads)
  BY <1>1, LeaveHolds DEF Clear
<1> QED BY <1>2, <1>3 DEF IInv, Advanced, Frame, FilesOK, local, github, Heads

-----------------------------------------------------------------------------
(* The environment, and the theorems. *)

LEMMA MergePullKeeps == ASSUME IInv, NEW branch \in Branches, MergePull(branch) PROVE IInv'
<1>1. IsCommit(remote[branch]) /\ main \in Trees
  BY DEF IInv, RemoteOK, FilesOK
<1>2. main' \in Trees
  BY <1>1 DEF MergePull, IsCommit, Trees
<1>3. UNCHANGED <<setup, cloned, session, changes, delivery, remote, pulls, pc, loc>>
  BY DEF MergePull, local, files
<1> QED BY <1>2, <1>3 DEF IInv, FilesOK, Heads

LEMMA SetupKeeps == ASSUME IInv, Link \/ Configure PROVE IInv'
<1>1. /\ setup' \in Setups
      /\ UNCHANGED <<cloned, session, changes, delivery, main, remote, pulls, pc, loc>>
  BY DEF Link, Configure, Setups, files, github
<1> QED BY <1>1 DEF IInv, FilesOK, Heads

LEMMA CrashKeeps == ASSUME IInv, Crash PROVE IInv'
<1>1. UNCHANGED <<setup, cloned, session, changes, delivery, main, remote, pulls>>
  BY DEF Crash, local, files, github
<1>2. \A p \in Procs : HoldsOK(loc'[p], pc'[p], remote, Heads)
  BY FreshHolds DEF Crash, IInv
<1> QED BY <1>1, <1>2 DEF IInv, Crash, Heads

LEMMA InitInv == Init => IInv
<1> SUFFICES ASSUME Init PROVE IInv
  OBVIOUS
<1>1. FilesOK(setup, cloned, session, main, changes)
  BY NothingIsTyped, DeliveryAssumption DEF Init, FilesOK, Trees, Contents, Setups
<1>2. RemoteOK(remote, Heads) /\ RecordOK(delivery, remote, Heads)
  BY NothingIsTyped, DeliveryAssumption DEF Init, RemoteOK, RecordOK, Statuses, Heads
<1> QED BY <1>1, <1>2, FreshHolds DEF Init, IInv

LEMMA StepInv == IInv /\ [Next]_vars => IInv'
<1> SUFFICES ASSUME IInv, [Next]_vars PROVE IInv'
  OBVIOUS
<1>1. ASSUME NEW j \in Runs, RunStart(j) \/ RunStep(j) PROVE IInv'
  <2>1. Advanced(j)
    BY <1>1, RunStartKept, RunnerCallKept, RunnerFallbackKept, RunnerResultKept,
       ApplyToSessionKept, MergeReadKept, MergeWriteKept DEF RunStep
  <2> QED BY <2>1, KeptKeeps, RunIsProc
<1>2. ASSUME NEW d \in Deliveries, Begin(d) \/ DeliveryStep(d) PROVE IInv'
  <2>1. Advanced(d)
    BY <1>2, BeginKept, ReadChangesKept, CloneKept, CommitKept, PushKept, OpenPullKept,
       RecordKept, RecordFailureKept, ClearKept DEF DeliveryStep
  <2> QED BY <2>1, KeptKeeps, RunIsProc
<1>3. CASE UNCHANGED vars
  BY <1>3 DEF vars, IInv, Heads
<1> QED BY <1>1, <1>2, <1>3, MergePullKeeps, SetupKeeps, CrashKeeps DEF Next, Finished

\* The delivery keeps its types, for all constants (delivery.go, change_set.go).
THEOREM DeliveryTypes == Spec => []TypeOK
<1>1. IInv => TypeOK
  BY DEF IInv, TypeOK, FilesOK, RemoteOK, RecordOK, HoldsOK
<1> QED BY <1>1, InitInv, StepInv, PTL DEF Spec

\* A task that says it is delivered names a branch with a pull request and the
\* files that the branch holds, however its deliveries overlap, fail or die
\* (handleTaskDeliver, recordDeliveryFailure).
THEOREM DeliveredIsThere == Spec => []TaskPointsAtItsPull
<1>1. IInv => TaskPointsAtItsPull
  BY DEF IInv, TaskPointsAtItsPull, RecordOK
<1> QED BY <1>1, InitInv, StepInv, PTL DEF Spec

\* No branch ever holds a path that pathRejection refuses, whether the path was
\* recorded by a run with a session clone or by one without, before the project
\* was linked, and whatever file the diff under it changes (applyChangeSet).
THEOREM ShippedIsSafe == Spec => []UnsafeNeverShipped
<1>1. IInv => UnsafeNeverShipped
  BY DEF IInv, UnsafeNeverShipped, RemoteOK
<1> QED BY <1>1, InitInv, StepInv, PTL DEF Spec

\* No delivery commits to the default branch, whatever base and branch its
\* request names (runDelivery, gitCommitOnBranch).
THEOREM BaseIsLeftAlone == Spec => []BaseIsNeverPushed
<1>1. IInv => BaseIsNeverPushed
  BY DEF IInv, BaseIsNeverPushed, RemoteOK
<1> QED BY <1>1, InitInv, StepInv, PTL DEF Spec

=============================================================================
