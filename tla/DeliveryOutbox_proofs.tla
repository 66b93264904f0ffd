----------------------- MODULE DeliveryOutbox_proofs -----------------------
(***************************************************************************)
(* Recording and delivering change sets implements the outbox, for every   *)
(* set of runs, deliveries, paths and branches, provided a run starts, and *)
(* a delivery begins, only while no run is at work (and a run waits for    *)
(* the deliveries too).                                                    *)
(***************************************************************************)
EXTENDS Delivery_proofs

WorkOf(cs) == {<<cs[p].run, p>> : p \in DOMAIN cs}

Waiting == WorkOf(changes)
Shipped == UNION {WorkOf(remote[b].changes) : b \in Heads}

\* A run at work is alone.
Alone ==
  \A j \in Runs : ~AtRest(j) => \A p \in Procs \ {j} : AtRest(p)

\* A run that has something to record has it, and knows what is recorded.
RunKnows(j) ==
  /\ pc[j] \in {"apply", "merge.read", "merge.write"} => loc[j].cs # NoChanges
  /\ pc[j] = "merge.write" => loc[j].base = changes

Reading == {"clone", "commit", "push", "pull", "record", "clear"}
Committed == {"push", "pull", "record", "clear"}

\* A delivery holds what waits, or another has shipped it all.
DeliveryKnows(d) ==
  /\ pc[d] \in Reading =>
       /\ IsChangeSet(loc[d].cs) /\ loc[d].cs # NoChanges
       /\ changes = loc[d].cs \/ (changes = NoChanges /\ WorkOf(loc[d].cs) \subseteq Shipped)
  /\ pc[d] \in Committed => loc[d].commit.changes = loc[d].cs

QInv ==
  /\ IInv /\ Alone
  /\ \A j \in Runs : RunKnows(j)
  /\ \A d \in Deliveries : DeliveryKnows(d)

-----------------------------------------------------------------------------
(* Work and change sets. *)

LEMMA NoWork == WorkOf(NoChanges) = {}
BY DEF WorkOf, NoChanges

LEMMA SomeWork ==
  ASSUME NEW cs, IsChangeSet(cs), cs # NoChanges
  PROVE  WorkOf(cs) \in (SUBSET (Runs \X Paths)) \ {{}}
<1>1. DOMAIN cs # {}
  BY DEF IsChangeSet, NoChanges
<1>2. \A p \in DOMAIN cs : cs[p].run \in Runs /\ p \in Paths
  BY DEF IsChangeSet, Changes
<1>3. WorkOf(cs) \subseteq Runs \X Paths
  BY <1>2 DEF WorkOf
<1>4. PICK p \in DOMAIN cs : TRUE
  BY <1>1
<1>5. <<cs[p].run, p>> \in WorkOf(cs)
  BY DEF WorkOf
<1>6. WorkOf(cs) # {}
  BY <1>5
<1> HIDE DEF WorkOf
<1> QED BY <1>3, <1>6

LEMMA MergedWork ==
  ASSUME NEW base, NEW delta
  PROVE  WorkOf(Merge(base, delta)) =
           WorkOf(delta) \cup {w \in WorkOf(base) : \A f \in WorkOf(delta) : f[2] # w[2]}
<1> DEFINE both == Merge(base, delta)
<1>1. /\ DOMAIN both = DOMAIN base \cup DOMAIN delta
      /\ \A p \in DOMAIN delta : both[p] = delta[p]
      /\ \A p \in DOMAIN base \ DOMAIN delta : both[p] = base[p]
  BY DEF Merge
<1> HIDE DEF both
<1>2. ASSUME NEW x PROVE (\E f \in WorkOf(delta) : f[2] = x) <=> x \in DOMAIN delta
  <2>1. ASSUME NEW f \in WorkOf(delta) PROVE f[2] \in DOMAIN delta
    BY DEF WorkOf
  <2>2. ASSUME x \in DOMAIN delta PROVE \E f \in WorkOf(delta) : f[2] = x
    <3>1. <<delta[x].run, x>> \in WorkOf(delta)
      BY <2>2 DEF WorkOf
    <3> QED BY <3>1
  <2> QED BY <2>1, <2>2
<1>3. {w \in WorkOf(base) : \A f \in WorkOf(delta) : f[2] # w[2]}
        = {<<base[p].run, p>> : p \in DOMAIN base \ DOMAIN delta}
  <2> DEFINE kept == {w \in WorkOf(base) : w[2] \notin DOMAIN delta}
             rest == {<<base[p].run, p>> : p \in DOMAIN base \ DOMAIN delta}
  <2>1. ASSUME NEW w \in kept PROVE w \in rest
    <3>1. PICK p \in DOMAIN base : w = <<base[p].run, p>>
      BY DEF WorkOf
    <3> QED BY <3>1
  <2>2. ASSUME NEW w \in rest PROVE w \in kept
    <3>1. PICK p \in DOMAIN base \ DOMAIN delta : w = <<base[p].run, p>>
      OBVIOUS
    <3>2. w[2] = p /\ w \in WorkOf(base)
      BY <3>1 DEF WorkOf
    <3> QED BY <3>1, <3>2
  <2>3. kept = rest
    <3> HIDE DEF kept, rest
    <3> QED BY <2>1, <2>2
  <2> QED BY <1>2, <2>3
<1>4. WorkOf(both) = {<<both[p].run, p>> : p \in DOMAIN delta}
                       \cup {<<both[p].run, p>> : p \in DOMAIN base \ DOMAIN delta}
  BY <1>1 DEF WorkOf
<1>5. /\ {<<both[p].run, p>> : p \in DOMAIN delta} = WorkOf(delta)
      /\ {<<both[p].run, p>> : p \in DOMAIN base \ DOMAIN delta}
           = {<<base[p].run, p>> : p \in DOMAIN base \ DOMAIN delta}
  BY <1>1 DEF WorkOf
<1> QED BY <1>3, <1>4, <1>5 DEF both

-----------------------------------------------------------------------------
(* What a step does to the outbox. *)

\* A step that leaves the change set and what is shipped.
Aside(p) ==
  /\ changes' = changes /\ Shipped' = Shipped
  /\ \A q \in Procs \ {p} : pc'[q] = pc[q] /\ loc'[q] = loc[q]

\* The branches with a pull request keep their commits, and so their work.
LEMMA PushShips ==
  ASSUME RemoteOK(remote, Heads), Heads' = Heads,
         \A b \in Branches : remote[b] # NoCommit => remote'[b] = remote[b]
  PROVE  Shipped' = Shipped
<1>1. \A b \in Heads : remote'[b] = remote[b]
  BY DEF RemoteOK
<1>2. Shipped' = UNION {WorkOf(remote'[b].changes) : b \in Heads}
  BY DEF Shipped, WorkOf
<1>3. {WorkOf(remote'[b].changes) : b \in Heads} = {WorkOf(remote[b].changes) : b \in Heads}
  BY <1>1
<1> QED BY <1>2, <1>3 DEF Shipped

LEMMA PullShips ==
  ASSUME NEW branch, remote' = remote, Heads' = Heads \cup {branch}
  PROVE  Shipped' = Shipped \cup WorkOf(remote[branch].changes)
<1>1. Shipped' = UNION {WorkOf(remote[b].changes) : b \in Heads \cup {branch}}
  BY DEF Shipped, WorkOf
<1> HIDE DEF WorkOf
<1> QED BY <1>1 DEF Shipped

LEMMA OthersKnow ==
  ASSUME QInv, NEW p \in Procs, Aside(p)
  PROVE  /\ \A j \in Runs \ {p} : RunKnows(j)'
         /\ \A d \in Deliveries \ {p} : DeliveryKnows(d)'
<1>1. ASSUME NEW j \in Runs \ {p} PROVE RunKnows(j)'
  BY RunIsProc DEF QInv, Aside, RunKnows
<1>2. ASSUME NEW d \in Deliveries \ {p} PROVE DeliveryKnows(d)'
  <2>1. DeliveryKnows(d) /\ pc'[d] = pc[d] /\ loc'[d] = loc[d]
    BY RunIsProc DEF QInv, Aside
  <2> HIDE DEF Shipped
  <2> QED BY <2>1 DEF Aside, DeliveryKnows, IsChangeSet, WorkOf, Reading, Committed
<1> QED BY <1>1, <1>2

\* Who is at work changes only when a run starts or a delivery begins.
LEMMA AloneStays ==
  ASSUME Alone, \A q \in Procs : ~AtRest(q)' => ~AtRest(q)
  PROVE  Alone'
BY RunIsProc DEF Alone, AtRest

LEMMA AloneOwn ==
  ASSUME QInv, NEW p \in Procs, ~AtRest(p), Advanced(p)
  PROVE  Alone'
BY AloneStays DEF QInv, Advanced, AtRest

LEMMA KeptAside ==
  ASSUME QInv, NEW p \in Procs, Advanced(p), changes' = changes, Heads' = Heads
  PROVE  Aside(p)
<1>1. Shipped' = Shipped
  <2> HIDE DEF Shipped
  <2> QED BY PushShips DEF QInv, IInv, Advanced
<1> QED BY <1>1 DEF Advanced, Aside

\* What is left to show of a step that neither records, ships nor clears.
LEMMA AsideKeeps ==
  ASSUME QInv, NEW p \in Procs, Advanced(p), changes' = changes, Heads' = Heads, Alone',
         p \in Runs => RunKnows(p)', p \in Deliveries => DeliveryKnows(p)'
  PROVE  QInv' /\ UNCHANGED <<Waiting, Shipped>>
<1>1. Aside(p)
  BY KeptAside
<1>2. IInv'
  BY KeptKeeps DEF QInv
<1>3. Waiting' = Waiting
  BY DEF Waiting, WorkOf
<1> QED BY <1>1, <1>2, <1>3, OthersKnow DEF QInv, Aside

-----------------------------------------------------------------------------
(* The steps of a run. *)

LEMMA RunStartQuiet ==
  ASSUME QInv, Quiet, NEW j \in Runs, RunStart(j)
  PROVE  QInv' /\ UNCHANGED <<Waiting, Shipped>>
<1>1. Advanced(j) /\ j \in Procs
  BY RunStartKept, RunIsProc DEF QInv
<1>2. \A p \in Procs \ {j} : AtRest(p)'
  BY <1>1 DEF RunStart, Advanced, AtRest
<1>3. Alone'
  BY <1>2, RunIsProc DEF Alone
<1>4. pc'[j] \in {"walk", "done"} /\ changes' = changes /\ Heads' = Heads
  BY <1>1 DEF RunStart, Leave, Go, QInv, IInv, files, github, Heads
<1>5. RunKnows(j)' /\ j \notin Deliveries
  BY <1>4, DeliveryAssumption DEF RunKnows
<1> QED BY <1>1, <1>3, <1>4, <1>5, AsideKeeps

LEMMA RunStepQuiet ==
  ASSUME QInv, NEW j \in Runs,
         RunnerCall(j) \/ RunnerFallback(j) \/ RunnerResult(j) \/ ApplyToSession(j)
           \/ MergeRead(j)
  PROVE  QInv' /\ UNCHANGED <<Waiting, Shipped>>
<1>1. Advanced(j) /\ j \in Procs /\ j \notin Deliveries
  BY RunnerCallKept, RunnerFallbackKept, RunnerResultKept, ApplyToSessionKept,
     MergeReadKept, RunIsProc, DeliveryAssumption DEF QInv
<1>2. ~AtRest(j) /\ changes' = changes /\ Heads' = Heads
  BY DEF RunnerCall, RunnerFallback, RunnerResult, ApplyToSession, MergeRead, AtRest,
         files, github, Heads
<1>3. Alone'
  BY <1>1, <1>2, AloneOwn
<1>4. DOMAIN pc = Procs /\ DOMAIN loc = Procs /\ IsLocal(loc[j]) /\ RunKnows(j)
  BY <1>1 DEF QInv, IInv, HoldsOK
<1>5. RunKnows(j)'
  <2>1. CASE RunnerCall(j)
    BY <2>1 DEF RunnerCall, RunKnows
  <2>2. CASE RunnerFallback(j)
    BY <1>1, <1>4, <2>2 DEF RunnerFallback, Go, RunKnows
  <2>3. CASE RunnerResult(j)
    <3>1. PICK output \in Outputs :
            LET delta == FromRunner(j, output, loc[j].tree) IN
            IF delta = NoChanges THEN Leave(j)
            ELSE Go(j, "apply") /\ loc' = [loc EXCEPT ![j] = [Fresh EXCEPT !.cs = delta]]
      BY <2>3 DEF RunnerResult
    <3> DEFINE delta == FromRunner(j, output, loc[j].tree)
    <3> HIDE DEF delta
    <3>2. \/ pc'[j] = "done"
          \/ pc'[j] = "apply" /\ delta # NoChanges /\ loc'[j] = [Fresh EXCEPT !.cs = delta]
      BY <1>1, <1>4, <3>1 DEF Leave, Go, delta
    <3> QED BY <3>2 DEF RunKnows, Fresh
  <2>4. CASE ApplyToSession(j)
    <3>1. Leave(j) \/ (Go(j, "merge.read") /\ UNCHANGED loc)
      BY <2>4 DEF ApplyToSession
    <3>2. pc[j] = "apply"
      BY <2>4 DEF ApplyToSession
    <3> QED BY <1>1, <1>4, <3>1, <3>2 DEF Leave, Go, RunKnows
  <2>5. CASE MergeRead(j)
    <3>1. /\ pc[j] = "merge.read" /\ pc'[j] = "merge.write"
          /\ loc'[j] = [loc[j] EXCEPT !.base = changes]
      BY <1>1, <1>4, <2>5 DEF MergeRead, Go
    <3> QED BY <1>2, <1>4, <3>1 DEF RunKnows, IsLocal
  <2> QED BY <2>1, <2>2, <2>3, <2>4, <2>5
<1> QED BY <1>1, <1>2, <1>3, <1>5, AsideKeeps

\* The merge records the work of the run, in place of earlier work on its paths.
LEMMA MergeWriteQuiet ==
  ASSUME QInv, NEW j \in Runs, MergeWrite(j)
  PROVE  QInv' /\ Outbox!Record
<1>1. Advanced(j) /\ j \in Procs
  BY MergeWriteKept, RunIsProc DEF QInv
<1>2. pc[j] = "merge.write" /\ ~AtRest(j)
  BY DEF MergeWrite, AtRest
<1>3. IsChangeSet(loc[j].cs) /\ loc[j].cs # NoChanges /\ loc[j].base = changes
  BY <1>1, <1>2 DEF QInv, IInv, HoldsOK, IsLocal, RunKnows
<1>4. changes' = Merge(changes, loc[j].cs) /\ Heads' = Heads /\ remote' = remote
  BY <1>3 DEF MergeWrite, github, Heads
<1>5. Shipped' = Shipped
  BY <1>4 DEF Shipped, WorkOf
<1>6. \A p \in Procs \ {j} : AtRest(p) /\ pc'[p] = pc[p]
  BY <1>1, <1>2 DEF QInv, Alone, Advanced
<1>7. pc'[j] = "done"
  BY <1>1 DEF MergeWrite, Leave, Go, QInv, IInv
<1>8. \A p \in Procs : pc'[p] \in {"idle", "done", "fallback", "dead"}
  BY <1>6, <1>7 DEF AtRest
<1>9. QInv'
  <2>1. IInv'
    BY <1>1, KeptKeeps DEF QInv
  <2>2. Alone'
    BY <1>8, RunIsProc DEF Alone, AtRest
  <2>3. \A k \in Runs : RunKnows(k)'
    BY <1>8, RunIsProc DEF RunKnows
  <2>4. \A d \in Deliveries : DeliveryKnows(d)'
    BY <1>8, RunIsProc DEF DeliveryKnows, Reading, Committed
  <2> QED BY <2>1, <2>2, <2>3, <2>4 DEF QInv
<1>10. Outbox!Record
  <2> DEFINE fresh == WorkOf(loc[j].cs)
  <2>1. fresh \in (SUBSET (Runs \X Paths)) \ {{}}
    BY <1>3, SomeWork
  <2>2. Waiting' = fresh \cup {w \in Waiting : \A f \in fresh : f[2] # w[2]}
    <3>1. Waiting' = WorkOf(Merge(changes, loc[j].cs))
      BY <1>4 DEF Waiting, WorkOf
    <3> HIDE DEF WorkOf
    <3> QED BY <3>1, MergedWork DEF Waiting
  <2> HIDE DEF fresh
  <2> QED BY <1>5, <2>1, <2>2 DEF Outbox!Record, Outbox!Work, Waiting, Shipped, WorkOf
<1> QED BY <1>9, <1>10

-----------------------------------------------------------------------------
(* The steps of a delivery. *)

LEMMA BeginQuiet ==
  ASSUME QInv, Quiet, NEW d \in Deliveries, Begin(d)
  PROVE  QInv' /\ UNCHANGED <<Waiting, Shipped>>
<1>1. Advanced(d) /\ d \in Procs /\ d \notin Runs
  BY BeginKept, RunIsProc, DeliveryAssumption DEF QInv
<1>2. \A j \in Runs : AtRest(j)'
  BY <1>1, RunIsProc DEF Begin, Advanced, AtRest
<1>3. Alone'
  BY <1>2 DEF Alone
<1>4. pc'[d] \in {"fail", "read"} /\ changes' = changes /\ Heads' = Heads
  BY <1>1 DEF Begin, Fail, Go, QInv, IInv, files, github, Heads
<1>5. DeliveryKnows(d)'
  BY <1>4 DEF DeliveryKnows, Reading, Committed
<1> QED BY <1>1, <1>3, <1>4, <1>5, AsideKeeps

LEMMA FailQuiet ==
  ASSUME QInv, NEW d \in Deliveries, NEW fault, Fail(d, fault), Advanced(d), ~AtRest(d),
         changes' = changes, Heads' = Heads
  PROVE  QInv' /\ UNCHANGED <<Waiting, Shipped>>
<1>1. d \in Procs /\ d \notin Runs
  BY RunIsProc, DeliveryAssumption
<1>2. pc'[d] = "fail"
  BY <1>1 DEF Fail, Go, QInv, IInv
<1>3. DeliveryKnows(d)'
  BY <1>2 DEF DeliveryKnows, Reading, Committed
<1> QED BY <1>1, <1>3, AloneOwn, AsideKeeps

\* A delivery that goes on, with what it held or more.
LEMMA GoOnQuiet ==
  ASSUME QInv, NEW d \in Deliveries, Advanced(d), changes' = changes, Heads' = Heads,
         pc[d] \in Reading, pc'[d] \in Reading, loc'[d].cs = loc[d].cs,
         pc'[d] \in Committed => loc'[d].commit.changes = loc[d].cs
  PROVE  QInv' /\ UNCHANGED <<Waiting, Shipped>>
<1>1. d \in Procs /\ d \notin Runs
  BY RunIsProc, DeliveryAssumption
<1>2. Shipped' = Shipped
  BY <1>1, KeptAside DEF Aside
<1>3. DeliveryKnows(d)'
  <2>1. DeliveryKnows(d)
    BY DEF QInv
  <2> HIDE DEF Shipped
  <2> QED BY <1>2, <2>1 DEF DeliveryKnows, IsChangeSet, WorkOf, Reading, Committed
<1>4. Alone'
  BY <1>1, AloneOwn DEF AtRest, Reading
<1> QED BY <1>1, <1>3, <1>4, AsideKeeps

LEMMA DeliveryStepQuiet ==
  ASSUME QInv, NEW d \in Deliveries,
         ReadChanges(d) \/ Clone(d) \/ Commit(d) \/ Push(d) \/ Record(d) \/ RecordFailure(d)
  PROVE  QInv' /\ UNCHANGED <<Waiting, Shipped>>
<1>1. Advanced(d) /\ d \in Procs /\ d \notin Runs
  BY ReadChangesKept, CloneKept, CommitKept, PushKept, RecordKept, RecordFailureKept,
     RunIsProc, DeliveryAssumption DEF QInv
<1>2. ~AtRest(d) /\ changes' = changes /\ Heads' = Heads
  BY DEF ReadChanges, Clone, Commit, Push, Record, RecordFailure, AtRest, files,
         github, Heads
<1>3. /\ DOMAIN pc = Procs /\ DOMAIN loc = Procs /\ IsLocal(loc[d])
      /\ DeliveryKnows(d) /\ IsChangeSet(changes)
  BY <1>1 DEF QInv, IInv, HoldsOK, FilesOK
<1>4. CASE \E fault \in Statuses : Fail(d, fault)
  BY <1>1, <1>2, <1>4, FailQuiet
<1>5. CASE ReadChanges(d) /\ ~\E fault \in Statuses : Fail(d, fault)
  <2>1. /\ changes # NoChanges
        /\ pc'[d] = "clone" /\ loc'[d] = [loc[d] EXCEPT !.cs = changes]
    BY <1>1, <1>3, <1>5 DEF ReadChanges, Go, Statuses
  <2>2. loc'[d].cs = changes
    BY <1>3, <2>1 DEF IsLocal
  <2>3. DeliveryKnows(d)'
    BY <1>2, <1>3, <2>1, <2>2 DEF DeliveryKnows, Reading, Committed, IsChangeSet
  <2> QED BY <1>1, <1>2, <2>3, AloneOwn, AsideKeeps
<1>6. CASE Clone(d) /\ ~\E fault \in Statuses : Fail(d, fault)
  <2>1. /\ pc[d] = "clone" /\ pc'[d] = "commit"
        /\ loc'[d] = [loc[d] EXCEPT !.tree = main]
    BY <1>1, <1>3, <1>6 DEF Clone, Go, Statuses
  <2>2. loc'[d].cs = loc[d].cs
    BY <1>3, <2>1 DEF IsLocal
  <2> QED BY <1>1, <1>2, <2>1, <2>2, GoOnQuiet DEF Reading, Committed
<1>7. CASE Commit(d) /\ ~\E fault \in Statuses : Fail(d, fault)
  <2> DEFINE commit == CommitOf(loc[d].cs, loc[d].tree)
  <2>0. ApplyFault(loc[d].cs, loc[d].tree) \in Statuses
    BY DEF ApplyFault, Statuses
  <2>1. /\ pc[d] = "commit" /\ Go(d, "push")
        /\ loc' = [loc EXCEPT ![d].commit = commit]
    BY <1>7, <2>0 DEF Commit, Statuses
  <2>2. /\ pc'[d] = "push" /\ loc'[d] = [loc[d] EXCEPT !.commit = commit]
    BY <1>1, <1>3, <2>1 DEF Go
  <2>3. commit.changes = loc[d].cs
    BY DEF CommitOf
  <2> HIDE DEF commit
  <2>4. loc'[d].cs = loc[d].cs /\ loc'[d].commit = commit
    BY <1>3, <2>2 DEF IsLocal
  <2> QED BY <1>1, <1>2, <2>1, <2>2, <2>3, <2>4, GoOnQuiet DEF Reading, Committed
<1>8. CASE Push(d) /\ ~\E fault \in Statuses : Fail(d, fault)
  <2>1. pc[d] = "push" /\ Go(d, "pull") /\ UNCHANGED loc
    BY <1>8 DEF Push, Statuses
  <2>2. pc'[d] = "pull" /\ loc'[d] = loc[d]
    BY <1>1, <1>3, <2>1 DEF Go
  <2> QED BY <1>1, <1>2, <1>3, <2>1, <2>2, GoOnQuiet DEF Reading, Committed, DeliveryKnows
<1>9. CASE Record(d)
  <2>1. pc[d] = "record" /\ pc'[d] = "clear" /\ loc'[d] = loc[d]
    BY <1>1, <1>3, <1>9 DEF Record, Go
  <2> QED BY <1>1, <1>2, <1>3, <2>1, GoOnQuiet DEF Reading, Committed, DeliveryKnows
<1>10. CASE RecordFailure(d)
  <2>1. pc'[d] = "done"
    BY <1>1, <1>3, <1>10 DEF RecordFailure, Leave, Go
  <2>2. DeliveryKnows(d)'
    BY <2>1 DEF DeliveryKnows, Reading, Committed
  <2> QED BY <1>1, <1>2, <2>2, AloneOwn, AsideKeeps
<1> QED BY <1>4, <1>5, <1>6, <1>7, <1>8, <1>9, <1>10

\* The pull request ships what waits, unless another delivery has shipped it.
LEMMA OpenPullQuiet ==
  ASSUME QInv, NEW d \in Deliveries, OpenPull(d)
  PROVE  QInv' /\ (Outbox!Ship \/ UNCHANGED <<Waiting, Shipped>>)
<1> DEFINE branch == loc[d].branch
           cs == loc[d].cs
<1>1. Advanced(d) /\ d \in Procs /\ d \notin Runs
  BY OpenPullKept, RunIsProc, DeliveryAssumption DEF QInv
<1>2. /\ pc[d] = "pull" /\ ~AtRest(d) /\ changes' = changes /\ remote' = remote
      /\ HoldsOK(loc[d], pc[d], remote, Heads) /\ DeliveryKnows(d)
      /\ DOMAIN pc = Procs /\ DOMAIN loc = Procs
  BY <1>1 DEF OpenPull, AtRest, files, QInv, IInv
<1>3. CASE Heads' = Heads
  <2>1. Fail(d, "missing_pull_requests_permission") \/ Fail(d, "upstream_error")
          \/ (Go(d, "record") /\ UNCHANGED loc)
    BY DEF OpenPull
  <2>2. CASE Go(d, "record") /\ UNCHANGED loc
    <3>1. pc'[d] = "record" /\ loc'[d] = loc[d]
      BY <1>1, <1>2, <2>2 DEF Go
    <3> QED BY <1>1, <1>2, <1>3, <3>1, GoOnQuiet DEF Reading, Committed, DeliveryKnows
  <2> QED BY <1>1, <1>2, <1>3, <2>1, <2>2, FailQuiet
<1>4. CASE Heads' = Heads \cup {branch}
  <2>1. remote[branch].changes = cs
    BY <1>2 DEF HoldsOK, DeliveryKnows, Committed
  <2>2. Shipped' = Shipped \cup WorkOf(cs)
    BY <1>2, <1>4, <2>1, PullShips
  <2>3. /\ IsChangeSet(cs) /\ cs # NoChanges
        /\ changes = cs \/ (changes = NoChanges /\ WorkOf(cs) \subseteq Shipped)
    BY <1>2 DEF DeliveryKnows, Reading
  <2>4. Waiting' = Waiting
    BY <1>2 DEF Waiting, WorkOf
  <2>5. Outbox!Ship \/ UNCHANGED <<Waiting, Shipped>>
    <3>1. CASE changes = cs
      <4>1. WorkOf(cs) \in (SUBSET Waiting) \ {{}}
        <5>1. WorkOf(cs) # {} /\ Waiting = WorkOf(cs)
          BY <2>3, <3>1, SomeWork DEF Waiting
        <5> HIDE DEF WorkOf
        <5> QED BY <5>1
      <4> HIDE DEF cs
      <4> QED BY <2>2, <2>4, <4>1 DEF Outbox!Ship, Waiting, Shipped, WorkOf
    <3>2. CASE WorkOf(cs) \subseteq Shipped
      <4> HIDE DEF Shipped, Waiting, WorkOf, cs
      <4> QED BY <2>2, <2>4, <3>2
    <3> QED BY <2>3, <3>1, <3>2
  <2>6. IInv' /\ Alone'
    BY <1>1, <1>2, AloneOwn, KeptKeeps DEF QInv
  <2>7. \A j \in Runs : RunKnows(j)'
    BY <1>1, <1>2, RunIsProc DEF QInv, Advanced, RunKnows
  <2>8. ASSUME NEW e \in Deliveries PROVE DeliveryKnows(e)'
    <3>1. DeliveryKnows(e)
      BY DEF QInv
    <3>2. Shipped \subseteq Shipped'
      <4> HIDE DEF Shipped, WorkOf, cs
      <4> QED BY <2>2
    <3>3. CASE e # d
      <4>1. pc'[e] = pc[e] /\ loc'[e] = loc[e]
        BY <1>1, <3>3, RunIsProc DEF Advanced
      <4> HIDE DEF Shipped
      <4> QED BY <1>2, <3>1, <3>2, <4>1 DEF DeliveryKnows, IsChangeSet, WorkOf, Reading, Committed
    <3>4. CASE e = d
      <4>1. pc'[d] = "fail" \/ (pc'[d] = "record" /\ loc'[d] = loc[d])
        BY <1>1, <1>2 DEF OpenPull, Fail, Go
      <4> HIDE DEF Shipped
      <4> QED BY <1>2, <3>1, <3>2, <3>4, <4>1
              DEF DeliveryKnows, IsChangeSet, WorkOf, Reading, Committed
    <3> QED BY <3>3, <3>4
  <2> QED BY <2>5, <2>6, <2>7, <2>8 DEF QInv
<1>5. Heads' = Heads \/ Heads' = Heads \cup {branch}
  <2>1. CASE pulls' = pulls
    BY <2>1 DEF Heads
  <2>2. CASE pulls' = pulls \cup {<<branch, loc[d].target>>}
    <3>1. Heads' = {pull[1] : pull \in pulls \cup {<<branch, loc[d].target>>}}
      BY <2>2 DEF Heads
    <3>2. <<branch, loc[d].target>>[1] = branch
      OBVIOUS
    <3> QED BY <3>1, <3>2 DEF Heads
  <2> QED BY <2>1, <2>2 DEF OpenPull
<1> QED BY <1>3, <1>4, <1>5

\* The change set is cleared when all that waits is shipped.
LEMMA ClearQuiet ==
  ASSUME QInv, NEW d \in Deliveries, Clear(d)
  PROVE  QInv' /\ (Outbox!Consume \/ UNCHANGED <<Waiting, Shipped>>)
<1> DEFINE cs == loc[d].cs
<1>1. Advanced(d) /\ d \in Procs /\ d \notin Runs
  BY ClearKept, RunIsProc, DeliveryAssumption DEF QInv
<1>2. /\ pc[d] = "clear" /\ ~AtRest(d)
      /\ changes' = NoChanges /\ remote' = remote /\ Heads' = Heads
      /\ HoldsOK(loc[d], pc[d], remote, Heads) /\ DeliveryKnows(d)
      /\ DOMAIN pc = Procs /\ DOMAIN loc = Procs
  BY <1>1 DEF Clear, AtRest, github, QInv, IInv, Heads
<1>3. /\ IsChangeSet(cs) /\ cs # NoChanges
      /\ changes = cs \/ (changes = NoChanges /\ WorkOf(cs) \subseteq Shipped)
  BY <1>2 DEF DeliveryKnows, Reading
<1>4. WorkOf(cs) \subseteq Shipped
  <2>1. loc[d].branch \in Heads /\ remote[loc[d].branch].changes = cs
    BY <1>2 DEF HoldsOK, DeliveryKnows, Committed
  <2> HIDE DEF WorkOf, cs
  <2> QED BY <2>1 DEF Shipped
<1>5. Shipped' = Shipped /\ Waiting' = {}
  BY <1>2, NoWork DEF Shipped, Waiting, WorkOf, NoChanges
<1>6. Outbox!Consume \/ UNCHANGED <<Waiting, Shipped>>
  <2>1. CASE changes = cs
    <3>1. Waiting # {} /\ Waiting \subseteq Shipped
      <4>1. WorkOf(cs) # {} /\ Waiting = WorkOf(cs)
        BY <1>3, <2>1, SomeWork DEF Waiting
      <4> HIDE DEF WorkOf, Shipped, Waiting, cs
      <4> QED BY <1>4, <4>1
    <3> QED BY <1>5, <3>1 DEF Outbox!Consume, Waiting, Shipped, WorkOf
  <2>2. CASE changes = NoChanges
    <3>1. Waiting = {}
      BY <2>2, NoWork DEF Waiting
    <3> HIDE DEF Shipped, Waiting
    <3> QED BY <1>5, <3>1
  <2> QED BY <1>3, <2>1, <2>2
<1>7. IInv' /\ Alone'
  BY <1>1, <1>2, AloneOwn, KeptKeeps DEF QInv
<1>8. \A j \in Runs : AtRest(j)
  BY <1>1, <1>2 DEF QInv, Alone
<1>9. \A j \in Runs : RunKnows(j)'
  BY <1>1, <1>8, RunIsProc DEF AtRest, Advanced, RunKnows
<1>10. ASSUME NEW e \in Deliveries PROVE DeliveryKnows(e)'
  <2>1. CASE e = d
    <3>1. pc'[d] = "done"
      BY <1>1, <1>2 DEF Clear, Leave, Go
    <3> QED BY <2>1, <3>1 DEF DeliveryKnows, Reading, Committed
  <2>2. CASE e # d
    <3>1. pc'[e] = pc[e] /\ loc'[e] = loc[e]
      BY <1>1, <2>2, RunIsProc DEF Advanced
    <3>2. DeliveryKnows(e)
      BY DEF QInv
    <3>3. ASSUME pc[e] \in Reading
          PROVE  WorkOf(loc[e].cs) \subseteq Shipped'
      <4>1. changes = loc[e].cs \/ WorkOf(loc[e].cs) \subseteq Shipped
        BY <3>2, <3>3 DEF DeliveryKnows
      <4>2. loc[e].cs # NoChanges
        BY <3>2, <3>3 DEF DeliveryKnows
      <4>3. changes = loc[e].cs => changes = cs
        BY <1>3, <4>2
      <4> HIDE DEF WorkOf, Shipped, cs
      <4> QED BY <1>4, <1>5, <4>1, <4>3
    <3> HIDE DEF Shipped
    <3> QED BY <1>2, <3>1, <3>2, <3>3 DEF DeliveryKnows, IsChangeSet, WorkOf, Reading, Committed
  <2> QED BY <2>1, <2>2
<1> QED BY <1>6, <1>7, <1>9, <1>10 DEF QInv

-----------------------------------------------------------------------------

LEMMA MergePullQuiet ==
  ASSUME QInv, NEW branch \in Branches, MergePull(branch)
  PROVE  QInv' /\ UNCHANGED <<Waiting, Shipped>>
<1>1. UNCHANGED <<changes, remote, pulls, pc, loc>>
  BY DEF MergePull, files
<1>2. IInv'
  BY MergePullKeeps DEF QInv
<1>3. UNCHANGED <<Waiting, Shipped>>
  BY <1>1 DEF Waiting, Shipped, WorkOf, Heads
<1> QED BY <1>1, <1>2, <1>3 DEF QInv, Alone, AtRest, RunKnows, DeliveryKnows, IsChangeSet,
                                WorkOf, Reading, Committed, Shipped

LEMMA SetupQuiet ==
  ASSUME QInv, Link \/ Configure
  PROVE  QInv' /\ UNCHANGED <<Waiting, Shipped>>
<1>1. UNCHANGED <<changes, remote, pulls, pc, loc>>
  BY DEF Link, Configure, files, github
<1>2. IInv'
  BY SetupKeeps DEF QInv
<1>3. UNCHANGED <<Waiting, Shipped>>
  BY <1>1 DEF Waiting, Shipped, WorkOf, Heads
<1> QED BY <1>1, <1>2, <1>3 DEF QInv, Alone, AtRest, RunKnows, DeliveryKnows, IsChangeSet,
                                WorkOf, Reading, Committed, Shipped

LEMMA CrashQuiet ==
  ASSUME QInv, Crash
  PROVE  QInv' /\ UNCHANGED <<Waiting, Shipped>>
<1>1. UNCHANGED <<changes, remote, pulls>>
  BY DEF Crash, files, github
<1>2. IInv'
  BY CrashKeeps DEF QInv
<1>3. UNCHANGED <<Waiting, Shipped>>
  BY <1>1 DEF Waiting, Shipped, WorkOf, Heads
<1>4. \A p \in Procs : pc'[p] \in {"idle", "done", "fallback", "dead"}
  BY DEF Crash, AtRest
<1> QED BY <1>2, <1>3, <1>4, RunIsProc
        DEF QInv, Alone, AtRest, RunKnows, DeliveryKnows, Reading, Committed

LEMMA InitQuiet == Init => QInv /\ Outbox!Init
<1> SUFFICES ASSUME Init PROVE QInv /\ Outbox!Init
  OBVIOUS
<1>1. \A p \in Procs : pc[p] = "idle"
  BY DEF Init
<1>2. QInv
  BY <1>1, InitInv, RunIsProc
     DEF QInv, Alone, AtRest, RunKnows, DeliveryKnows, Reading, Committed
<1>3. Outbox!Init
  BY DEF Init, Outbox!Init, NoChanges, Heads
<1> QED BY <1>2, <1>3

LEMMA StepQuiet ==
  ASSUME QInv, Quiet, [Next]_vars
  PROVE  QInv' /\ (Outbox!Next \/ UNCHANGED <<Waiting, Shipped>>)
<1>1. ASSUME NEW j \in Runs, RunStart(j) \/ RunStep(j)
      PROVE  QInv' /\ (Outbox!Next \/ UNCHANGED <<Waiting, Shipped>>)
  <2> HIDE DEF Waiting, Shipped
  <2> QED BY <1>1, RunStartQuiet, RunStepQuiet, MergeWriteQuiet DEF RunStep, Outbox!Next
<1>2. ASSUME NEW d \in Deliveries, Begin(d) \/ DeliveryStep(d)
      PROVE  QInv' /\ (Outbox!Next \/ UNCHANGED <<Waiting, Shipped>>)
  <2> HIDE DEF Waiting, Shipped
  <2> QED BY <1>2, BeginQuiet, DeliveryStepQuiet, OpenPullQuiet, ClearQuiet
          DEF DeliveryStep, Outbox!Next
<1>3. CASE UNCHANGED vars
  <2>1. UNCHANGED <<changes, remote, pulls, pc, loc>> /\ IInv'
    BY <1>3, StepInv DEF vars, QInv
  <2>2. UNCHANGED <<Waiting, Shipped>>
    BY <2>1 DEF Waiting, Shipped, WorkOf, Heads
  <2>3. QInv'
    BY <2>1, <2>2 DEF QInv, Alone, AtRest, RunKnows, DeliveryKnows, IsChangeSet,
                      WorkOf, Reading, Committed, Shipped
  <2> QED BY <2>2, <2>3
<1>4. ASSUME NEW branch \in Branches, MergePull(branch)
      PROVE  QInv' /\ UNCHANGED <<Waiting, Shipped>>
  BY <1>4, MergePullQuiet
<1>5. ASSUME Crash PROVE QInv' /\ UNCHANGED <<Waiting, Shipped>>
  BY <1>5, CrashQuiet
<1>6. ASSUME Link \/ Configure PROVE QInv' /\ UNCHANGED <<Waiting, Shipped>>
  BY <1>6, SetupQuiet
<1> HIDE DEF Waiting, Shipped
<1> QED BY <1>1, <1>2, <1>3, <1>4, <1>5, <1>6 DEF Next, Finished

\* Provided runs are at work alone, recorded work leaves the change set only in
\* a pull request or for later work on its path, and pull requests hold only
\* recorded work (PutChangeSetMerged, handleTaskDeliver, ClearChangeSet).
THEOREM DeliveryIsAnOutbox ==
  ASSUME Quiet
  PROVE  Spec => ImplementsOutbox
<1>1. QInv /\ [Next]_vars => QInv' /\ [Outbox!Next]_<<Waiting, Shipped>>
  BY StepQuiet
<1> QED BY <1>1, InitQuiet, PTL DEF Spec, ImplementsOutbox, Outbox!Spec, Waiting, Shipped, WorkOf

=============================================================================
