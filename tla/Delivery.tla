------------------------------ MODULE Delivery -----------------------------
(***************************************************************************)
(* From a runner's files to a pull request, for one task: implementation   *)
(* runs that apply their files to the session workspace, if it is a clone, *)
(* and merge them into the recorded change set, and POST deliver, which    *)
(* commits a change set on a branch of a clone of its own, pushes it,      *)
(* opens the pull request, records it on the task and clears the change    *)
(* set.  A project may be linked to its repository, and the server be told *)
(* of its peer, after runs have recorded changes.                          *)
(* A step is one store call, one call to git or to the peer (ORA).         *)
(***************************************************************************)
EXTENDS ChangeSet, RunnerWalk

CONSTANTS
  Deliveries,   \* deliver requests a run of the system may serve
  Branches,     \* branch names they may ask for; a request without one
                \* asks for the task's own
  Base,         \* the default branch, and the base of a request that names none
  Targets,      \* the bases a request may name
  Outputs,      \* files arrays a model may return; an entry's diff names a file
  Initial,      \* the repository when the task begins
  FirstSetups,  \* what may be linked and configured when the task begins
  Faults,       \* calls may fail, or take effect and lose their answer
  Quiet         \* a run starts, and a delivery begins, only while no run is
                \* at work; a run also waits for the deliveries

ASSUME DeliveryAssumption ==
  /\ Runs \cap Deliveries = {}
  /\ Base \in Branches \cap Targets
  /\ Outputs \subseteq Seq([path : Paths \cup {Blank}, names : Paths,
                            mode : Modes \cup {"empty"}])
  /\ Initial \in Trees
  /\ FirstSetups \subseteq {"ready", "unlinked", "no_peer"}
  /\ {Faults, Quiet} \subseteq BOOLEAN

VARIABLES
  setup,     \* is the project linked, and PEER_ORA_URL configured
  cloned,    \* is the task's session workspace a clone, or a placeholder
  session,   \* the session workspace
  changes,   \* changes.json
  delivery,  \* the delivery fields of task.json
  main,      \* the base branch on the remote
  remote,    \* the other branches on the remote: the commit each holds
  pulls,     \* pull requests: a branch and its base
  pc, loc    \* where each run and each request is, and its locals

local == <<setup, cloned, session>>
files == <<changes, delivery>>
github == <<main, remote, pulls>>
vars == <<setup, cloned, session, changes, delivery, main, remote, pulls, pc, loc>>

Procs == Runs \cup Deliveries
Setups == {"ready", "unlinked", "no_peer"}

\* A commit: the change set it is made of, the files it has and the tree it is on.
IsCommit(commit) ==
  /\ DOMAIN commit = {"changes", "files", "onto"}
  /\ IsChangeSet(commit.changes)
  /\ DOMAIN commit.files \subseteq Paths
  /\ commit.files \in [DOMAIN commit.files -> Contents]
  /\ commit.onto \in Trees
NoCommit == [changes |-> NoChanges, files |-> NoChanges, onto |-> Initial]

Fresh == [cs |-> NoChanges, base |-> NoChanges, tree |-> Initial,
          tried |-> << >>, branch |-> Base, target |-> Base, commit |-> NoCommit,
          fault |-> "none"]

Go(p, label) == pc' = [pc EXCEPT ![p] = label]
Leave(p) == Go(p, "done") /\ loc' = [loc EXCEPT ![p] = Fresh]

AtRest(p) == pc[p] \in {"idle", "done", "fallback", "dead"}

\* The branches with a pull request.
Heads == {pull[1] : pull \in pulls}

-----------------------------------------------------------------------------
(* An implementation run. *)

\* ensureTaskWorkspace clones once, as soon as there is something to clone.
RunStart(j) ==
  /\ pc[j] = "idle"
  /\ Quiet => \A p \in Procs : AtRest(p)
  /\ \/ /\ IF cloned \/ setup # "ready" THEN UNCHANGED <<cloned, session>>
           ELSE cloned' = TRUE /\ session' = main
        /\ Go(j, "walk") /\ loc' = [loc EXCEPT ![j].tree = session']
     \/ Faults /\ ~cloned /\ setup = "ready" /\ Leave(j) /\ UNCHANGED <<cloned, session>>
  /\ UNCHANGED <<setup, files, github>>

RunnerCall(j) ==
  /\ pc[j] = "walk"
  /\ ~WalkOver(loc[j].tried)
  /\ \E outcome \in Attempts(Loaded[Len(loc[j].tried) + 1]) :
       loc' = [loc EXCEPT ![j].tried = Append(@, outcome)]
  /\ UNCHANGED <<local, files, github, pc>>

\* No answer, or one that is no JSON object, is the builtin helper's turn,
\* which records nothing.
RunnerFallback(j) ==
  /\ pc[j] = "walk"
  /\ WalkOver(loc[j].tried)
  /\ Go(j, "fallback")
  /\ UNCHANGED <<local, files, github, loc>>

RunnerResult(j) ==
  /\ pc[j] = "walk"
  /\ WalkOver(loc[j].tried) /\ Answered(loc[j].tried)
  /\ \E output \in Outputs :
       LET delta == FromRunner(j, output, loc[j].tree) IN
       IF delta = NoChanges THEN Leave(j)
       ELSE Go(j, "apply") /\ loc' = [loc EXCEPT ![j] = [Fresh EXCEPT !.cs = delta]]
  /\ UNCHANGED <<local, files, github>>

\* Into the session workspace, unless it is no clone.  A change set refused as
\* a whole, or a file that cannot be applied after others were, is not recorded.
ApplyToSession(j) ==
  /\ pc[j] = "apply"
  /\ LET delta == loc[j].cs
         Part(done) == [p \in done |-> delta[p]]
     IN
     \/ ~cloned /\ Go(j, "merge.read") /\ UNCHANGED <<session, loc>>
     \/ cloned /\ Refused(delta, session) /\ Leave(j) /\ UNCHANGED session
     \/ /\ cloned /\ ~Refused(delta, session) /\ MayApply(delta, session)
        /\ session' = ApplyTo(delta, session)
        /\ Go(j, "merge.read") /\ UNCHANGED loc
     \/ /\ cloned /\ ~Refused(delta, session)
        /\ \E failing \in DOMAIN delta :
             /\ Faults \/ ~Fits(delta, session, failing)
             /\ \E done \in SUBSET (DOMAIN delta \ {failing}) :
                  /\ MayApply(Part(done), session)
                  /\ session' = ApplyTo(Part(done), session)
        /\ Leave(j)
  /\ UNCHANGED <<setup, cloned, files, github>>

\* PutChangeSetMerged: a read and a write, each in a section of its own.
MergeRead(j) ==
  /\ pc[j] = "merge.read"
  /\ Go(j, "merge.write")
  /\ loc' = [loc EXCEPT ![j].base = changes]
  /\ UNCHANGED <<local, files, github>>

MergeWrite(j) ==
  /\ pc[j] = "merge.write"
  /\ changes' = Merge(loc[j].base, loc[j].cs)
  /\ Leave(j)
  /\ UNCHANGED <<local, delivery, github>>

-----------------------------------------------------------------------------
(* POST deliver. *)

\* recordDeliveryFailure follows: it keeps the branch and the pull request of
\* an earlier delivery.
Fail(d, fault) == Go(d, "fail") /\ loc' = [loc EXCEPT ![d].fault = fault]

Begin(d) ==
  /\ pc[d] = "idle"
  /\ Quiet => \A j \in Runs : AtRest(j)
  /\ CASE setup = "unlinked" -> Fail(d, "not_linked_repo")
       [] setup = "no_peer"  -> Fail(d, "peer_not_configured")
       [] OTHER -> \E branch \in Branches, target \in Targets :
                     /\ Go(d, "read")
                     /\ loc' = [loc EXCEPT ![d].branch = branch, ![d].target = target]
  /\ UNCHANGED <<local, files, github>>

ReadChanges(d) ==
  /\ pc[d] = "read"
  /\ IF changes = NoChanges THEN Fail(d, "no_changes_produced")
     ELSE Go(d, "clone") /\ loc' = [loc EXCEPT ![d].cs = changes]
  /\ UNCHANGED <<local, files, github>>

Clone(d) ==
  /\ pc[d] = "clone"
  /\ \/ Go(d, "commit") /\ loc' = [loc EXCEPT ![d].tree = main]
     \/ Faults /\ Fail(d, "workspace_unavailable")
  /\ UNCHANGED <<local, files, github>>

\* applyChangeSet and gitCommitOnBranch in the clone: the commit has the paths
\* that were applied, and is made only if one of them differs.
CommitOf(cs, tree) ==
  [changes |-> cs, onto |-> tree,
   files |-> [p \in Applied(cs, tree) |-> ApplyTo(cs, tree)[p]]]

\* git refuses to create the branch a clone has, and to add what is neither in
\* the tree nor in the index: the path of a diff that names another file.

\* Mutant: the branch is reset when the clone has it (checkout -B).
GitRefusesMutant(branch, commit) ==
  \E p \in DOMAIN commit.files : commit.files[p] = Gone /\ commit.onto[p] = Gone

GitRefuses(branch, commit) ==
  \/ branch = Base
  \/ \E p \in DOMAIN commit.files : commit.files[p] = Gone /\ commit.onto[p] = Gone

Identical(commit) ==
  \A p \in DOMAIN commit.files : commit.files[p] = commit.onto[p]

\* Mutant: the session's check of the paths is taken for enough.
ApplyFaultMutant(cs, tree) ==
  CASE TooMany(cs) \/ TooHeavy(cs) -> "change_set_too_large"
    [] Applied(cs, tree) = {}      -> "no_changes_produced"
    [] OTHER                       -> "none"

ApplyFault(cs, tree) ==
  IF TooMany(cs) THEN "change_set_too_large"
  ELSE IF UnsafePath(cs) THEN "unsafe_path"
  ELSE IF TooHeavy(cs) THEN "change_set_too_large"
  ELSE IF Applied(cs, tree) = {} THEN "no_changes_produced"
  ELSE "none"

Commit(d) ==
  /\ pc[d] = "commit"
  /\ LET cs == loc[d].cs
         tree == loc[d].tree
         commit == CommitOf(cs, tree)
         branch == loc[d].branch
     IN
     \/ ApplyFault(cs, tree) # "none" /\ Fail(d, ApplyFault(cs, tree))
     \/ /\ ApplyFault(cs, tree) = "none"
        /\ Faults \/ ~MayApply(cs, tree)
        /\ Fail(d, "apply_failed")
     \/ /\ ApplyFault(cs, tree) = "none" /\ MayApply(cs, tree)
        /\ \/ branch = loc[d].target /\ Fail(d, "invalid_request")
           \/ /\ branch # loc[d].target
              /\ Faults \/ GitRefuses(branch, commit)
              /\ Fail(d, "git_failed")
           \/ /\ branch # loc[d].target /\ ~GitRefuses(branch, commit)
              /\ IF Identical(commit) THEN Fail(d, "no_changes_produced")
                 ELSE Go(d, "push") /\ loc' = [loc EXCEPT ![d].commit = commit]
  /\ UNCHANGED <<local, files, github>>

\* A push never forces: a branch that exists takes no other commit.  Two
\* deliveries that commit the same in the same second make the same commit.
Push(d) ==
  /\ pc[d] = "push"
  /\ LET branch == loc[d].branch
         free == remote[branch] = NoCommit
         same == remote[branch] = loc[d].commit
     IN
     \/ ~free /\ Fail(d, "push_rejected") /\ UNCHANGED remote
     \/ Faults /\ Fail(d, "push_failed") /\ UNCHANGED remote
     \/ /\ free \/ same
        /\ remote' = [remote EXCEPT ![branch] = loc[d].commit]
        /\ (Go(d, "pull") /\ UNCHANGED loc) \/ (Faults /\ Fail(d, "push_failed"))
  /\ UNCHANGED <<local, files, main, pulls>>

\* peerCreatePullRequest: the open pull request of the branch, or a new one.
OpenPull(d) ==
  /\ pc[d] = "pull"
  /\ \/ /\ pulls' = pulls \cup {<<loc[d].branch, loc[d].target>>}
        /\ (Go(d, "record") /\ UNCHANGED loc) \/ (Faults /\ Fail(d, "upstream_error"))
     \/ Faults /\ Fail(d, "missing_pull_requests_permission") /\ UNCHANGED pulls
  /\ UNCHANGED <<local, files, main, remote>>

Delivered(d) ==
  [status |-> "delivered", branch |-> loc[d].branch, files |-> loc[d].commit.files]

\* One MutateTask.
Record(d) ==
  /\ pc[d] = "record"
  /\ delivery' = Delivered(d)
  /\ Go(d, "clear")
  /\ UNCHANGED <<local, changes, github, loc>>

\* Mutant: a failed delivery records how far it got.
RecordFailureMutant(d) ==
  /\ pc[d] = "fail"
  /\ delivery' = [Delivered(d) EXCEPT !.status = loc[d].fault]
  /\ Leave(d)
  /\ UNCHANGED <<local, changes, github>>

RecordFailure(d) ==
  /\ pc[d] = "fail"
  /\ delivery' = [delivery EXCEPT !.status = loc[d].fault]
  /\ Leave(d)
  /\ UNCHANGED <<local, changes, github>>

\* ClearChangeSet removes the file, whatever it holds by now.
Clear(d) ==
  /\ pc[d] = "clear"
  /\ changes' = NoChanges
  /\ Leave(d)
  /\ UNCHANGED <<local, delivery, github>>

-----------------------------------------------------------------------------
(* The environment. *)

\* A reviewer merges a pull request that has no conflict with the default branch.
MergePull(branch) ==
  /\ <<branch, Base>> \in pulls
  /\ LET commit == remote[branch] IN
     /\ \A p \in DOMAIN commit.files : main[p] = commit.onto[p]
     /\ main' = [p \in Paths |-> IF p \in DOMAIN commit.files
                                 THEN commit.files[p] ELSE main[p]]
  /\ UNCHANGED <<local, files, remote, pulls, pc, loc>>

\* EnsureProject gives a project that has none its repository and connector.
Link ==
  /\ setup = "unlinked"
  /\ setup' \in {"ready", "no_peer"}
  /\ UNCHANGED <<cloned, session, files, github, pc, loc>>

\* The server is started again, with PEER_ORA_URL.
Configure ==
  /\ setup = "no_peer" /\ \A p \in Procs : AtRest(p)
  /\ setup' = "ready"
  /\ UNCHANGED <<cloned, session, files, github, pc, loc>>

\* The server dies in the middle of something; the files and the remote stay.
Crash ==
  /\ Faults
  /\ \E p \in Procs : ~AtRest(p)
  /\ pc' = [p \in Procs |-> IF AtRest(p) THEN pc[p] ELSE "dead"]
  /\ loc' = [p \in Procs |-> IF AtRest(p) THEN loc[p] ELSE Fresh]
  /\ UNCHANGED <<local, files, github>>

Init ==
  /\ setup \in FirstSetups
  /\ cloned = FALSE /\ session = [p \in Paths |-> Gone]
  /\ changes = NoChanges
  /\ delivery = [status |-> "none", branch |-> Base, files |-> NoChanges]
  /\ main = Initial
  /\ remote = [b \in Branches |-> NoCommit]
  /\ pulls = {}
  /\ pc = [p \in Procs |-> "idle"]
  /\ loc = [p \in Procs |-> Fresh]

RunStep(j) ==
  RunnerCall(j) \/ RunnerFallback(j) \/ RunnerResult(j) \/ ApplyToSession(j)
    \/ MergeRead(j) \/ MergeWrite(j)

DeliveryStep(d) ==
  ReadChanges(d) \/ Clone(d) \/ Commit(d) \/ Push(d) \/ OpenPull(d)
    \/ Record(d) \/ RecordFailure(d) \/ Clear(d)

Finished == (\A p \in Procs : AtRest(p)) /\ UNCHANGED vars

Next ==
  \/ \E j \in Runs : RunStart(j) \/ RunStep(j)
  \/ \E d \in Deliveries : Begin(d) \/ DeliveryStep(d)
  \/ \E branch \in Branches : MergePull(branch)
  \/ Link \/ Configure
  \/ Crash
  \/ Finished

Spec == Init /\ [][Next]_vars

=============================================================================
