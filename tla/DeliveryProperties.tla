------------------------- MODULE DeliveryProperties ------------------------
(* What recording and delivering change sets must guarantee. *)
EXTENDS Delivery

Statuses == {"none", "delivered", "not_linked_repo", "peer_not_configured",
             "no_changes_produced", "workspace_unavailable", "unsafe_path",
             "change_set_too_large", "apply_failed", "invalid_request",
             "git_failed", "push_rejected", "push_failed", "upstream_error",
             "missing_pull_requests_permission"}

RunLabels == {"idle", "walk", "fallback", "apply", "merge.read", "merge.write",
              "done", "dead"}
DeliveryLabels == {"idle", "read", "clone", "commit", "push", "pull", "record",
                   "clear", "fail", "done", "dead"}

IsLocal(l) ==
  /\ DOMAIN l = {"cs", "base", "tree", "tried", "branch", "target", "commit", "fault"}
  /\ IsChangeSet(l.cs) /\ IsChangeSet(l.base)
  /\ l.tree \in Trees
  /\ l.tried \in Seq(Outcomes)
  /\ l.branch \in Branches /\ l.target \in Targets
  /\ IsCommit(l.commit)
  /\ l.fault \in Statuses

\* The type invariant: recorded change sets name known paths, trees are whole,
\* every process is at one of its labels.
TypeOK ==
  /\ setup \in Setups /\ cloned \in BOOLEAN
  /\ session \in Trees /\ main \in Trees
  /\ IsChangeSet(changes)
  /\ delivery.status \in Statuses /\ delivery.branch \in Branches
  /\ DOMAIN remote = Branches /\ \A b \in Branches : IsCommit(remote[b])
  /\ pulls \subseteq Branches \X Targets
  /\ pc \in [Procs -> RunLabels \cup DeliveryLabels]
  /\ DOMAIN loc = Procs /\ \A p \in Procs : IsLocal(loc[p])

\* A task says it is delivered, and names a branch and files, only when a pull
\* request of that branch holds exactly these files, however deliveries of it
\* overlap, fail or die (handleTaskDeliver, recordDeliveryFailure).
TaskPointsAtItsPull ==
  /\ delivery.status = "delivered" => delivery.branch # Base
  /\ delivery.branch # Base =>
       delivery.branch \in Heads /\ remote[delivery.branch].files = delivery.files

\* Commits are pushed only under paths that pathRejection lets through: also
\* when the path was recorded by a run without a clone to check it against,
\* before the project was linked, and when a diff changes another file of the
\* clone than the path it is filed under (applyChangeSet, gitCommitOnBranch).
UnsafeNeverShipped ==
  \A b \in Branches : DOMAIN remote[b].files \cap Unsafe = {}

\* No delivery commits to the default branch, also when the request names
\* another base, so that the handler's own comparison of the two says nothing
\* (runDelivery, gitCommitOnBranch).
BaseIsNeverPushed == remote[Base] = NoCommit /\ Base \notin Heads

\* Recorded work leaves the change set only in a pull request or for later work
\* on its path, and pull requests hold only recorded work: the outbox.
Outbox == INSTANCE ChangeOutbox WITH
  waiting <- {<<changes[p].run, p>> : p \in DOMAIN changes},
  shipped <- UNION {{<<remote[b].changes[p].run, p>> : p \in DOMAIN remote[b].changes}
                    : b \in Heads}

ImplementsOutbox == Outbox!Spec

-----------------------------------------------------------------------------
(* What the documents say and the code does not do. *)

\* docs/api.md: the files a run returns are applied to the shared workspace and
\* merged into the task's change set, so what will be delivered is what the
\* session shows: the change set, applied to the base, gives the session's tree.
ReplayMatchesSession ==
  (cloned /\ \A p \in Procs : AtRest(p)) /\ pulls = {} =>
    ApplyTo(changes, main) = session

=============================================================================
