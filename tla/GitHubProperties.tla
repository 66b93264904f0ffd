-------------------------- MODULE GitHubProperties -------------------------
(* What the synchronisation with GitHub must guarantee. *)
EXTENDS GitHubSync

Labels == {"idle", "done", "dead", "issue.call", "issue.record", "issue.move", "issue.fail",
           "edit.write", "card.call", "card.record", "card.fail", "card.partial", "card.keep",
           "status.call", "status.record", "doc.read", "doc.write", "boot.read", "boot.write",
           "assign.call", "milestone.task", "publish.next"}

\* The type invariant: what the documents may hold, also in the copies of requests;
\* every request is at one of its labels.
TypeOK ==
  /\ IsTask(task) /\ IsRoadmap(roadmap) /\ binding \in BOOLEAN
  /\ DOMAIN issues \subseteq 1..MaxIssues /\ \A n \in DOMAIN issues : IsIssue(issues[n])
  /\ DOMAIN cards \subseteq 1..MaxCards
  /\ pc \in [Requests -> Labels]
  /\ \A r \in Requests : IsTask(loc[r].task) /\ IsRoadmap(loc[r].doc)

\* A link to an issue that any handler but PATCH writes names an issue the peer
\* has, whatever overlapped, got lost or was patched meanwhile (handleIssueLink:
\* attaching verifies the issue first).
LinksAreVerified ==
  [][task'.issue \notin {task.issue, None} =>
       \/ task'.issue \in DOMAIN issues'
       \/ \E r \in Requests : At(r, "edit.write") /\ pc'[r] # "edit.write"]_vars

\* A push or a pull that ends well leaves the task with an issue state that its
\* column stands for, closed for done and open for the others, if nothing else
\* ran meanwhile and the move was not refused (github_issue_map.go,
\* handleIssuePush, handleIssuePull).
PushAndPullAgree ==
  [][\A r \in Requests :
       /\ loc[r].op \in {"push", "pull"} /\ pc[r] \in {"issue.record", "issue.move"}
       /\ pc'[r] = "done" /\ ~history'.disturbed
       => \/ task'.state = StateOf(task'.status)
          \/ At(r, "issue.move") /\ task' = task]_vars

\* An edit or a sync that ends leaves its card with the task's title, or an error
\* on the task, if nothing else ran meanwhile: a 200 is not taken for a rename
\* (syncTaskProjectItem).
RenameLandsOrFails ==
  [][\A r \in Requests :
       /\ loc[r].op \in {"edit", "sync"} /\ pc[r] \in {"card.record", "card.partial", "card.keep"}
       /\ pc'[r] = "done" /\ ~history'.disturbed
       => task'.cardError \/ cards'[loc[r].card].title = task'.title]_vars

\* Failed renames, refused calls and repeated syncs never give the task a second
\* card: apart from those it was unbound from, those a PATCH replaced and those it
\* could not be saved with, the board holds the one it names, as long as requests
\* do not overlap and no answer gets lost.
OneCard ==
  ~history.disturbed /\ (\A r \in Requests : ~Busy(r)) =>
    {c \in DOMAIN cards : cards[c].of = "task"} \subseteq {task.card} \cup history.left

\* What the roadmap calls published has an issue, whatever overlapped, failed or
\* was overwritten, but for what a client's document claims to be published
\* (builtinRoadmapPublish).
PublishedHasAnIssue ==
  \A f \in roadmap.published \ history.claimed : \E n \in DOMAIN issues : issues[n].of = f

\* Publishing again after failures opens a second issue for none but the features
\* whose issue is on no record: its answer got lost, PutRoadmap failed or a client's
\* document dropped it.  Overlapping requests are left out.
RetryDoesNotDuplicate ==
  ~history.disturbed =>
    \A n, k \in DOMAIN issues :
      issues[n].of = issues[k].of /\ issues[n].of \notin {None} \cup history.unrecorded => n = k

\* A phase with a milestone keeps it, through every job and request that overlaps
\* with no other, until a client's document, an assignment or an unassignment of
\* that phase takes it (mergeRoadmapPhases).
BoundPhasesKept ==
  [][~history'.disturbed =>
       \A p \in Bound(roadmap.phases) \ Bound(roadmap'.phases) : \E r \in Requests :
         /\ At(r, "doc.write")
         /\ loc[r].op = "client" \/ (loc[r].op \in {"assign", "unassign"} /\ loc[r].phase = p)]_vars

-----------------------------------------------------------------------------
(* What the documents say and the code does not do. *)

\* github_project_sync.go:17: a rename that did not reach the board must never
\* look like success.  At rest, with no overlap, a card that shows another title
\* than the task's comes with an error on the task.
RenameNeverLooksLikeSuccess ==
  ~history.disturbed /\ (\A r \in Requests : ~Busy(r)) /\ task.card # None =>
    cards[task.card].title = task.title \/ task.cardError

=============================================================================
