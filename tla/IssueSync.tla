----------------------------- MODULE IssueSync -----------------------------
(* Tasks and GitHub issues: link, unlink, push and pull. *)
EXTENDS PeerBoard

\* boardColumnIssueState.
StateOf(column) == IF column = Done THEN Closed ELSE Open

\* Mutant: an open issue tells nothing about a task that is done.
ColumnsForMutant(state, column) ==
  IF state = Closed /\ column # Done THEN {Done} ELSE {}

\* columnForIssueState: the column a pull moves the task to, if any.
ColumnsFor(state, column) ==
  CASE state = Closed /\ column # Done -> {Done}
    [] state = Open /\ column = Done -> {Reopened}
    [] OTHER -> {}

\* applyIssueMirror: GitHub owns the state and the milestone; the error goes.  The
\* same number, or none on both sides, leaves the bind alone.
Mirror(t, n, meta) ==
  With(t, [issue |-> n, state |-> meta.state, issueTitle |-> meta.title, issueError |-> FALSE,
           milestone |-> IF meta.milestone = Number(t.milestone) THEN t.milestone
                                                                 ELSE meta.milestone])

\* handleIssueLink attaches an issue, which may not exist, or opens one, under
\* the task's title or another.
LinkIssue(r) ==
  /\ Begin(r, "link")
  /\ \/ \E n \in 1..MaxIssues :
          Keep(r, [op |-> "attach", task |-> task, number |-> n])
     \/ \E title \in Titles :
          Keep(r, [op |-> "create", task |-> [task EXCEPT !.title = title]])
  /\ Go(r, "issue.call")
  /\ UNCHANGED task /\ TaskOnly

UnlinkIssue(r) ==
  /\ Begin(r, "unlink")
  /\ task' = With(task, NoIssue)
  /\ TaskOnly
  /\ Leave(r)

\* Push and pull are refused for a task without an issue.
PushIssue(r) ==
  /\ Begin(r, "push") /\ task.issue # None
  /\ Keep(r, [op |-> "push", task |-> task, number |-> task.issue])
  /\ Go(r, "issue.call")
  /\ UNCHANGED task /\ TaskOnly

PullIssue(r) ==
  /\ Begin(r, "pull") /\ task.issue # None
  /\ \E adopt \in BOOLEAN :
       Keep(r, [op |-> "pull", task |-> task, number |-> task.issue, adopt |-> adopt])
  /\ Go(r, "issue.call")
  /\ UNCHANGED task /\ TaskOnly

\* What the call does at the peer: pushed fields overwrite, no milestone leaves
\* the issue's alone.
Pushed(t, issue) ==
  Issue(t.title, StateOf(t.status),
        IF Number(t.milestone) > 0 THEN t.milestone ELSE issue.milestone, issue.of)

CallEffect(r, n) ==
  LET l == loc[r] IN
  CASE l.op = "create" -> /\ n = Cardinality(DOMAIN issues) + 1 /\ n <= MaxIssues
                          /\ issues' = Extend(issues, n, Issue(l.task.title, Open, Number(l.task.milestone), None))
    [] l.op = "push" -> /\ n = l.number /\ n \in DOMAIN issues
                        /\ issues' = [issues EXCEPT ![n] = Pushed(l.task, @)]
    [] OTHER -> n = l.number /\ n \in DOMAIN issues /\ UNCHANGED issues

\* The peer answers, refuses, or does its part and the answer gets lost.
CallIssue(r) ==
  /\ At(r, "issue.call")
  /\ \/ \E n \in 1..MaxIssues :
          /\ CallEffect(r, n)
          /\ \/ Go(r, "issue.record") /\ Keep(r, [number |-> n, meta |-> issues'[n]])
             \/ Go(r, "issue.fail") /\ UNCHANGED loc
     \/ Go(r, "issue.fail") /\ UNCHANGED <<issues, loc>>
  /\ UNCHANGED <<cards, history>> /\ PeerOnly

\* MutateTask with the mirror; a pull that adopts takes the title too, and one
\* whose state asks for another column moves the task in a second call.
RecordIssue(r) ==
  LET l == loc[r]
      next == ColumnsFor(l.meta.state, task.status)
  IN
  /\ At(r, "issue.record")
  /\ task' = With(Mirror(task, l.number, l.meta),
                  [title |-> IF l.adopt /\ l.meta.title # Untitled THEN l.meta.title ELSE task.title])
  /\ IF l.op = "pull" /\ next # {}
     THEN Go(r, "issue.move") /\ \E c \in next : Keep(r, [column |-> c])
     ELSE Leave(r)
  /\ TaskOnly /\ Stored

\* MoveTask may fail, which the pull logs and does not answer.
MoveByIssue(r) ==
  /\ At(r, "issue.move")
  /\ task' \in {task, [task EXCEPT !.status = loc[r].column]}
  /\ TaskOnly /\ Stored
  /\ Leave(r)

\* Mutant: a link is recorded although the issue was not found.
RecordIssueFailureMutant(r) ==
  /\ At(r, "issue.fail")
  /\ task' = With(task, [issueError |-> TRUE, issue |-> loc[r].number])
  /\ TaskOnly /\ Stored
  /\ Leave(r)

RecordIssueFailure(r) ==
  /\ At(r, "issue.fail")
  /\ task' = [task EXCEPT !.issueError = TRUE]
  /\ TaskOnly /\ Stored
  /\ Leave(r)

\* Somebody closes, reopens or renames an issue on GitHub.
EditOnGitHub ==
  /\ "pull" \in mix.kinds
  /\ \E n \in DOMAIN issues, state \in {Open, Closed}, title \in Titles :
       issues' = [issues EXCEPT ![n].state = state, ![n].title = title]
  /\ UNCHANGED <<cards, history, pc, loc>> /\ PeerOnly

IssueStep(r) ==
  \/ LinkIssue(r) \/ UnlinkIssue(r) \/ PushIssue(r) \/ PullIssue(r)
  \/ CallIssue(r) \/ RecordIssue(r) \/ MoveByIssue(r) \/ RecordIssueFailure(r)

=============================================================================
