------------------------------ MODULE MCGitHub -----------------------------
(* Instances of GitHubSync for TLC. *)
EXTENDS GitHubProperties, TLC

Task(status, issue, card, milestone) ==
  [title |-> "a", status |-> status, issue |-> issue,
   state |-> IF issue = 0 THEN "" ELSE StateOf(status),
   issueTitle |-> IF issue = 0 THEN "" ELSE "a", issueError |-> FALSE,
   project |-> card # 0, card |-> card, cardError |-> FALSE, milestone |-> milestone]

NewTask == Task("in_progress", 0, 0, 0)
LinkedTask == Task("done", 1, 1, 1)
BoundTask == Task("in_progress", 0, 1, 0)

Feature(p) == [phase |-> p, milestone |-> 0, card |-> 0]
EmptyRoadmap == NoRoadmap
SmallRoadmap == [phases |-> <<0>>, features |-> <<Feature(1), Feature(1)>>, published |-> {}]

\* What clients send: titles, links to what may not exist, and no links at all.
PlainPatches == {[title |-> "a"], [title |-> "b"]}
SomePatches ==
  PlainPatches \cup
  {[issue |-> 0], [issue |-> 2, state |-> "open"], [card |-> 0], [title |-> "b", card |-> 2],
   [project |-> FALSE, milestone |-> 2]}

\* Documents of a client's own: one without phases and records, one that makes up
\* both a half-written bind and a published feature.
NoDocs == {}
SomeDocs == {NoRoadmap, [phases |-> <<2>>, features |-> <<Feature(1)>>, published |-> {2}]}

Mix(most, kinds) == [most |-> most, kinds |-> kinds]

AllMixes ==
  { Mix(2, {"link", "unlink", "push", "pull", "drag"}),
    Mix(2, {"link", "edit", "pull"}),
    Mix(2, {"edit", "sync", "drag", "detach", "bind"}),
    Mix(2, {"card", "edit", "drag", "features"}),
    Mix(3, {"publish", "features", "client"}),
    Mix(2, {"publish", "discovery", "features", "client", "assign"}),
    Mix(2, {"assign", "unassign", "publish", "competitor"}) }

DragMix == {Mix(2, {"edit", "drag", "sync"})}

SomeTasks == {NewTask, LinkedTask}
OneTask == {BoundTask}
SomeRoadmaps == {EmptyRoadmap, SmallRoadmap}
OneRoadmap == {EmptyRoadmap}

Symmetry == Permutations(Requests)

=============================================================================
