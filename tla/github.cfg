CONSTANTS
  Requests = {r1, r2, r3}
  Mixes <- AllMixes
  Titles = {"a", "b"}
  Untitled = "none"
  Columns = {"in_progress", "human_review", "done"}
  Phases = {1, 2}
  Features = {1, 2}
  MaxIssues = 3
  MaxCards = 3
  Tasks <- SomeTasks
  Roadmaps <- SomeRoadmaps
  Patches <- SomePatches
  ClientDocs <- SomeDocs
SPECIFICATION Spec
SYMMETRY Symmetry
INVARIANTS TypeOK OneCard PublishedHasAnIssue RetryDoesNotDuplicate
PROPERTIES LinksAreVerified PushAndPullAgree RenameLandsOrFails BoundPhasesKept
