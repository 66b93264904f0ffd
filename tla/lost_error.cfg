CONSTANTS
  Requests = {r1, r2}
  Mixes <- DragMix
  Titles = {"a", "b"}
  Untitled = "none"
  Columns = {"in_progress", "human_review", "done"}
  Phases = {1}
  Features = {1}
  MaxIssues = 1
  MaxCards = 2
  Tasks <- OneTask
  Roadmaps <- OneRoadmap
  Patches <- PlainPatches
  ClientDocs <- NoDocs
SPECIFICATION Spec
SYMMETRY Symmetry
INVARIANTS RenameNeverLooksLikeSuccess
