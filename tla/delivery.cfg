CONSTANTS
  Runs = {j1, j2}
  Deliveries = {d1, d2}
  Paths = {"a", "b", "up", "wf"}
  Unsafe = {"up", "wf"}
  Filtered = {"wf"}
  Blank = "none"
  Absent = absent
  MaxFiles = 2
  MaxBytes = 3
  Candidates <- FewCandidates
  Branches = {"main", "task", "retry"}
  Base = "main"
  Targets = {"main", "release"}
  Outputs <- ManyOutputs
  Initial <- Start
  FirstSetups = {"ready", "unlinked", "no_peer"}
  Faults = TRUE
  Quiet = TRUE
SPECIFICATION Spec
SYMMETRY Symmetry
INVARIANTS TypeOK TaskPointsAtItsPull  
 
