CONSTANTS
  Runs = {j1, j2}
  Deliveries = {d1, d2}
  Paths = {"a", "b"}
  Unsafe = {}
  Filtered = {}
  Blank = "none"
  Absent = absent
  MaxFiles = 2
  MaxBytes = 3
  Candidates <- OneCandidate
  Branches = {"main", "task", "retry"}
  Base = "main"
  Targets = {"main"}
  Outputs <- FewOutputs
  Initial <- Start
  FirstSetups = {"ready"}
  Faults = FALSE
  Quiet = TRUE
SPECIFICATION Spec
SYMMETRY Symmetry
INVARIANTS ReplayMatchesSession
