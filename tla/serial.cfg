CONSTANTS
  Jobs = {j1, j2, j3, j4}
  Requests = {r1, r2, r3}
  ModelPlans <- SomePlans
  RequireReview = FALSE
  Autopilot = TRUE
  AutoChain = TRUE
  Container = TRUE
  Faults = TRUE
  BudgetSlack = 1
  BudgetMin = 2
  BudgetMax = 6
  StartPlans <- ShortPlans
  Offered = {"post", "drag"}
  Posted = {"run-planning", "run-implementation", "run-pipeline", "recover-subtask", "mark-stuck", "skip-to-phase", "pause-task", "resume-task"}
  DragTo = {"queue", "in_progress"}
  SerialRequests = TRUE
  QuietPosts = TRUE
SPECIFICATION Spec
SYMMETRY Symmetry
INVARIANTS OneWriter StuckMarkAgrees ReviewHasNoCodingToPick
PROPERTIES NoLostWork
