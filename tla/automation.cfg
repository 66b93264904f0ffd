CONSTANTS
  Jobs = {j1, j2}
  Requests = {r1, r2}
  ModelPlans <- NoPlans
  RequireReview = TRUE
  Autopilot = TRUE
  AutoChain = TRUE
  Container = FALSE
  Faults = TRUE
  BudgetSlack = 1
  BudgetMin = 2
  BudgetMax = 6
  StartPlans <- ShortPlans
  Offered = {"post", "drag", "cancel", "approve", "crash"}
  Posted = {"run-planning", "run-followup-planning", "run-implementation", "run-pipeline", "pause-task", "resume-task", "recover-subtask", "mark-stuck", "skip-to-phase"}
  DragTo = {"queue", "in_progress", "review"}
  SerialRequests = FALSE
  QuietPosts = FALSE
SPECIFICATION Spec
SYMMETRY Symmetry
INVARIANTS TypeOK RunningHasPipeline FinishedJobIsTerminal
PROPERTIES CancelledWorkIsFinal
