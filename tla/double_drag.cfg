CONSTANTS
  Jobs = {j1, j2}
  Requests = {r1, r2}
  ModelPlans <- NoPlans
  RequireReview = FALSE
  Autopilot = TRUE
  AutoChain = TRUE
  Container = FALSE
  Faults = FALSE
  BudgetSlack = 1
  BudgetMin = 2
  BudgetMax = 6
  StartPlans <- ShortPlans
  Offered = {"drag"}
  Posted = {"run-pipeline"}
  DragTo = {"queue", "in_progress"}
  SerialRequests = FALSE
  QuietPosts = FALSE
SPECIFICATION Spec
SYMMETRY Symmetry
INVARIANT OneWriter
