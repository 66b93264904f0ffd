CONSTANTS
  Jobs = {j1, j2}
  Requests = {r1, r2}
  ModelPlans <- ShortPlans
  RequireReview = FALSE
  Autopilot = TRUE
  AutoChain = TRUE
  Container = TRUE
  Faults = FALSE
  BudgetSlack = 1
  BudgetMin = 2
  BudgetMax = 6
  StartPlans <- ShortPlans
  Offered = {"post", "cancel"}
  Posted = {"run-pipeline"}
  DragTo = {"queue", "in_progress"}
  SerialRequests = FALSE
  QuietPosts = FALSE
SPECIFICATION Spec
PROPERTY ResolutionKeepsState
