CONSTANTS
  Jobs = {j1, j2, j3}
  Requests = {r1}
  ModelPlans <- NoPlans
  RequireReview = FALSE
  Autopilot = TRUE
  AutoChain = TRUE
  Container = FALSE
  Faults = FALSE
  BudgetSlack = 1
  BudgetMin = 2
  BudgetMax = 6
  StartPlans <- NamelessPlans
  Offered = {"post"}
  Posted = {"run-implementation"}
  DragTo = {"queue", "in_progress"}
  SerialRequests = FALSE
  QuietPosts = FALSE
SPECIFICATION Spec
INVARIANT ReviewHasNoOpenCoding
