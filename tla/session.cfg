CONSTANTS
  Jobs = {j1, j2, j3, j4, j5}
  Requests = {r1, r2, r3}
  ModelPlans <- NoPlans
  RequireReview = TRUE
  Autopilot = FALSE
  AutoChain = TRUE
  Container = FALSE
  Faults = FALSE
  BudgetSlack = 1
  BudgetMin = 2
  BudgetMax = 6
  StartPlans <- ShortPlans
  Offered = {"post", "approve"}
  Posted = {"run-planning", "run-followup-planning", "run-implementation", "run-pipeline"}
  DragTo = {"queue", "in_progress"}
  SerialRequests = TRUE
  QuietPosts = TRUE
SPECIFICATION FairSpec
PROPERTIES ImplementsSession PipelineParks EveryJobEnds
