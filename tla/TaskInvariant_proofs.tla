------------------------ MODULE TaskInvariant_proofs ------------------------
(***************************************************************************)
(* Inductive is an invariant of the automation, for every set of jobs and  *)
(* requests: no running mark without a pipeline, and no finished job with  *)
(* an active record.  A step changes what one process holds and, of the    *)
(* rest, only a record, so most of the proof is about one process.         *)
(***************************************************************************)
EXTENDS TaskAutomation_proofs

\* A step of process p that leaves the other processes and records alone and
\* neither creates, launches nor cancels a job.
OwnStep(p) ==
  /\ \A q \in Procs \ {p} : pc'[q] = pc[q] /\ loc'[q] = loc[q]
  /\ \A k \in Jobs \ {p} : jobState'[k] = jobState[k]
  /\ op' = op
  /\ p \in Jobs => pc[p] # "none" /\ jobState'[p] # "none"
  /\ p \in Requests => pc'[p] \notin {"launch", "cancel.put"}

\* It takes the running mark away, or p is a pipeline and stays one, or p was
\* no pipeline and leaves the mark alone.
RunningStep(p) ==
  \/ ~prog'.running
  \/ p \in Jobs /\ IsPipeline(p) /\ pc'[p] \in InPipeline
  \/ prog' = prog /\ ~(p \in Jobs /\ IsPipeline(p) /\ pc[p] \in InPipeline)

Kept(p) ==
  /\ OwnStep(p) /\ RunningStep(p) /\ RepairStops(p)'
  /\ p \in Jobs => JobInv(p)'

\* An agent's work begins with planning or with an implementation, and only a
\* pipeline's at the beginning of the pipeline.
LEMMA EntryOfActions ==
  /\ \A a \in Agents : Entry(a) \in {"plan", "implement"}
  /\ \A a : Entry(a) \in {"plan", "implement", "pipe", "pause", "repair"}
  /\ \A a : Entry(a) = "pipe" => a = "run-pipeline"
  BY DEF Entry, Agents, Planning, Pausing

\* What is true of a job stays true when neither it nor its record changes.
LEMMA JobFrame ==
  ASSUME NEW k \in Jobs, JobInv(k),
         pc'[k] = pc[k], loc'[k] = loc[k], op'[k] = op[k],
         jobState'[k] = jobState[k]
  PROVE  JobInv(k)'
  BY DEF JobInv, JobRecorded, JobPlace, PipelineReturns, PlanningReturns, IsPipeline

\* A step that keeps what is true of its process keeps the invariant.
LEMMA KeptIsEnough ==
  ASSUME Inductive, TypeOK', NEW p \in Procs, Kept(p)
  PROVE  Inductive'
<1>1. ASSUME NEW k \in Jobs PROVE JobInv(k)'
  <2>1. CASE k = p
    BY <2>1 DEF Kept
  <2>2. CASE k # p
    BY <2>2, JobFrame DEF Inductive, Kept, OwnStep, Procs
  <2>3. QED
    BY <2>1, <2>2
<1>2. ASSUME NEW k \in Jobs, jobState[k] # "none" PROVE jobState'[k] # "none"
  BY <1>2 DEF Kept, OwnStep
<1>3. ASSUME NEW r \in Requests, pc'[r] \in {"launch", "cancel.put"}
      PROVE  r # p /\ pc'[r] = pc[r] /\ loc'[r] = loc[r]
  BY <1>3 DEF Kept, OwnStep, Procs
<1>4. ASSUME NEW r \in Requests PROVE RequestInv(r)'
  <2>1. CASE pc'[r] = "launch"
    <3> DEFINE k == loc[r].job
    <3>1. k \in Jobs /\ pc[k] = "none" /\ jobState[k] # "none" /\ loc'[r].job = k
      BY <1>3, <2>1 DEF Inductive, RequestInv
    <3>2. k # p
      BY <3>1 DEF Kept, OwnStep
    <3>3. pc'[k] = "none"
      BY <3>1, <3>2 DEF Kept, OwnStep, Procs
    <3>4. QED
      BY <1>2, <2>1, <3>1, <3>3 DEF RequestInv
  <2>2. CASE pc'[r] = "cancel.put"
    BY <1>2, <1>3, <2>2 DEF Inductive, RequestInv
  <2>3. CASE pc'[r] \notin {"launch", "cancel.put"}
    BY <2>3 DEF RequestInv
  <2>4. QED
    BY <2>1, <2>2, <2>3
<1>5. LaunchesOnce'
  BY <1>3 DEF Inductive, LaunchesOnce
<1>6. \A q \in Procs : RepairStops(q)'
  BY DEF Inductive, Kept, OwnStep, RepairStops
<1>7. RunningHasPipeline'
  <2>1. CASE ~prog'.running
    BY <2>1 DEF RunningHasPipeline
  <2>2. CASE p \in Jobs /\ IsPipeline(p) /\ pc'[p] \in InPipeline
    BY <2>2 DEF RunningHasPipeline, Kept, OwnStep, IsPipeline
  <2>3. CASE prog' = prog /\ ~(p \in Jobs /\ IsPipeline(p) /\ pc[p] \in InPipeline)
    BY <2>3 DEF Inductive, RunningHasPipeline, Kept, OwnStep, IsPipeline, Procs
  <2>4. QED
    BY <2>1, <2>2, <2>3 DEF Kept, RunningStep
<1>8. QED
  BY <1>1, <1>4, <1>5, <1>6, <1>7 DEF Inductive

-----------------------------------------------------------------------------

\* From the queue to the helpers.
LEMMA ExecutorKeeps ==
  ASSUME Inductive, NEW j \in Jobs,
         Start(j) \/ Prepare(j) \/ CheckCancelled(j) \/ Spawn(j) \/ Resolve(j)
           \/ RecordResolution(j) \/ RunContainer(j) \/ Run(j) \/ Gate(j) \/ Fail(j)
  PROVE  Kept(j)
<1> USE ConfigAssumption DEF Procs, Go, UpdateJob, Leave, task, records
<1>0. /\ j \in Procs /\ JobInv(j) /\ TypeOK /\ j \notin Requests
  BY DEF Inductive
<1> USE DEF OwnStep, RunningStep, RepairStops, JobInv, JobRecorded, JobPlace, PipelineReturns, PlanningReturns, IsPipeline, Kept
<1>1. CASE Start(j)
  BY <1>0, <1>1
     DEF TypeOK, Start, InPipeline, AtPipeline, AtPlanning, AtImplementation,
         AtApproval, AtContainer
<1>2. CASE Prepare(j)
  BY <1>0, <1>2
     DEF TypeOK, Prepare, InPipeline, AtPipeline, AtPlanning, AtImplementation,
         AtApproval, AtContainer
<1>3. CASE CheckCancelled(j)
  BY <1>0, <1>3
     DEF TypeOK, CheckCancelled, InPipeline, AtPipeline, AtPlanning,
         AtImplementation, AtApproval, AtContainer, Terminal, Fresh
<1>4. CASE Spawn(j)
  BY <1>0, <1>4
     DEF TypeOK, Spawn, InPipeline, AtPipeline, AtPlanning, AtImplementation,
         AtApproval, AtContainer
<1>5. CASE Resolve(j)
  <2>1. AfterContainer(j) = IF IsPipeline(j) THEN Entry(loc[j].step) ELSE "run"
    BY DEF AfterContainer
  <2>2. IsPipeline(j) => Entry(loc[j].step) \in {"plan", "implement"}
    BY <1>0, <1>5, EntryOfActions DEF Resolve, AtContainer
  <2>3. pc[j] = "resolve" /\ pc'[j] \in {"record", "container", AfterContainer(j)}
    BY <1>0, <1>5 DEF TypeOK, Resolve
  <2>4. loc'[j].ret = loc[j].ret /\ loc'[j].step = loc[j].step
    BY <1>0, <1>5 DEF TypeOK, Resolve, Locals
  <2>5. pc'[j] = "record" => loc'[j].seen = jobState[j]
    BY <1>0, <1>5, <2>1, <2>2 DEF TypeOK, Resolve, Locals
  <2>6. OwnStep(j) /\ RepairStops(j)' /\ prog' = prog /\ jobState' = jobState
    BY <1>0, <1>5, <2>1, <2>2, <2>3 DEF TypeOK, Resolve
  <2>7. JobInv(j)'
    BY <1>0, <2>1, <2>2, <2>3, <2>4, <2>5, <2>6
       DEF AtContainer, AtPipeline, AtApproval
  <2>8. RunningStep(j)
    BY <1>0, <2>1, <2>2, <2>3, <2>6
       DEF InPipeline, AtContainer, AtPipeline, AtPlanning, AtImplementation
  <2>9. QED
    BY <2>6, <2>7, <2>8
<1>6. CASE RecordResolution(j)
  BY <1>0, <1>6
     DEF TypeOK, RecordResolution, InPipeline, AtPipeline, AtPlanning,
         AtImplementation, AtApproval, AtContainer
<1>7. CASE RunContainer(j)
  <2>1. AfterContainer(j) = IF IsPipeline(j) THEN Entry(loc[j].step) ELSE "run"
    BY DEF AfterContainer
  <2>2. IsPipeline(j) => Entry(loc[j].step) \in {"plan", "implement"}
    BY <1>0, <1>7, EntryOfActions DEF RunContainer, AtContainer
  <2>3. pc[j] = "container" /\ pc'[j] = AfterContainer(j)
    BY <1>0, <1>7 DEF TypeOK, RunContainer
  <2>4. loc'[j].ret = loc[j].ret /\ loc'[j].step = loc[j].step
    BY <1>0, <1>7 DEF TypeOK, RunContainer, Locals
  <2>5. OwnStep(j) /\ RepairStops(j)' /\ prog' = prog /\ jobState' = jobState
    BY <1>0, <1>7, <2>1, <2>2, <2>3 DEF TypeOK, RunContainer
  <2>6. JobInv(j)'
    BY <1>0, <2>1, <2>2, <2>3, <2>4, <2>5 DEF AtContainer, AtPipeline, AtApproval
  <2>7. RunningStep(j)
    BY <1>0, <2>1, <2>2, <2>3, <2>5
       DEF InPipeline, AtContainer, AtPipeline, AtPlanning, AtImplementation
  <2>8. QED
    BY <2>5, <2>6, <2>7
<1>8. CASE Run(j)
  BY <1>0, <1>8
     DEF TypeOK, Run, InPipeline, AtPipeline, AtPlanning, AtImplementation,
         AtApproval, AtContainer
<1>9. CASE Gate(j)
  BY <1>0, <1>9, EntryOfActions
     DEF TypeOK, Gate, InPipeline, AtPipeline, AtPlanning, AtImplementation,
         AtApproval, AtContainer
<1>10. CASE Fail(j)
  BY <1>0, <1>10
     DEF TypeOK, Fail, InPipeline, AtPipeline, AtPlanning, AtImplementation,
         AtApproval, AtContainer, Terminal, Fresh
<1>11. QED
  BY <1>1, <1>2, <1>3, <1>4, <1>5, <1>6, <1>7, <1>8, <1>9, <1>10

\* Planning.
LEMMA PlanningKeeps ==
  ASSUME Inductive, NEW j \in Jobs, PlanningStep(j)
  PROVE  Kept(j)
<1> USE ConfigAssumption DEF Procs, Go, UpdateJob, Leave, Abort, MoveTask, task, records
<1>0. j \in Procs /\ JobInv(j) /\ TypeOK /\ j \notin Requests
  BY DEF Inductive
<1> USE DEF Kept, OwnStep, RunningStep, RepairStops, JobInv, JobRecorded,
            JobPlace, PipelineReturns, PlanningReturns, IsPipeline, InPipeline,
            AtPipeline, AtPlanning, AtImplementation, AtApproval, AtContainer
<1>1. CASE ChoosePlan(j)
  <2>1. loc'[j].ret = loc[j].ret /\ loc'[j].step = loc[j].step
    BY <1>0, <1>1 DEF TypeOK, ChoosePlan, Locals
  <2>2. OwnStep(j) /\ RepairStops(j)'
    BY <1>0, <1>1 DEF TypeOK, ChoosePlan
  <2>3. QED
    BY <1>0, <1>1, <2>1, <2>2 DEF TypeOK, ChoosePlan
<1>2. CASE PutPlanned(j)
  BY <1>0, <1>2 DEF TypeOK, PutPlanned
<1>3. CASE PutFreshProgress(j)
  BY <1>0, <1>3 DEF TypeOK, PutFreshProgress, NoProgress
<1>4. CASE MovePlanned(j)
  BY <1>0, <1>4 DEF TypeOK, MovePlanned, AfterStep
<1>5. QED
  BY <1>1, <1>2, <1>3, <1>4 DEF PlanningStep

\* Implementation.
LEMMA ImplementationKeeps ==
  ASSUME Inductive, NEW j \in Jobs, ImplementationStep(j)
  PROVE  Kept(j)
<1> USE ConfigAssumption DEF Procs, Go, UpdateJob, Leave, Abort, MoveTask, task, records
<1>0. j \in Procs /\ JobInv(j) /\ TypeOK /\ j \notin Requests
  BY DEF Inductive
<1> USE DEF Kept, OwnStep, RunningStep, RepairStops, JobInv, JobRecorded,
            JobPlace, PipelineReturns, PlanningReturns, IsPipeline, InPipeline,
            AtPipeline, AtPlanning, AtImplementation, AtApproval, AtContainer
<1>1. CASE ImplementGate(j)
  <2>1. loc'[j].ret = loc[j].ret /\ loc'[j].step = loc[j].step
    BY <1>0, <1>1 DEF TypeOK, ImplementGate, Locals
  <2>2. OwnStep(j) /\ RepairStops(j)'
    BY <1>0, <1>1 DEF TypeOK, ImplementGate, AfterStep
  <2>3. QED
    BY <1>0, <1>1, <2>1, <2>2 DEF TypeOK, ImplementGate, AfterStep
<1>2. CASE ImplementReadPlan(j)
  <2>1. loc'[j].ret = loc[j].ret /\ loc'[j].step = loc[j].step
    BY <1>0, <1>2 DEF TypeOK, ImplementReadPlan, Locals
  <2>2. OwnStep(j) /\ RepairStops(j)'
    BY <1>0, <1>2 DEF TypeOK, ImplementReadPlan, AfterStep
  <2>3. QED
    BY <1>0, <1>2, <2>1, <2>2 DEF TypeOK, ImplementReadPlan, AfterStep
<1>3. CASE ImplementStart(j)
  BY <1>0, <1>3 DEF TypeOK, ImplementStart
<1>4. CASE ImplementNothing(j)
  BY <1>0, <1>4 DEF TypeOK, ImplementNothing, AfterStep, Locals, Progress
<1>5. CASE ImplementPutPlan(j)
  BY <1>0, <1>5 DEF TypeOK, ImplementPutPlan, AfterStep, Locals, Progress
<1>6. CASE ImplementReadProgress(j)
  BY <1>0, <1>6 DEF TypeOK, ImplementReadProgress, AfterStep, Locals, Progress
<1>7. CASE ImplementFinish(j)
  BY <1>0, <1>7 DEF TypeOK, ImplementFinish
<1>8. CASE ImplementPutProgress(j)
  BY <1>0, <1>8 DEF TypeOK, ImplementPutProgress, AfterStep, Locals, Progress
<1>9. QED
  BY <1>1, <1>2, <1>3, <1>4, <1>5, <1>6, <1>7, <1>8 DEF ImplementationStep

\* The repairs, and the stuck mark of a cancel.
LEMMA RepairKeeps ==
  ASSUME Inductive, NEW p \in Procs, RepairStep(p)
  PROVE  Kept(p)
<1> USE ConfigAssumption DEF Procs, Go, UpdateJob, Leave, Abort, MoveTask, task, records
<1>0. TypeOK /\ (p \in Jobs => JobInv(p)) /\ RepairStops(p)
         /\ (p \in Jobs <=> p \notin Requests)
  BY DEF Inductive
<1> USE DEF Kept, OwnStep, RunningStep, RepairStops, JobInv, JobRecorded,
            JobPlace, PipelineReturns, PlanningReturns, IsPipeline, InPipeline,
            AtPipeline, AtPlanning, AtImplementation, AtApproval, AtContainer
<1>1. CASE RepairRead(p)
  <2>1. \/ RepairNothing(p)
        \/ /\ Go(p, "repair.put")
           /\ \A q \in Procs \ {p} : loc'[q] = loc[q]
           /\ loc'[p].ret = loc[p].ret /\ loc'[p].step = loc[p].step
    BY <1>0, <1>1 DEF TypeOK, RepairRead, Locals
  <2>2. CASE RepairNothing(p)
    <3>1. \/ p \in Requests /\ Leave(p)
          \/ p \in Jobs /\ Go(p, "recheck") /\ loc' = loc
          \/ p \in Jobs /\ Abort(p, "recheck")
      BY <1>0, <2>2 DEF RepairNothing
    <3>2. p \in Jobs => /\ loc'[p].ret = loc[p].ret /\ loc'[p].step = loc[p].step
                        /\ pc'[p] = "recheck"
      BY <1>0, <3>1 DEF TypeOK, Locals
    <3>3. OwnStep(p) /\ RepairStops(p)'
      BY <1>0, <1>1, <3>1 DEF TypeOK, RepairRead
    <3>4. QED
      BY <1>0, <1>1, <3>2, <3>3 DEF TypeOK, RepairRead
  <2>3. CASE /\ Go(p, "repair.put")
             /\ \A q \in Procs \ {p} : loc'[q] = loc[q]
             /\ loc'[p].ret = loc[p].ret /\ loc'[p].step = loc[p].step
    BY <1>0, <1>1, <2>3 DEF TypeOK, RepairRead
  <2>4. QED
    BY <2>1, <2>2, <2>3
<1>2. CASE RepairPutPlan(p)
  BY <1>0, <1>2 DEF TypeOK, RepairPutPlan
<1>3. CASE RepairReadProgress(p)
  BY <1>0, <1>3 DEF TypeOK, RepairReadProgress, Marked, NoProgress, Locals, Progress
<1>4. CASE RepairPutProgress(p)
  BY <1>0, <1>4 DEF TypeOK, RepairPutProgress, Fresh
<1>5. CASE RepairMove(p)
  BY <1>0, <1>5 DEF TypeOK, RepairMove
<1>6. QED
  BY <1>1, <1>2, <1>3, <1>4, <1>5 DEF RepairStep

\* The approval of a task.
LEMMA ApprovalKeeps ==
  ASSUME Inductive, NEW p \in Procs, ApproveForCoding(p)
  PROVE  Kept(p)
<1> USE ConfigAssumption DEF Procs, Go, UpdateJob, Leave, Abort, MoveTask, task, records
<1>0. TypeOK /\ (p \in Jobs => JobInv(p)) /\ RepairStops(p)
         /\ (p \in Jobs <=> p \notin Requests)
  BY DEF Inductive
<1> USE DEF Kept, OwnStep, RunningStep, RepairStops, JobInv, JobRecorded,
            JobPlace, PipelineReturns, PlanningReturns, IsPipeline, InPipeline,
            AtPipeline, AtPlanning, AtImplementation, AtApproval, AtContainer
<1>1. CASE ApproveCheck(p)
  <2>1. p \in Jobs => loc'[p].ret = loc[p].ret /\ loc'[p].step = loc[p].step
    BY <1>0, <1>1 DEF TypeOK, ApproveCheck, Locals
  <2>2. OwnStep(p) /\ RepairStops(p)'
    BY <1>0, <1>1 DEF TypeOK, ApproveCheck
  <2>3. QED
    BY <1>0, <1>1, <2>1, <2>2 DEF TypeOK, ApproveCheck, Planning
<1>2. CASE ApproveMove(p)
  BY <1>0, <1>2 DEF TypeOK, ApproveMove
<1>3. CASE ApproveMark(p)
  BY <1>0, <1>3 DEF TypeOK, ApproveMark, Fresh
<1>4. QED
  BY <1>1, <1>2, <1>3 DEF ApproveForCoding

\* Pause and resume, the second look at the record, and the follow-up.
LEMMA FollowUpKeeps ==
  ASSUME Inductive, NEW j \in Jobs,
         PauseRead(j) \/ PauseWrite(j) \/ Recheck(j) \/ CodedRead(j)
           \/ CodedNext(j) \/ ParkCheck(j) \/ Park(j) \/ PlannedRead(j)
           \/ PlannedNext(j) \/ PlannedChain(j) \/ Complete(j)
  PROVE  Kept(j)
<1> USE ConfigAssumption DEF Procs, Go, UpdateJob, Leave, Abort, MoveTask, task, records
<1>0. j \in Procs /\ JobInv(j) /\ TypeOK /\ j \notin Requests
  BY DEF Inductive
<1> USE DEF Kept, OwnStep, RunningStep, RepairStops, JobInv, JobRecorded,
            JobPlace, PipelineReturns, PlanningReturns, IsPipeline, InPipeline,
            AtPipeline, AtPlanning, AtImplementation, AtApproval, AtContainer
<1>1. CASE PauseRead(j)
  <2>1. loc'[j].ret = loc[j].ret /\ loc'[j].step = loc[j].step
    BY <1>0, <1>1 DEF TypeOK, PauseRead, Locals
  <2>2. OwnStep(j) /\ RepairStops(j)'
    BY <1>0, <1>1 DEF TypeOK, PauseRead
  <2>3. QED
    BY <1>0, <1>1, <2>1, <2>2 DEF TypeOK, PauseRead
<1>2. CASE PauseWrite(j)
  BY <1>0, <1>2 DEF TypeOK, PauseWrite, Progress, Locals
<1>3. CASE Recheck(j)
  BY <1>0, <1>3 DEF TypeOK, Recheck, FollowUp, Terminal, Fresh
<1>4. CASE CodedRead(j)
  BY <1>0, <1>4 DEF TypeOK, CodedRead, Locals
<1>5. CASE CodedNext(j)
  BY <1>0, <1>5 DEF TypeOK, CodedNext
<1>6. CASE ParkCheck(j)
  BY <1>0, <1>6 DEF TypeOK, ParkCheck
<1>7. CASE Park(j)
  BY <1>0, <1>7 DEF TypeOK, Park
<1>8. CASE PlannedRead(j)
  BY <1>0, <1>8 DEF TypeOK, PlannedRead, Locals, Planning
<1>9. CASE PlannedNext(j)
  BY <1>0, <1>9 DEF TypeOK, PlannedNext, Planning
<1>10. CASE PlannedChain(j)
  BY <1>0, <1>10 DEF TypeOK, PlannedChain
<1>11. CASE Complete(j)
  BY <1>0, <1>11 DEF TypeOK, Complete, Fresh, Terminal
<1>12. QED
  BY <1>1, <1>2, <1>3, <1>4, <1>5, <1>6, <1>7, <1>8, <1>9, <1>10, <1>11

\* The pipeline.
LEMMA PipelineKeeps ==
  ASSUME Inductive, NEW j \in Jobs, PipelineStep(j)
  PROVE  Kept(j)
<1> USE ConfigAssumption DEF Procs, Go, UpdateJob, Leave, Abort, MoveTask, task, records
<1>0. j \in Procs /\ JobInv(j) /\ TypeOK /\ j \notin Requests
  BY DEF Inductive
<1> USE DEF Kept, OwnStep, RunningStep, RepairStops, JobInv, JobRecorded,
            JobPlace, PipelineReturns, PlanningReturns, IsPipeline, InPipeline,
            AtPipeline, AtPlanning, AtImplementation, AtApproval, AtContainer
<1>1. CASE ReportRead(j)
  BY <1>0, <1>1 DEF TypeOK, ReportRead, Locals
<1>2. CASE ReportWrite(j)
  BY <1>0, <1>2 DEF TypeOK, ReportWrite, Locals, Progress
<1>3. CASE StopIfCancelled(j)
  <2>1. loc'[j].ret = loc[j].ret /\ loc'[j].step = loc[j].step
    BY <1>0, <1>3 DEF TypeOK, StopIfCancelled, Locals
  <2>2. OwnStep(j) /\ RepairStops(j)'
    BY <1>0, <1>3 DEF TypeOK, StopIfCancelled
  <2>3. QED
    BY <1>0, <1>3, <2>1, <2>2 DEF TypeOK, StopIfCancelled
<1>4. CASE StopIfPaused(j)
  <2>1. loc'[j].ret = loc[j].ret /\ loc'[j].step = loc[j].step
    BY <1>0, <1>4 DEF TypeOK, StopIfPaused, Locals
  <2>2. OwnStep(j) /\ RepairStops(j)'
    BY <1>0, <1>4 DEF TypeOK, StopIfPaused
  <2>3. QED
    BY <1>0, <1>4, <2>1, <2>2 DEF TypeOK, StopIfPaused
<1>5. CASE PipeBegin(j)
  BY <1>0, <1>5 DEF TypeOK, PipeBegin, Locals, Report
<1>6. CASE PipeRead(j)
  BY <1>0, <1>6, EntryOfActions DEF TypeOK, PipeRead, Locals, ReportStep, Dispatch, Agents, Planning
<1>7. CASE PipeApprove(j)
  BY <1>0, <1>7 DEF TypeOK, PipeApprove, Locals
<1>8. CASE PipeBudget(j)
  BY <1>0, <1>8 DEF TypeOK, PipeBudget, Locals
<1>9. CASE PipeLoop(j)
  BY <1>0, <1>9 DEF TypeOK, PipeLoop, Locals, Check
<1>10. CASE PipeNext(j)
  BY <1>0, <1>10, EntryOfActions DEF TypeOK, PipeNext, Locals, ReportStep, Dispatch, Agents, Planning
<1>11. CASE PipeStepped(j)
  BY <1>0, <1>11 DEF TypeOK, PipeStepped, Locals, Check
<1>12. CASE PipeDrained(j)
  BY <1>0, <1>12 DEF TypeOK, PipeDrained, Locals, ReportAndFail, Check
<1>13. CASE PipeCount(j)
  BY <1>0, <1>13 DEF TypeOK, PipeCount, Locals, Report, ReportAndFail
<1>14. CASE PipePark(j)
  BY <1>0, <1>14 DEF TypeOK, PipePark, Locals
<1>15. CASE PipeDefer(j)
  <2>1. loc'[j].ret = loc[j].ret /\ loc'[j].step = loc[j].step
    BY <1>0, <1>15 DEF TypeOK, PipeDefer, Locals
  <2>2. OwnStep(j) /\ RepairStops(j)'
    BY <1>0, <1>15 DEF TypeOK, PipeDefer
  <2>3. QED
    BY <1>0, <1>15, <2>1, <2>2 DEF TypeOK, PipeDefer
<1>16. CASE PipeClear(j)
  BY <1>0, <1>16 DEF TypeOK, PipeClear, Locals, Progress
<1>17. QED
  BY <1>1, <1>2, <1>3, <1>4, <1>5, <1>6, <1>7, <1>8, <1>9, <1>10, <1>11, <1>12, <1>13, <1>14, <1>15, <1>16 DEF PipelineStep

-----------------------------------------------------------------------------
(* The steps that create, launch or cancel a job, and the crash. *)

\* A new record is of a run id nobody uses: creating it keeps what is true of
\* every job and request, whatever the creator p does besides.
LEMMA CreationKeeps ==
  ASSUME Inductive, NEW p \in Procs, NEW action \in Actions \cup {"none"},
         CreateJob(action)
  PROVE  /\ NextJob \in Jobs /\ jobState[NextJob] = "none" /\ pc[NextJob] = "none"
         /\ jobState' = [jobState EXCEPT ![NextJob] = "queued"]
         /\ \A k \in Jobs \ {NextJob} : op'[k] = op[k] /\ jobState'[k] = jobState[k]
         /\ jobState'[NextJob] = "queued" /\ ~IsPipeline(NextJob)
         /\ \A k \in Jobs : jobState[k] # "none" => jobState'[k] # "none"
<1>1. NextJob \in Jobs /\ jobState[NextJob] = "none"
  BY DEF CreateJob, OutOfJobs, NextJob
<1>2. pc[NextJob] = "none" /\ op[NextJob] = "none"
  BY <1>1 DEF Inductive, JobInv, JobRecorded
<1>3. QED
  BY <1>1, <1>2 DEF CreateJob, UpdateJob, Inductive, TypeOK, IsPipeline, Procs

\* A job that has a record but has not begun has nothing more to keep.
LEMMA NewJob ==
  ASSUME NEW k \in Jobs, pc'[k] \in {"none", "start"}, jobState'[k] # "none",
         loc'[k] = Fresh
  PROVE  JobInv(k)'
  BY DEF JobInv, JobRecorded, JobPlace, PipelineReturns, PlanningReturns,
         AtPipeline, AtApproval, AtContainer, Fresh

\* Chaining launches a job nobody else could launch or cancel yet.
LEMMA ChainKeeps ==
  ASSUME Inductive, TypeOK', NEW j \in Jobs, Chain(j)
  PROVE  Inductive'
<1> USE ConfigAssumption
<1>0. /\ j \in Procs /\ JobInv(j) /\ TypeOK /\ pc[j] = "chain" /\ j \notin Requests
      /\ "run-implementation" \in Actions
  BY DEF Inductive, Procs, Chain, Actions
<1>1. CASE OutOfJobs /\ Go(j, "complete") /\ UNCHANGED records
  <2>1. Kept(j)
    BY <1>0, <1>1
       DEF Chain, TypeOK, Procs, Go, task, records, Kept, OwnStep, RunningStep,
           RepairStops, JobInv, JobRecorded, JobPlace, PipelineReturns,
           PlanningReturns, IsPipeline, InPipeline, AtPipeline, AtPlanning,
           AtImplementation, AtApproval, AtContainer
  <2>2. QED
    BY <1>0, <2>1, KeptIsEnough
<1>2. CASE CreateJob("run-implementation")
           /\ pc' = [pc EXCEPT ![j] = "complete", ![NextJob] = "start"]
  <2> DEFINE k == NextJob
  <2>1. /\ k \in Jobs /\ jobState[k] = "none" /\ pc[k] = "none" /\ k # j
        /\ \A i \in Jobs \ {k} : op'[i] = op[i] /\ jobState'[i] = jobState[i]
        /\ jobState'[k] = "queued" /\ ~IsPipeline(k)
        /\ \A i \in Jobs : jobState[i] # "none" => jobState'[i] # "none"
    BY <1>0, <1>2, CreationKeeps
  <2>2. /\ pc'[j] = "complete" /\ pc'[k] = "start"
        /\ \A q \in Procs \ {j, k} : pc'[q] = pc[q]
        /\ loc' = loc /\ prog' = prog
    BY <1>0, <1>2, <2>1 DEF Chain, TypeOK, Procs, task
  <2> HIDE DEF k
  <2>3. ASSUME NEW i \in Jobs PROVE JobInv(i)'
    <3>1. CASE i = k
      BY <2>1, <2>2, <3>1, NewJob DEF Inductive, JobInv, JobRecorded
    <3>2. CASE i = j
      BY <1>0, <2>1, <2>2, <3>2
         DEF JobInv, JobRecorded, JobPlace, PipelineReturns, PlanningReturns,
             IsPipeline, AtPipeline, AtApproval, AtContainer
    <3>3. CASE i \notin {j, k}
      BY <2>1, <2>2, <3>3, JobFrame DEF Inductive, Procs
    <3>4. QED
      BY <3>1, <3>2, <3>3
  <2>4. \A r \in Requests : r # j /\ r # k /\ pc'[r] = pc[r]
    BY <1>0, <2>1, <2>2 DEF Procs
  <2>5. ASSUME NEW r \in Requests PROVE RequestInv(r)'
    <3>1. RequestInv(r)
      BY DEF Inductive
    <3>2. pc[r] = "launch" => loc[r].job # j /\ loc[r].job # k
      BY <1>0, <2>1, <3>1 DEF RequestInv
    <3>3. QED
      BY <2>1, <2>2, <2>4, <3>1, <3>2 DEF RequestInv, Procs
  <2>6. LaunchesOnce'
    BY <2>2, <2>4 DEF Inductive, LaunchesOnce
  <2>7. \A p \in Procs : RepairStops(p)'
    BY <2>1, <2>2 DEF Inductive, RepairStops, Procs
  <2>8. RunningHasPipeline'
    <3>1. \A i \in Jobs : IsPipeline(i) /\ pc[i] \in InPipeline =>
            IsPipeline(i)' /\ pc'[i] \in InPipeline
      BY <1>0, <2>1, <2>2
         DEF IsPipeline, InPipeline, Procs, AtPipeline, AtPlanning,
             AtImplementation, AtApproval, AtContainer
    <3>2. QED
      BY <2>2, <3>1 DEF Inductive, RunningHasPipeline
  <2>9. QED
    BY <2>3, <2>5, <2>6, <2>7, <2>8 DEF Inductive
<1>3. QED
  BY <1>1, <1>2 DEF Chain

\* A request that creates a job is the only one to launch it.
LEMMA CreateForKeeps ==
  ASSUME Inductive, TypeOK', NEW r \in Requests, NEW action \in Actions \cup {"none"},
         CreateFor(r, action), UNCHANGED task
  PROVE  Inductive'
<1> USE ConfigAssumption
<1> DEFINE k == NextJob
<1>0. r \in Procs /\ TypeOK /\ r \notin Jobs
  BY DEF Inductive, Procs
<1>1. /\ k \in Jobs /\ jobState[k] = "none" /\ pc[k] = "none" /\ k # r
      /\ \A i \in Jobs \ {k} : op'[i] = op[i] /\ jobState'[i] = jobState[i]
      /\ jobState'[k] = "queued" /\ ~IsPipeline(k)
      /\ \A i \in Jobs : jobState[i] # "none" => jobState'[i] # "none"
  BY <1>0, CreationKeeps DEF CreateFor
<1>2. /\ pc'[r] = "launch" /\ \A q \in Procs \ {r} : pc'[q] = pc[q]
      /\ loc'[r].job = k /\ \A q \in Procs \ {r} : loc'[q] = loc[q]
      /\ prog' = prog
  BY <1>0, <1>1 DEF CreateFor, TypeOK, Go, task, Locals
<1> HIDE DEF k
<1>3. ASSUME NEW i \in Jobs PROVE JobInv(i)'
  <2>1. CASE i = k
    BY <1>0, <1>1, <1>2, <2>1, NewJob DEF Inductive, JobInv, JobRecorded, Procs
  <2>2. CASE i # k
    BY <1>0, <1>1, <1>2, <2>2, JobFrame DEF Inductive, Procs
  <2>3. QED
    BY <2>1, <2>2
<1>4. ASSUME NEW s \in Requests, s # r
      PROVE  RequestInv(s)' /\ (pc'[s] = "launch" => loc'[s].job # k)
  BY <1>0, <1>1, <1>2, <1>4 DEF Inductive, RequestInv, Procs
<1>5. RequestInv(r)'
  BY <1>0, <1>1, <1>2 DEF RequestInv, Procs
<1>6. LaunchesOnce'
  <2> SUFFICES ASSUME NEW s \in Requests, NEW t \in Requests,
                      pc'[s] = "launch", pc'[t] = "launch",
                      loc'[s].job = loc'[t].job
               PROVE  s = t
    BY DEF LaunchesOnce
  <2>1. CASE s = r \/ t = r
    BY <1>2, <1>4, <2>1
  <2>2. CASE s # r /\ t # r
    BY <1>2, <2>2 DEF Inductive, LaunchesOnce, Procs
  <2>3. QED
    BY <2>1, <2>2
<1>7. \A p \in Procs : RepairStops(p)'
  BY <1>2 DEF Inductive, RepairStops, Procs
<1>8. RunningHasPipeline'
  BY <1>0, <1>1, <1>2 DEF Inductive, RunningHasPipeline, IsPipeline, Procs
<1>9. QED
  BY <1>3, <1>4, <1>5, <1>6, <1>7, <1>8 DEF Inductive

\* Launching begins the goroutine of the job the request created.
LEMMA LaunchKeeps ==
  ASSUME Inductive, TypeOK', NEW r \in Requests, Launch(r)
  PROVE  Inductive'
<1> USE ConfigAssumption
<1> DEFINE k == loc[r].job
<1>0. r \in Procs /\ TypeOK /\ r \notin Jobs /\ pc[r] = "launch"
  BY DEF Inductive, Procs, Launch
<1>1. k \in Jobs /\ pc[k] = "none" /\ jobState[k] # "none" /\ loc[k] = Fresh /\ k # r
  BY <1>0 DEF Inductive, RequestInv, JobInv, JobRecorded
<1>2. /\ pc'[r] = "done" /\ pc'[k] = "start"
      /\ \A q \in Procs \ {r, k} : pc'[q] = pc[q]
      /\ \A q \in Procs \ {r} : loc'[q] = loc[q]
      /\ jobState'[k] = "queued" /\ \A i \in Jobs \ {k} : jobState'[i] = jobState[i]
      /\ op' = op /\ prog' = prog
  BY <1>0, <1>1 DEF Launch, UpdateJob, TypeOK, task, Procs
<1>3. ASSUME NEW s \in Requests, pc'[s] = "launch"
      PROVE  s # r /\ pc[s] = "launch" /\ loc'[s] = loc[s] /\ loc[s].job # k
  BY <1>0, <1>1, <1>2, <1>3 DEF Inductive, LaunchesOnce, Procs
<1> HIDE DEF k
<1>4. ASSUME NEW i \in Jobs PROVE JobInv(i)'
  <2>1. CASE i = k
    BY <1>0, <1>1, <1>2, <2>1, NewJob DEF Procs
  <2>2. CASE i # k
    BY <1>0, <1>2, <2>2, JobFrame DEF Inductive, Procs
  <2>3. QED
    BY <2>1, <2>2
<1>5. ASSUME NEW s \in Requests PROVE RequestInv(s)'
  <2>1. pc'[s] = "launch" => RequestInv(s)'
    BY <1>0, <1>1, <1>2, <1>3 DEF Inductive, RequestInv, Procs
  <2>2. pc'[s] = "cancel.put" => s \notin {r, k}
    BY <1>0, <1>1, <1>2
  <2>3. pc'[s] = "cancel.put" => RequestInv(s)'
    BY <1>0, <1>1, <1>2, <2>2 DEF Inductive, RequestInv, Procs
  <2>4. QED
    BY <2>1, <2>3 DEF RequestInv
<1>6. LaunchesOnce'
  BY <1>3 DEF Inductive, LaunchesOnce
<1>7. \A p \in Procs : RepairStops(p)'
  BY <1>1, <1>2 DEF Inductive, RepairStops, Procs
<1>8. RunningHasPipeline'
  <2>1. \A i \in Jobs : pc[i] \in InPipeline => pc'[i] = pc[i]
    BY <1>0, <1>1, <1>2
       DEF Procs, InPipeline, AtPipeline, AtPlanning, AtImplementation,
           AtApproval, AtContainer
  <2>2. QED
    BY <1>2, <2>1 DEF Inductive, RunningHasPipeline, IsPipeline
<1>9. QED
  BY <1>4, <1>5, <1>6, <1>7, <1>8 DEF Inductive

\* A cancel names a job that has a record.
LEMMA CancelReadKeeps ==
  ASSUME Inductive, TypeOK', NEW r \in Requests, CancelRead(r)
  PROVE  Inductive'
<1> USE ConfigAssumption
<1>0. r \in Procs /\ TypeOK /\ r \notin Jobs
  BY DEF Inductive, Procs
<1>1. PICK k \in Jobs : jobState[k] \in Active /\ loc' = [loc EXCEPT ![r].job = k]
  BY DEF CancelRead
<1>2. /\ pc'[r] = "cancel.put" /\ loc'[r].job = k /\ jobState[k] # "none"
      /\ \A q \in Procs \ {r} : pc'[q] = pc[q] /\ loc'[q] = loc[q]
      /\ UNCHANGED <<jobState, op, prog>>
  BY <1>0, <1>1 DEF CancelRead, Go, TypeOK, task, records, Active, Locals
<1>3. ASSUME NEW i \in Jobs PROVE JobInv(i)' /\ pc'[i] = pc[i]
  BY <1>0, <1>2, JobFrame DEF Inductive, Procs
<1>4. ASSUME NEW s \in Requests PROVE RequestInv(s)'
  BY <1>0, <1>2, <1>3 DEF Inductive, RequestInv, Procs
<1>5. LaunchesOnce'
  BY <1>0, <1>2 DEF Inductive, LaunchesOnce, Procs
<1>6. \A p \in Procs : RepairStops(p)'
  BY <1>2 DEF Inductive, RepairStops
<1>7. RunningHasPipeline'
  BY <1>2, <1>3 DEF Inductive, RunningHasPipeline, IsPipeline
<1>8. QED
  BY <1>3, <1>4, <1>5, <1>6, <1>7 DEF Inductive

\* Whatever its goroutine has done meanwhile, a cancelled job's record is
\* terminal.
LEMMA CancelWriteKeeps ==
  ASSUME Inductive, TypeOK', NEW r \in Requests, CancelWrite(r)
  PROVE  Inductive'
<1> USE ConfigAssumption
<1>0. r \in Procs /\ TypeOK /\ r \notin Jobs
  BY DEF Inductive, Procs
<1> DEFINE k == loc[r].job
<1>1. k \in Jobs /\ jobState[k] # "none"
  BY DEF Inductive, RequestInv, CancelWrite
<1>2. /\ pc'[r] \in {"repair", "done"}
      /\ \A q \in Procs \ {r} : pc'[q] = pc[q] /\ loc'[q] = loc[q]
      /\ jobState'[k] = "cancelled" /\ \A i \in Jobs \ {k} : jobState'[i] = jobState[i]
      /\ op' = op /\ prog' = prog
  BY <1>0, <1>1 DEF CancelWrite, Go, Leave, UpdateJob, TypeOK, task
<1> HIDE DEF k
<1>3. ASSUME NEW i \in Jobs PROVE JobInv(i)' /\ pc'[i] = pc[i]
  <2>1. JobInv(i) /\ pc'[i] = pc[i] /\ loc'[i] = loc[i]
    BY <1>0, <1>2 DEF Inductive, Procs
  <2>2. CASE i = k
    BY <1>2, <2>1, <2>2
       DEF JobInv, JobRecorded, JobPlace, PipelineReturns, PlanningReturns,
           IsPipeline, Terminal
  <2>3. CASE i # k
    BY <1>2, <2>1, <2>3, JobFrame
  <2>4. QED
    BY <2>1, <2>2, <2>3
<1>4. ASSUME NEW s \in Requests PROVE RequestInv(s)'
  <2>1. pc'[s] \in {"launch", "cancel.put"} =>
          s # r /\ pc'[s] = pc[s] /\ loc'[s] = loc[s]
    BY <1>2 DEF Procs
  <2>2. \A i \in Jobs : jobState[i] # "none" => jobState'[i] # "none"
    BY <1>2
  <2>3. QED
    BY <1>3, <2>1, <2>2 DEF Inductive, RequestInv
<1>5. LaunchesOnce'
  BY <1>0, <1>2 DEF Inductive, LaunchesOnce, Procs
<1>6. \A p \in Procs : RepairStops(p)'
  BY <1>2 DEF Inductive, RepairStops
<1>7. RunningHasPipeline'
  BY <1>2, <1>3 DEF Inductive, RunningHasPipeline, IsPipeline
<1>8. QED
  BY <1>3, <1>4, <1>5, <1>6, <1>7 DEF Inductive

\* A crash ends every goroutine and handler where it is.
LEMMA CrashKeeps ==
  ASSUME Inductive, TypeOK', NEW r \in Requests, Crash(r)
  PROVE  Inductive'
<1> USE ConfigAssumption
<1>0. r \in Procs /\ TypeOK /\ r \notin Jobs
  BY DEF Inductive, Procs
<1>1. /\ \A p \in Procs : pc'[p] \in {"none", "idle", "done", "dead"}
      /\ \A p \in Procs \ {r} : pc'[p] \in {"none", "idle", "done"} => pc'[p] = pc[p]
      /\ \A p \in Procs \ {r} : pc[p] = "none" => pc'[p] = "none"
      /\ \A p \in Procs \ {r} : pc[p] \in InPipeline => pc'[p] = "dead"
      /\ \A p \in Procs : loc'[p] = Fresh
      /\ UNCHANGED <<jobState, op, prog>>
  BY <1>0
     DEF Crash, TypeOK, task, records, InPipeline, AtPipeline, AtPlanning,
         AtImplementation, AtApproval, AtContainer
<1>2. ASSUME NEW i \in Jobs PROVE JobInv(i)'
  <2>1. JobRecorded(i) /\ i \in Procs \ {r}
    BY <1>0 DEF Inductive, JobInv, Procs
  <2>2. JobRecorded(i)'
    BY <1>1, <2>1 DEF JobRecorded
  <2>3. QED
    BY <1>1, <2>1, <2>2
       DEF JobInv, JobPlace, PipelineReturns, PlanningReturns, Fresh,
           AtPipeline, AtApproval, AtContainer
<1>3. ASSUME NEW s \in Requests PROVE RequestInv(s)' /\ pc'[s] # "launch"
  BY <1>1 DEF RequestInv, Procs
<1>4. LaunchesOnce' /\ \A p \in Procs : RepairStops(p)'
  BY <1>1, <1>3 DEF LaunchesOnce, RepairStops
<1>5. RunningHasPipeline'
  BY <1>0, <1>1 DEF Inductive, RunningHasPipeline, IsPipeline, InPipeline, Procs
<1>6. QED
  BY <1>2, <1>3, <1>4, <1>5 DEF Inductive

\* The other steps of requests.
LEMMA RequestKeeps ==
  ASSUME Inductive, NEW r \in Requests,
         \/ DragPaused(r) \/ DragList(r) \/ Drag(r) \/ Approve(r)
         \/ DragCreate(r) /\ Leave(r) /\ UNCHANGED records
  PROVE  Kept(r)
<1> USE ConfigAssumption
<1>0. r \in Procs /\ TypeOK /\ r \notin Jobs
  BY DEF Inductive, Procs
<1>1. /\ pc'[r] \in {"drag.list", "drag.create", "drag.paused", "approve", "done"}
      /\ \A q \in Procs \ {r} : pc'[q] = pc[q] /\ loc'[q] = loc[q]
      /\ UNCHANGED <<jobState, op, prog>>
  BY <1>0
     DEF DragPaused, DragList, Drag, Approve, DragCreate, Go, Leave, task,
         records, TypeOK
<1>2. QED
  BY <1>0, <1>1 DEF Kept, OwnStep, RunningStep, RepairStops

-----------------------------------------------------------------------------

\* Nothing has been created when the task is.
LEMMA InitInductive == Init => Inductive
<1> SUFFICES ASSUME Init PROVE Inductive
  OBVIOUS
<1>0. TypeOK
  BY InitTypes
<1>1. /\ \A p \in Procs : pc[p] \in {"none", "idle"}
      /\ \A j \in Jobs : pc[j] = "none" /\ loc[j] = Fresh /\ op[j] = "none"
      /\ ~prog.running
  BY DEF Init, Procs, NoProgress
<1>2. ASSUME NEW j \in Jobs PROVE JobInv(j)
  BY <1>1 DEF JobInv, JobRecorded, JobPlace, PipelineReturns, PlanningReturns,
              IsPipeline, AtPipeline, AtApproval, AtContainer
<1>3. /\ \A r \in Requests : RequestInv(r)
      /\ LaunchesOnce /\ \A p \in Procs : RepairStops(p)
  BY <1>1 DEF RequestInv, LaunchesOnce, RepairStops, Procs
<1>4. RunningHasPipeline
  BY <1>1 DEF RunningHasPipeline
<1>5. QED
  BY <1>0, <1>2, <1>3, <1>4 DEF Inductive

\* Every step keeps the invariant.
LEMMA NextInductive == Inductive /\ [Next]_vars => Inductive'
<1> SUFFICES ASSUME Inductive, [Next]_vars PROVE Inductive'
  OBVIOUS
<1>0. TypeOK'
  BY NextTypes DEF Inductive
<1>1. ASSUME NEW j \in Jobs, JobStep(j) PROVE Inductive'
  <2>0. j \in Procs
    BY DEF Procs
  <2>1. CASE Chain(j)
    BY <1>0, <2>1, ChainKeeps
  <2>2. CASE PlanningStep(j) \/ ImplementationStep(j) \/ RepairStep(j)
    BY <1>0, <2>0, <2>2, PlanningKeeps, ImplementationKeeps, RepairKeeps, KeptIsEnough
  <2>3. CASE \/ Start(j) \/ Prepare(j) \/ CheckCancelled(j) \/ Spawn(j)
             \/ Resolve(j) \/ RecordResolution(j) \/ RunContainer(j)
             \/ Run(j) \/ Gate(j) \/ Fail(j)
    BY <1>0, <2>0, <2>3, ExecutorKeeps, KeptIsEnough
  <2>4. CASE \/ PauseRead(j) \/ PauseWrite(j) \/ Recheck(j) \/ CodedRead(j)
             \/ CodedNext(j) \/ ParkCheck(j) \/ Park(j) \/ PlannedRead(j)
             \/ PlannedNext(j) \/ PlannedChain(j) \/ Complete(j)
    BY <1>0, <2>0, <2>4, FollowUpKeeps, KeptIsEnough
  <2>5. CASE PipelineStep(j) \/ ApproveForCoding(j)
    BY <1>0, <2>0, <2>5, PipelineKeeps, ApprovalKeeps, KeptIsEnough
  <2>6. QED
    BY <1>1, <2>1, <2>2, <2>3, <2>4, <2>5 DEF JobStep, ExecutorStep
<1>2. ASSUME NEW r \in Requests, RequestStep(r) \/ Request(r) PROVE Inductive'
  <2>0. r \in Procs
    BY DEF Procs
  <2>1. CASE RepairStep(r) \/ ApproveForCoding(r)
    BY <1>0, <2>0, <2>1, RepairKeeps, ApprovalKeeps, KeptIsEnough
  <2>2. CASE DragPaused(r) \/ DragList(r) \/ Drag(r) \/ Approve(r)
    BY <1>0, <2>0, <2>2, RequestKeeps, KeptIsEnough
  <2>3. CASE DragCreate(r)
    <3>1. CASE Leave(r) /\ UNCHANGED records
      BY <1>0, <2>0, <2>3, <3>1, RequestKeeps, KeptIsEnough
    <3>2. CASE CreateFor(r, loc[r].step)
      <4>1. loc[r].step \in Actions \cup {"none"}
        BY <2>0 DEF Inductive, TypeOK, Locals
      <4>2. QED
        BY <1>0, <2>3, <3>2, <4>1, CreateForKeeps DEF DragCreate
    <3>3. QED
      BY <2>3, <3>1, <3>2 DEF DragCreate
  <2>4. CASE PostJob(r)
    <3>1. PICK action \in Actions : CreateFor(r, action)
      BY <2>4, EnvironmentAssumption DEF PostJob
    <3>2. QED
      BY <1>0, <2>4, <3>1, CreateForKeeps DEF PostJob
  <2>5. CASE Launch(r) \/ CancelRead(r) \/ CancelWrite(r) \/ Crash(r)
    BY <1>0, <2>5, LaunchKeeps, CancelReadKeeps, CancelWriteKeeps, CrashKeeps
  <2>6. QED
    BY <1>2, <2>1, <2>2, <2>3, <2>4, <2>5 DEF RequestStep, Request
<1>3. ASSUME UNCHANGED vars PROVE Inductive'
  <2>1. UNCHANGED <<prog, jobState, op, pc, loc>>
    BY <1>3 DEF vars
  <2>2. \A j \in Jobs : JobInv(j)'
    BY <2>1, JobFrame DEF Inductive
  <2>3. QED
    BY <1>0, <2>1, <2>2
       DEF Inductive, RequestInv, LaunchesOnce, RepairStops,
           RunningHasPipeline, IsPipeline
<1>4. QED
  BY <1>1, <1>2, <1>3 DEF Next, Finished

\* The inductive invariant holds in every state of the automation.
THEOREM InductiveInvariant == Spec => []Inductive
<1>1. QED
  BY InitInductive, NextInductive, PTL DEF Spec

\* progress.json says is_running only while a pipeline is at work, or was when
\* the server died: no interleaving of stale progress writes, cancels, failed
\* steps and repairs leaves a card spinning after its pipeline has returned.
THEOREM RunningMarkHasPipeline == Spec => []RunningHasPipeline
<1>1. Inductive => RunningHasPipeline
  BY DEF Inductive
<1>2. QED
  BY <1>1, InductiveInvariant, PTL

\* Whatever a job did and whoever cancelled it, a goroutine that has returned
\* leaves a record that no later drag waits for.
THEOREM FinishedJobsAreTerminal == Spec => []FinishedJobIsTerminal
<1>1. Inductive => FinishedJobIsTerminal
  BY DEF Inductive, FinishedJobIsTerminal, JobInv, JobRecorded
<1>2. QED
  BY <1>1, InductiveInvariant, PTL

-----------------------------------------------------------------------------
(* A cancelled job at work stays cancelled until its goroutine returns.    *)

StaysCancelled(j) ==
  /\ jobState'[j] = "cancelled"
  /\ Working(j, pc'[j]) \/ pc'[j] \in {"done", "dead"}

\* Its own steps do not write the record, and the second look at it returns.
LEMMA OwnWorkStaysCancelled ==
  ASSUME Inductive, NEW j \in Jobs, JobStep(j),
         jobState[j] = "cancelled", Working(j, pc[j]), ~WritesBack(j)
  PROVE  StaysCancelled(j)
<1> USE ConfigAssumption DEF Procs, Go, Leave, Abort, task, records
<1>0. /\ j \in Procs /\ JobInv(j) /\ TypeOK /\ j \notin Requests
      /\ pc[j] \notin {"none", "start", "prepare", "check", "spawn", "run", "gate",
                      "fail", "complete", "done", "dead"} \cup AtFollowUp
  BY DEF Inductive, Working, JobInv, JobPlace, AtPlanning, AtImplementation,
         AtRepair, AtPipeline, AtApproval, AtContainer, AtFollowUp
<1> USE DEF StaysCancelled, Working, AtPlanning, AtImplementation, AtRepair,
            AtPipeline, AtApproval, AtContainer
<1>1. CASE PlanningStep(j)
  BY <1>0, <1>1
     DEF TypeOK, PlanningStep, ChoosePlan, PutPlanned, PutFreshProgress,
         MovePlanned, AfterStep
<1>2. CASE ImplementationStep(j)
  BY <1>0, <1>2
     DEF TypeOK, ImplementationStep, ImplementGate, ImplementReadPlan,
         ImplementStart, ImplementNothing, ImplementPutPlan,
         ImplementReadProgress, ImplementFinish, ImplementPutProgress, AfterStep
<1>3. CASE RepairStep(j)
  <2>1. jobState' = jobState /\ pc'[j] \in AtRepair \cup {"recheck"}
    <3>1. CASE RepairRead(j)
      <4>1. RepairNothing(j) \/ Go(j, "repair.put")
        BY <3>1 DEF RepairRead
      <4>2. QED
        BY <1>0, <3>1, <4>1 DEF TypeOK, RepairRead, RepairNothing
    <3>2. CASE RepairPutPlan(j) \/ RepairReadProgress(j) \/ RepairPutProgress(j)
               \/ RepairMove(j)
      BY <1>0, <3>2
         DEF TypeOK, RepairPutPlan, RepairReadProgress, RepairPutProgress, RepairMove
    <3>3. QED
      BY <1>3, <3>1, <3>2 DEF RepairStep
  <2>2. QED
    BY <2>1
<1>4. CASE PauseRead(j) \/ PauseWrite(j) \/ Recheck(j)
  BY <1>0, <1>4 DEF TypeOK, PauseRead, PauseWrite, Recheck
<1>5. CASE PipelineStep(j)
  <2>1. jobState' = jobState /\ IsPipeline(j)
    <3>1. jobState' = jobState
      BY <1>5
         DEF PipelineStep, ReportRead, ReportWrite, StopIfCancelled,
             StopIfPaused, PipeBegin, PipeRead, PipeApprove, PipeBudget,
             PipeLoop, PipeNext, PipeStepped, PipeDrained, PipeCount, PipePark,
             PipeDefer, PipeClear
    <3>2. pc[j] \in AtPipeline
      BY <1>5
         DEF PipelineStep, ReportRead, ReportWrite, StopIfCancelled,
             StopIfPaused, PipeBegin, PipeRead, PipeApprove, PipeBudget,
             PipeLoop, PipeNext, PipeStepped, PipeDrained, PipeCount, PipePark,
             PipeDefer, PipeClear
    <3>3. QED
      BY <1>0, <3>1, <3>2 DEF JobInv, JobPlace, IsPipeline
  <2>2. pc'[j] \in AtPipeline \cup {"resolve", "plan", "implement", "approve", "recheck"}
    <3>1. pc[j] \in {"report.put", "stop.paused"} =>
            loc[j].ret \in AtPipeline \cup {"resolve", "plan", "implement"}
      BY <1>0, <2>1 DEF JobInv, PipelineReturns
    <3>2. QED
      BY <1>0, <1>5, <3>1
         DEF TypeOK, PipelineStep, ReportRead, ReportWrite, StopIfCancelled,
             StopIfPaused, PipeBegin, PipeRead, PipeApprove, PipeBudget,
             PipeLoop, PipeNext, PipeStepped, PipeDrained, PipeCount, PipePark,
             PipeDefer, PipeClear, Report, ReportStep, ReportAndFail, Check
  <2>3. QED
    BY <2>1, <2>2 DEF IsPipeline
<1>6. CASE ApproveForCoding(j)
  <2>1. IsPipeline(j) /\ op' = op /\ jobState' = jobState
    BY <1>0, <1>6 DEF ApproveForCoding, ApproveCheck, ApproveMove, ApproveMark
  <2>2. pc[j] = "approve.mark" =>
          loc[j].ret \in AtPipeline \cup {"resolve", "plan", "implement"}
    BY <1>0, <2>1 DEF JobInv, PipelineReturns
  <2>3. pc'[j] \in AtApproval \cup AtPipeline \cup {"resolve", "plan", "implement"}
    BY <1>0, <1>6, <2>1, <2>2
       DEF TypeOK, ApproveForCoding, ApproveCheck, ApproveMove, ApproveMark,
           IsPipeline, Planning
  <2>4. QED
    BY <2>1, <2>3 DEF IsPipeline
<1>7. CASE Resolve(j) \/ RecordResolution(j) \/ RunContainer(j)
  <2>1. IsPipeline(j) /\ op' = op /\ loc[j].step \in Agents
    BY <1>0, <1>7
       DEF Resolve, RecordResolution, RunContainer, JobInv, PipelineReturns
  <2>2. AfterContainer(j) \in {"plan", "implement"}
    BY <2>1, EntryOfActions DEF AfterContainer
  <2>3. jobState'[j] = "cancelled"
    BY <1>0, <1>7
       DEF TypeOK, Resolve, RecordResolution, RunContainer, UpdateJob, WritesBack
  <2>4. pc'[j] \in {"record", "container", "plan", "implement"}
    BY <1>0, <1>7, <2>2 DEF TypeOK, Resolve, RecordResolution, RunContainer
  <2>5. QED
    BY <2>1, <2>3, <2>4 DEF IsPipeline
<1>8. CASE \/ Start(j) \/ Prepare(j) \/ CheckCancelled(j) \/ Spawn(j)
           \/ Run(j) \/ Gate(j) \/ Fail(j) \/ CodedRead(j) \/ CodedNext(j)
           \/ ParkCheck(j) \/ Park(j) \/ PlannedRead(j) \/ PlannedNext(j)
           \/ PlannedChain(j) \/ Chain(j) \/ Complete(j)
  BY <1>0, <1>8
     DEF Start, Prepare, CheckCancelled, Spawn, Run, Gate, Fail, CodedRead,
         CodedNext, ParkCheck, Park, PlannedRead, PlannedNext, PlannedChain,
         Chain, Complete, AtFollowUp
<1>9. QED
  BY <1>1, <1>2, <1>3, <1>4, <1>5, <1>6, <1>7, <1>8 DEF JobStep, ExecutorStep

\* The steps of other jobs write their own records or a new one.
LEMMA OtherJobsLeaveItCancelled ==
  ASSUME Inductive, NEW j \in Jobs, NEW i \in Jobs, i # j, JobStep(i),
         jobState[j] = "cancelled", Working(j, pc[j])
  PROVE  StaysCancelled(j)
<1>1. pc'[j] = pc[j] /\ jobState'[j] = jobState[j] /\ op'[j] = op[j]
  <2>1. CASE Kept(i)
    BY <2>1 DEF Kept, OwnStep, Procs
  <2>2. CASE Chain(i)
    <3>1. CASE CreateJob("run-implementation")
               /\ pc' = [pc EXCEPT ![i] = "complete", ![NextJob] = "start"]
      <4>1. i \in Procs /\ "run-implementation" \in Actions \cup {"none"}
        BY DEF Procs, Actions
      <4>2. /\ NextJob \in Jobs /\ jobState[NextJob] = "none"
            /\ \A k \in Jobs \ {NextJob} : op'[k] = op[k] /\ jobState'[k] = jobState[k]
        BY <3>1, <4>1, CreationKeeps
      <4>3. NextJob # j
        BY <4>2
      <4>4. QED
        BY <3>1, <4>2, <4>3 DEF Inductive, TypeOK, Procs
    <3>2. CASE Go(i, "complete") /\ UNCHANGED records
      BY <3>2 DEF Go, records, Inductive, TypeOK, Procs
    <3>3. QED
      BY <2>2, <3>1, <3>2 DEF Chain
  <2>3. Kept(i) \/ Chain(i)
    BY PlanningKeeps, ImplementationKeeps, RepairKeeps, ExecutorKeeps,
       FollowUpKeeps, PipelineKeeps, ApprovalKeeps
       DEF JobStep, ExecutorStep, Procs
  <2>4. QED
    BY <2>1, <2>2, <2>3
<1>2. QED
  BY <1>1 DEF StaysCancelled, Working, IsPipeline

\* A request cancels it again, or creates or launches another job.
LEMMA RequestsLeaveItCancelled ==
  ASSUME Inductive, NEW j \in Jobs, NEW r \in Requests, RequestStep(r) \/ Request(r),
         jobState[j] = "cancelled", Working(j, pc[j])
  PROVE  StaysCancelled(j)
<1>0. r # j /\ r \in Procs /\ j \in Procs /\ TypeOK
  BY ConfigAssumption DEF Inductive, Procs
<1> DEFINE Untouched == /\ pc'[j] \in {pc[j], "dead", "done"} /\ op'[j] = op[j]
                        /\ jobState'[j] = jobState[j]
<1>1. Untouched => StaysCancelled(j)
  BY DEF StaysCancelled, Working, IsPipeline
<1>2. CASE Kept(r)
  BY <1>0, <1>1, <1>2 DEF Kept, OwnStep
<1>3. ASSUME NEW action \in Actions \cup {"none"}, CreateFor(r, action)
      PROVE  StaysCancelled(j)
  <2>1. /\ jobState[NextJob] = "none"
        /\ \A k \in Jobs \ {NextJob} : op'[k] = op[k] /\ jobState'[k] = jobState[k]
    BY <1>0, <1>3, CreationKeeps DEF CreateFor
  <2>2. QED
    BY <1>0, <1>1, <1>3, <2>1 DEF CreateFor, Go, TypeOK
<1>4. CASE Launch(r)
  <2>1. pc[j] # "none"
    BY DEF Working, AtPlanning, AtImplementation, AtRepair, AtPipeline,
           AtApproval, AtContainer
  <2>2. loc[r].job \in Jobs \ {j}
    BY <1>0, <1>4, <2>1 DEF Inductive, RequestInv, Launch
  <2>3. QED
    BY <1>0, <1>1, <1>4, <2>2 DEF Launch, UpdateJob, TypeOK
<1>5. CASE CancelRead(r)
  BY <1>0, <1>1, <1>5 DEF CancelRead, Go, records, TypeOK
<1>6. CASE CancelWrite(r)
  <2>1. pc'[j] = pc[j] /\ op' = op /\ jobState'[j] = "cancelled"
    BY <1>0, <1>6 DEF CancelWrite, Go, Leave, UpdateJob, TypeOK
  <2>2. QED
    BY <2>1 DEF StaysCancelled, Working, IsPipeline
<1>7. CASE Crash(r)
  BY <1>0, <1>1, <1>7 DEF Crash, records
<1>8. CASE \/ RepairStep(r) \/ ApproveForCoding(r) \/ DragPaused(r) \/ DragList(r)
           \/ Drag(r) \/ Approve(r)
           \/ (DragCreate(r) /\ Leave(r) /\ UNCHANGED records)
  BY <1>0, <1>2, <1>8, RepairKeeps, ApprovalKeeps, RequestKeeps
<1>9. CASE DragCreate(r) /\ CreateFor(r, loc[r].step)
  BY <1>0, <1>3, <1>9 DEF TypeOK, Locals
<1>10. CASE PostJob(r)
  BY <1>3, <1>10, EnvironmentAssumption DEF PostJob
<1>11. CASE DragCreate(r)
  BY <1>8, <1>9, <1>11 DEF DragCreate
<1>12. QED
  BY <1>4, <1>5, <1>6, <1>7, <1>8, <1>10, <1>11 DEF RequestStep, Request

\* However cancels, repairs, drags, other jobs and crashes interleave with it,
\* a job cancelled while its helper works does not chain and reports nothing
\* else: executeJob's second look at the record sees the cancel.
THEOREM CancelledIsFinal == Spec => CancelledWorkIsFinal
<1> DEFINE Final == \A j \in Jobs :
              jobState[j] = "cancelled" /\ Working(j, pc[j]) /\ ~WritesBack(j) =>
                StaysCancelled(j)
<1>1. Inductive /\ [Next]_vars => [Final]_vars
  <2> SUFFICES ASSUME Inductive, Next, NEW j \in Jobs,
                      jobState[j] = "cancelled", Working(j, pc[j]), ~WritesBack(j)
               PROVE  StaysCancelled(j) \/ UNCHANGED vars
    OBVIOUS
  <2>1. CASE \E i \in Jobs : JobStep(i)
    BY <2>1, OwnWorkStaysCancelled, OtherJobsLeaveItCancelled
  <2>2. CASE \E r \in Requests : RequestStep(r) \/ Request(r)
    BY <2>2, RequestsLeaveItCancelled
  <2>3. CASE Finished
    BY <2>3 DEF Finished
  <2>4. QED
    BY <2>1, <2>2, <2>3 DEF Next
<1>2. QED
  BY <1>1, InductiveInvariant, PTL DEF Spec, CancelledWorkIsFinal, StaysCancelled

=============================================================================
