-------------------------- MODULE TaskSerial_proofs --------------------------
(***************************************************************************)
(* What the automation keeps when requests do not overlap: Alone first,    *)
(* then that the locals of the one live job still say what the files say   *)
(* (Current), and from it that the plan, the progress and the card agree.  *)
(***************************************************************************)
EXTENDS TaskSerial, TaskInvariant_proofs

\* What a step of job j does to its own record and label.
OwnRecord(j) ==
  /\ pc[j] \notin {"none", "done", "dead"} /\ pc'[j] \notin {"none", "dead", "idle"}
  /\ pc[j] = "complete" => pc'[j] = "done" /\ UNCHANGED task
  /\ pc'[j] = "done" \/ jobState'[j] \in Active
  /\ pc'[j] = "record" => loc'[j].seen \in Active

\* What Alone says of one job.
LEMMA AloneJob ==
  ASSUME Alone, NEW j \in Jobs
  PROVE  /\ pc[j] \notin {"none", "done", "dead"} => jobState[j] \in Active
         /\ pc[j] = "record" => loc[j].seen \in Active
         /\ pc[j] # "idle"
  BY DEF Alone

\* From the queue to the helpers.
LEMMA ExecutorRecords ==
  ASSUME Inductive, Alone, NEW j \in Jobs,
         \/ Start(j) \/ Prepare(j) \/ CheckCancelled(j) \/ Spawn(j) \/ Resolve(j)
         \/ RecordResolution(j) \/ RunContainer(j) \/ Run(j) \/ Gate(j) \/ Fail(j)
  PROVE  OwnRecord(j)
<1> USE DEF OwnRecord, Go, UpdateJob, Leave, task, records
<1>0. /\ j \in Procs /\ TypeOK /\ JobInv(j)
      /\ pc[j] \notin {"none", "done", "dead"} => jobState[j] \in Active
      /\ pc[j] = "record" => loc[j].seen \in Active
      /\ {"starting", "running"} \subseteq Active
  BY AloneJob DEF Inductive, Procs, Active
<1>1. CASE Start(j) \/ Prepare(j) \/ CheckCancelled(j) \/ Spawn(j) \/ RecordResolution(j)
           \/ Run(j) \/ Gate(j) \/ Fail(j)
  BY <1>0, <1>1, EntryOfActions
     DEF TypeOK, Start, Prepare, CheckCancelled, Spawn, RecordResolution, Run, Gate, Fail
<1>2. CASE Resolve(j) \/ RunContainer(j)
  <2>1. pc[j] \in {"resolve", "container"} /\ AfterContainer(j) \notin {"none", "dead", "idle", "record", "done"}
    BY <1>2, EntryOfActions DEF Resolve, RunContainer, AfterContainer
  <2>2. pc'[j] \in {"record", "container", AfterContainer(j)} /\ jobState' = jobState
    BY <1>0, <1>2 DEF TypeOK, Resolve, RunContainer
  <2>3. pc'[j] = "record" => loc'[j].seen = jobState[j]
    BY <1>0, <1>2, <2>1 DEF TypeOK, Resolve, RunContainer, Locals
  <2>4. QED
    BY <1>0, <2>1, <2>2, <2>3
<1>3. QED
  BY <1>1, <1>2

\* The helpers do not touch the record.
LEMMA HelperRecords ==
  ASSUME Inductive, Alone, NEW j \in Jobs,
         \/ PlanningStep(j) \/ ImplementationStep(j) \/ RepairStep(j)
         \/ PauseRead(j) \/ PauseWrite(j) \/ ApproveForCoding(j)
  PROVE  OwnRecord(j)
<1> USE DEF Go, Leave, Abort, task, records
<1>0. /\ j \in Procs /\ TypeOK /\ JobInv(j) /\ j \notin Requests
      /\ pc[j] \notin {"none", "done", "dead"} => jobState[j] \in Active
  BY AloneJob, ConfigAssumption DEF Inductive, Procs
<1> DEFINE Quiet == /\ pc[j] \in AtPlanning \cup AtImplementation \cup AtRepair \cup AtApproval
                    /\ jobState' = jobState
                    /\ pc'[j] \notin {"none", "dead", "idle", "record"}
<1>1. Quiet => OwnRecord(j)
  BY <1>0 DEF OwnRecord, AtPlanning, AtImplementation, AtRepair, AtApproval
<1> USE DEF AtPlanning, AtImplementation, AtRepair, AtApproval
<1>2. CASE PlanningStep(j)
  BY <1>0, <1>1, <1>2
     DEF TypeOK, PlanningStep, ChoosePlan, PutPlanned, PutFreshProgress,
         MovePlanned, AfterStep
<1>3. CASE ImplementationStep(j)
  BY <1>0, <1>1, <1>3
     DEF TypeOK, ImplementationStep, ImplementGate, ImplementReadPlan,
         ImplementStart, ImplementNothing, ImplementPutPlan,
         ImplementReadProgress, ImplementFinish, ImplementPutProgress, AfterStep
<1>4. CASE RepairStep(j)
  <2>1. CASE RepairRead(j)
    <3>1. RepairNothing(j) \/ Go(j, "repair.put")
      BY <2>1 DEF RepairRead
    <3>2. Quiet
      BY <1>0, <2>1, <3>1 DEF TypeOK, RepairRead, RepairNothing
    <3>3. QED
      BY <1>1, <3>2
  <2>2. CASE RepairPutPlan(j) \/ RepairReadProgress(j) \/ RepairPutProgress(j)
             \/ RepairMove(j)
    BY <1>0, <1>1, <2>2
       DEF TypeOK, RepairPutPlan, RepairReadProgress, RepairPutProgress, RepairMove
  <2>3. QED
    BY <1>4, <2>1, <2>2 DEF RepairStep
<1>5. CASE PauseRead(j) \/ PauseWrite(j)
  BY <1>0, <1>1, <1>5 DEF TypeOK, PauseRead, PauseWrite
<1>6. CASE ApproveForCoding(j)
  <2>1. pc[j] = "approve.mark" => loc[j].ret \notin {"none", "dead", "idle", "record"}
    BY <1>0 DEF JobInv, JobPlace, PipelineReturns, PlanningReturns, AtPipeline
  <2>2. QED
    BY <1>0, <1>1, <1>6, <2>1
       DEF TypeOK, ApproveForCoding, ApproveCheck, ApproveMove, ApproveMark
<1>7. QED
  BY <1>2, <1>3, <1>4, <1>5, <1>6

\* Nor does the pipeline, and the follow-up writes it last.
LEMMA FollowUpRecords ==
  ASSUME Inductive, Alone, NEW j \in Jobs,
         \/ PipelineStep(j) \/ Recheck(j) \/ CodedRead(j) \/ CodedNext(j)
         \/ ParkCheck(j) \/ Park(j) \/ PlannedRead(j) \/ PlannedNext(j)
         \/ PlannedChain(j) \/ Complete(j)
  PROVE  OwnRecord(j)
<1> USE DEF Go, Leave, Abort, task, records
<1>0. /\ j \in Procs /\ TypeOK /\ JobInv(j)
      /\ pc[j] \notin {"none", "done", "dead"} => jobState[j] \in Active
  BY AloneJob DEF Inductive, Procs
<1>1. CASE PipelineStep(j)
  <2>1. jobState' = jobState
    BY <1>1
       DEF PipelineStep, ReportRead, ReportWrite, StopIfCancelled,
           StopIfPaused, PipeBegin, PipeRead, PipeApprove, PipeBudget,
           PipeLoop, PipeNext, PipeStepped, PipeDrained, PipeCount, PipePark,
           PipeDefer, PipeClear
  <2>2. pc[j] \in AtPipeline
    BY <1>1
       DEF PipelineStep, ReportRead, ReportWrite, StopIfCancelled,
           StopIfPaused, PipeBegin, PipeRead, PipeApprove, PipeBudget,
           PipeLoop, PipeNext, PipeStepped, PipeDrained, PipeCount, PipePark,
           PipeDefer, PipeClear, AtPipeline
  <2>3. pc[j] \in {"report.put", "stop.paused"} =>
          loc[j].ret \in AtPipeline \cup {"resolve", "plan", "implement"}
    BY <1>0, <2>2 DEF JobInv, JobPlace, PipelineReturns
  <2>4. pc'[j] \in AtPipeline \cup {"resolve", "plan", "implement", "approve", "recheck"}
    BY <1>0, <1>1, <2>3
       DEF TypeOK, PipelineStep, ReportRead, ReportWrite, StopIfCancelled,
           StopIfPaused, PipeBegin, PipeRead, PipeApprove, PipeBudget,
           PipeLoop, PipeNext, PipeStepped, PipeDrained, PipeCount, PipePark,
           PipeDefer, PipeClear, Report, ReportStep, ReportAndFail, Check, AtPipeline
  <2>5. QED
    BY <1>0, <2>1, <2>2, <2>4 DEF OwnRecord, AtPipeline
<1>2. CASE \/ Recheck(j) \/ CodedRead(j) \/ CodedNext(j) \/ ParkCheck(j) \/ Park(j)
           \/ PlannedRead(j) \/ PlannedNext(j) \/ PlannedChain(j) \/ Complete(j)
  BY <1>0, <1>2
     DEF OwnRecord, TypeOK, Recheck, CodedRead, CodedNext, ParkCheck, Park,
         PlannedRead, PlannedNext, PlannedChain, Complete, FollowUp
<1>3. QED
  BY <1>1, <1>2

\* The job that steps is the one live job, or one that only completes: no
\* request is about to create or launch a job then.
LEMMA OwnStepKeepsAlone ==
  ASSUME Inductive, Alone, NEW j \in Jobs, OwnStep(j), OwnRecord(j)
  PROVE  Alone'
<1>0. j \in Procs /\ j \notin Requests /\ pc[j] \notin {"none", "done", "dead"}
         /\ jobState[j] \in Active
  BY AloneJob, ConfigAssumption DEF Procs, OwnRecord
<1>1. ASSUME NEW r \in Requests PROVE pc'[r] = pc[r] /\ loc'[r] = loc[r]
  BY <1>0 DEF OwnStep, Procs
<1>2. ASSUME NEW r \in Requests PROVE pc[r] \notin {"drag.create", "launch"}
  <2>1. pc[r] # "drag.create"
    BY <1>0 DEF Alone, JobIsActive
  <2>2. pc[r] = "launch" => j = loc[r].job
    BY <1>0 DEF Alone
  <2>3. pc[r] # "launch"
    BY <1>0, <2>2 DEF Inductive, RequestInv
  <2>4. QED
    BY <2>1, <2>3
<1>3. \A r, s \in Requests : ~Answered(r)' /\ ~Answered(s)' => r = s
  BY <1>1 DEF Alone, Answered
<1>4. ASSUME NEW k \in Jobs, Live(k)' PROVE Live(k)
  BY <1>4, <1>0 DEF Live, OwnStep, OwnRecord, Procs
<1>5. ASSUME NEW k \in Jobs
      PROVE  /\ pc'[k] \notin {"none", "done", "dead"} => jobState'[k] \in Active
             /\ pc'[k] = "record" => loc'[k].seen \in Active
             /\ pc'[k] # "idle"
  <2>1. CASE k = j
    BY <2>1 DEF OwnRecord
  <2>2. CASE k # j
    BY <2>2, AloneJob DEF OwnStep, Procs
  <2>3. QED
    BY <2>1, <2>2
<1>6. ASSUME NEW r \in Requests PROVE pc'[r] \notin AtRepair \cup {"cancel.put"}
  BY <1>1 DEF Alone
<1>7. QED
  BY <1>1, <1>2, <1>3, <1>4, <1>5, <1>6 DEF Alone

\* The chained job takes the place of the one that launches it.
LEMMA ChainKeepsAlone ==
  ASSUME Inductive, Alone, NEW j \in Jobs, Chain(j)
  PROVE  /\ Alone' /\ Live(j) /\ UNCHANGED task /\ pc'[j] = "complete"
         /\ \A k \in Jobs \ {j} : pc'[k] = pc[k] \/ pc'[k] = "start"
<1>0. /\ j \in Procs /\ j \notin Requests /\ TypeOK /\ pc[j] = "chain" /\ Live(j)
      /\ jobState[j] \in Active /\ "run-implementation" \in Actions \cup {"none"}
  BY AloneJob, ConfigAssumption DEF Inductive, Procs, Chain, Live, Actions
<1>1. CASE CreateJob("run-implementation")
           /\ pc' = [pc EXCEPT ![j] = "complete", ![NextJob] = "start"]
  <2> DEFINE k == NextJob
  <2>1. /\ k \in Jobs /\ jobState[k] = "none" /\ pc[k] = "none" /\ k # j
        /\ jobState' = [jobState EXCEPT ![k] = "queued"]
    BY <1>0, <1>1, CreationKeeps
  <2> HIDE DEF k
  <2>2. /\ pc'[j] = "complete" /\ pc'[k] = "start" /\ jobState'[k] = "queued"
        /\ \A q \in Procs \ {j, k} : pc'[q] = pc[q]
        /\ \A i \in Jobs \ {k} : jobState'[i] = jobState[i]
        /\ loc' = loc
    BY <1>0, <1>1, <2>1 DEF Chain, TypeOK, Procs, k
  <2>3. ASSUME NEW r \in Requests
        PROVE  pc'[r] = pc[r] /\ pc[r] \notin {"drag.create", "launch"} \cup AtRepair \cup {"cancel.put"}
    <3>1. pc[r] # "drag.create" /\ pc[r] \notin AtRepair \cup {"cancel.put"}
      BY <1>0 DEF Alone, JobIsActive
    <3>2. pc[r] = "launch" => j = loc[r].job
      BY <1>0 DEF Alone
    <3>3. pc[r] # "launch"
      BY <1>0, <3>2 DEF Inductive, RequestInv
    <3>4. QED
      BY <1>0, <2>1, <2>2, <3>1, <3>3, ConfigAssumption DEF Procs
  <2>4. ASSUME NEW i \in Jobs, Live(i)' PROVE i = k
    <3>1. i # j
      BY <2>2, <2>4 DEF Live
    <3>2. i # k => Live(i)
      BY <2>2, <2>4, <3>1 DEF Live, Procs
    <3>3. QED
      BY <1>0, <3>1, <3>2 DEF Alone
  <2>5. ASSUME NEW i \in Jobs
        PROVE  /\ pc'[i] \notin {"none", "done", "dead"} => jobState'[i] \in Active
               /\ pc'[i] = "record" => loc'[i].seen \in Active
               /\ pc'[i] # "idle"
    <3>1. CASE i = k
      BY <2>2, <3>1 DEF Active
    <3>2. CASE i = j
      BY <1>0, <2>1, <2>2, <3>2
    <3>3. CASE i \notin {j, k}
      BY <2>2, <3>3, AloneJob DEF Procs
    <3>4. QED
      BY <3>1, <3>2, <3>3
  <2>6. \A r, s \in Requests : ~Answered(r)' /\ ~Answered(s)' => r = s
    BY <2>3 DEF Alone, Answered
  <2>7. Alone'
    BY <2>3, <2>4, <2>5, <2>6 DEF Alone
  <2>8. QED
    BY <1>0, <2>2, <2>7 DEF Chain, Procs
<1>2. CASE Go(j, "complete") /\ UNCHANGED records
  <2>1. OwnStep(j) /\ OwnRecord(j)
    BY <1>0, <1>2 DEF OwnStep, OwnRecord, Chain, Go, records, TypeOK, Procs,
                      Active
  <2>2. pc'[j] = "complete" /\ \A k \in Jobs \ {j} : pc'[k] = pc[k]
    BY <1>0, <1>2 DEF Go, TypeOK, Procs
  <2>3. QED
    BY <1>0, <2>1, <2>2, OwnStepKeepsAlone DEF Chain
<1>3. QED
  BY <1>1, <1>2 DEF Chain

\* A step of a job: it keeps Alone, and only a live job touches the task.
LEMMA JobStepAlone ==
  ASSUME Inductive, Alone, NEW j \in Jobs, JobStep(j)
  PROVE  /\ Alone'
         /\ \A q \in Procs \ {j} :
              \/ pc'[q] = pc[q] /\ loc'[q] = loc[q] /\ op'[q] = op[q]
              \/ Live(j) /\ q \in Jobs /\ pc[q] = "none" /\ pc'[q] = "start"
         /\ Live(j) \/ (pc[j] = "complete" /\ pc'[j] = "done" /\ UNCHANGED task)
<1>1. CASE Chain(j)
  <2>1. \A q \in Procs \ {j} :
          \/ pc'[q] = pc[q] /\ op'[q] = op[q]
          \/ q \in Jobs /\ pc[q] = "none" /\ pc'[q] = "start"
    <3>1. CASE CreateJob("run-implementation")
               /\ pc' = [pc EXCEPT ![j] = "complete", ![NextJob] = "start"]
      <4>1. j \in Procs /\ "run-implementation" \in Actions \cup {"none"} /\ TypeOK
        BY DEF Procs, Actions, Inductive
      <4>2. NextJob \in Jobs /\ pc[NextJob] = "none"
        BY <3>1, <4>1, CreationKeeps
      <4>3. \A q \in Procs \ {NextJob} : op'[q] = op[q]
        BY <3>1, <4>1, <4>2 DEF CreateJob, TypeOK
      <4>4. QED
        BY <3>1, <4>1, <4>2, <4>3 DEF TypeOK, Procs
    <3>2. CASE Go(j, "complete") /\ UNCHANGED records
      BY <3>2 DEF Go, records, Inductive, TypeOK, Procs
    <3>3. QED
      BY <1>1, <3>1, <3>2 DEF Chain
  <2>2. loc' = loc
    BY <1>1 DEF Chain
  <2>3. QED
    BY <1>1, <2>1, <2>2, ChainKeepsAlone
<1>2. CASE ~Chain(j)
  <2>1. OwnStep(j) /\ OwnRecord(j)
    <3>1. Kept(j)
      BY <1>2, PlanningKeeps, ImplementationKeeps, RepairKeeps, ExecutorKeeps,
         FollowUpKeeps, PipelineKeeps, ApprovalKeeps
         DEF JobStep, ExecutorStep, Procs
    <3>2. OwnRecord(j)
      BY <1>2, ExecutorRecords, HelperRecords, FollowUpRecords
         DEF JobStep, ExecutorStep
    <3>3. QED
      BY <3>1, <3>2 DEF Kept
  <2>2. Live(j) \/ (pc[j] = "complete" /\ pc'[j] = "done" /\ UNCHANGED task)
    BY <2>1 DEF OwnRecord, Live
  <2>3. \A q \in Procs \ {j} : pc'[q] = pc[q] /\ loc'[q] = loc[q] /\ op'[q] = op[q]
    BY <2>1 DEF OwnStep
  <2>4. QED
    BY <2>1, <2>2, <2>3, OwnStepKeepsAlone
<1>3. QED
  BY <1>1, <1>2

-----------------------------------------------------------------------------
(* The steps of requests. *)

\* What a request leaves of the plan, the progress and the jobs.
Beside ==
  /\ UNCHANGED <<plan, prog>>
  /\ \A k \in Jobs :
       \/ pc'[k] = pc[k] /\ loc'[k] = loc[k] /\ op'[k] = op[k]
       \/ pc[k] \in {"none", "done"} /\ pc'[k] \in {"none", "start", "done"}
       \/ pc'[k] = "dead" /\ "crash" \in Offered

\* While a request is served, the others have not begun or have answered.
LEMMA OthersAnswered ==
  ASSUME Alone, Serial, NEW r \in Requests, RequestStep(r) \/ Request(r)
  PROVE  /\ \A s \in Requests \ {r} : Answered(s)
         /\ pc[r] \notin {"done", "dead"}
         /\ ~RepairStep(r) /\ ~CancelRead(r) /\ ~CancelWrite(r)
<1>1. CASE RequestStep(r)
  <2>1. pc[r] \notin {"idle", "done", "dead"}
    BY <1>1
       DEF RequestStep, Launch, DragPaused, DragList, DragCreate, CancelWrite,
           RepairStep, RepairRead, RepairPutPlan, RepairReadProgress,
           RepairPutProgress, RepairMove, ApproveForCoding, ApproveCheck,
           ApproveMove, ApproveMark
  <2>2. pc[r] \notin AtRepair \cup {"cancel.put"}
    BY DEF Alone
  <2>3. \A s \in Requests \ {r} : Answered(s)
    BY <2>1 DEF Alone, Answered
  <2>4. ~RepairStep(r) /\ ~CancelWrite(r)
    BY <2>2
       DEF CancelWrite, RepairStep, RepairRead, RepairPutPlan,
           RepairReadProgress, RepairPutProgress, RepairMove, AtRepair
  <2>5. ~CancelRead(r)
    BY <2>1 DEF CancelRead, Arrives
  <2>6. QED
    BY <2>1, <2>3, <2>4, <2>5
<1>2. CASE Request(r)
  <2>1. /\ pc[r] = "idle" /\ ~CancelRead(r)
        /\ \A s \in Requests : Answered(s)
    BY <1>2 DEF Request, PostJob, Drag, Approve, CancelRead, Crash, Arrives, Serial
  <2>2. ~RepairStep(r) /\ ~CancelWrite(r)
    BY <2>1
       DEF CancelWrite, RepairStep, RepairRead, RepairPutPlan,
           RepairReadProgress, RepairPutProgress, RepairMove
  <2>3. QED
    BY <2>1, <2>2
<1>3. QED
  BY <1>1, <1>2

\* A step of a request on its own behalf.
LEMMA AsideKeepsAlone ==
  ASSUME Inductive, Alone, NEW r \in Requests, \A s \in Requests \ {r} : Answered(s),
         OwnStep(r), jobState' = jobState,
         pc'[r] \notin AtRepair \cup {"cancel.put"}, pc'[r] = "drag.create" => ~JobIsActive
  PROVE  Alone' /\ \A k \in Jobs : pc'[k] = pc[k] /\ loc'[k] = loc[k] /\ op'[k] = op[k]
<1>1. /\ r \notin Jobs /\ pc'[r] # "launch"
      /\ \A q \in Procs \ {r} : pc'[q] = pc[q] /\ loc'[q] = loc[q]
      /\ op' = op
  BY ConfigAssumption DEF OwnStep
<1>2. ASSUME NEW k \in Jobs
      PROVE  pc'[k] = pc[k] /\ loc'[k] = loc[k] /\ op'[k] = op[k]
  BY <1>1 DEF Procs
<1>3. ASSUME NEW s \in Requests, s # r
      PROVE  Answered(s)' /\ pc'[s] = pc[s] /\ loc'[s] = loc[s]
  BY <1>1, <1>3 DEF Answered, Procs
<1>4. \A s, t \in Requests : ~Answered(s)' /\ ~Answered(t)' => s = t
  BY <1>3
<1>5. \A j, k \in Jobs : Live(j)' /\ Live(k)' => j = k
  BY <1>2 DEF Alone, Live
<1>6. ASSUME NEW k \in Jobs
      PROVE  /\ pc'[k] \notin {"none", "done", "dead"} => jobState'[k] \in Active
             /\ pc'[k] = "record" => loc'[k].seen \in Active
             /\ pc'[k] # "idle"
  BY <1>2, AloneJob
<1>7. JobIsActive' = JobIsActive
  BY DEF JobIsActive
<1>8. ASSUME NEW s \in Requests
      PROVE  /\ pc'[s] \notin AtRepair \cup {"cancel.put"}
             /\ pc'[s] = "drag.create" => ~JobIsActive'
             /\ pc'[s] # "launch"
  <2>1. CASE s = r
    BY <1>1, <1>7, <2>1
  <2>2. CASE s # r
    BY <1>3, <2>2 DEF Answered, AtRepair
  <2>3. QED
    BY <2>1, <2>2
<1>9. QED
  BY <1>2, <1>4, <1>5, <1>6, <1>8 DEF Alone

\* A request that creates a job found no active one.
LEMMA CreationKeepsAlone ==
  ASSUME Inductive, Alone, NEW r \in Requests, \A s \in Requests \ {r} : Answered(s),
         ~JobIsActive, NEW action \in Actions \cup {"none"}, CreateFor(r, action)
  PROVE  /\ Alone'
         /\ \A k \in Jobs : \/ pc'[k] = pc[k] /\ loc'[k] = loc[k] /\ op'[k] = op[k]
                            \/ pc[k] = "none" /\ pc'[k] = "none"
<1> DEFINE k == NextJob
<1>0. r \in Procs /\ r \notin Jobs /\ TypeOK
  BY ConfigAssumption DEF Inductive, Procs
<1>1. /\ k \in Jobs /\ jobState[k] = "none" /\ pc[k] = "none" /\ k # r
      /\ jobState' = [jobState EXCEPT ![k] = "queued"]
      /\ \A i \in Jobs \ {k} : op'[i] = op[i]
  BY <1>0, CreationKeeps DEF CreateFor
<1>2. /\ pc'[r] = "launch" /\ loc'[r].job = k
      /\ \A q \in Procs \ {r} : pc'[q] = pc[q] /\ loc'[q] = loc[q]
  BY <1>0 DEF CreateFor, TypeOK, Go, Locals
<1> HIDE DEF k
<1>3. /\ \A i \in Jobs : pc[i] \in {"none", "done", "dead"} /\ jobState[i] \notin Active
      /\ \A i \in Jobs : pc'[i] = pc[i] /\ loc'[i] = loc[i] /\ i \in Procs \ {r}
  BY <1>0, <1>2, AloneJob DEF JobIsActive, Procs
<1>4. \A i \in Jobs : jobState'[i] \in Active => i = k
  BY <1>1, <1>3 DEF Inductive, TypeOK
<1>5. ASSUME NEW s \in Requests, s # r PROVE Answered(s)'
  BY <1>2, <1>5 DEF Answered, Procs
<1>6. ASSUME NEW s \in Requests
      PROVE  /\ pc'[s] \notin AtRepair \cup {"cancel.put", "drag.create"}
             /\ pc'[s] = "launch" =>
                  \A i \in Jobs : jobState'[i] \in Active => i = loc'[s].job
  BY <1>2, <1>4, <1>5 DEF Answered, AtRepair
<1>7. /\ \A s, t \in Requests : ~Answered(s)' /\ ~Answered(t)' => s = t
      /\ \A i, j \in Jobs : Live(i)' /\ Live(j)' => i = j
  BY <1>3, <1>5 DEF Live
<1>8. \A i \in Jobs : pc'[i] \in {"none", "done", "dead"}
  BY <1>3
<1>9. Alone'
  BY <1>6, <1>7, <1>8 DEF Alone
<1>10. QED
  BY <1>1, <1>3, <1>9

\* Its goroutine is the only one.
LEMMA LaunchKeepsAlone ==
  ASSUME Inductive, Alone, NEW r \in Requests, \A s \in Requests \ {r} : Answered(s),
         Launch(r)
  PROVE  /\ Alone'
         /\ \A i \in Jobs : \/ pc'[i] = pc[i] /\ loc'[i] = loc[i] /\ op'[i] = op[i]
                            \/ pc[i] = "none" /\ pc'[i] = "start"
<1> DEFINE k == loc[r].job
<1>0. r \in Procs /\ r \notin Jobs /\ TypeOK /\ pc[r] = "launch"
  BY ConfigAssumption DEF Inductive, Procs, Launch
<1>1. /\ k \in Jobs /\ pc[k] = "none" /\ k # r
      /\ \A i \in Jobs : jobState[i] \in Active => i = k
  BY <1>0 DEF Inductive, RequestInv, Alone
<1>2. /\ pc'[r] = "done" /\ pc'[k] = "start" /\ jobState'[k] = "queued"
      /\ \A q \in Procs \ {r, k} : pc'[q] = pc[q]
      /\ \A q \in Procs \ {r} : loc'[q] = loc[q]
      /\ \A i \in Jobs \ {k} : jobState'[i] = jobState[i]
      /\ op' = op
  BY <1>0, <1>1 DEF Launch, UpdateJob, TypeOK, Procs
<1> HIDE DEF k
<1>3. ASSUME NEW i \in Jobs, i # k
      PROVE  pc[i] \in {"none", "done", "dead"} /\ pc'[i] = pc[i] /\ loc'[i] = loc[i]
  BY <1>0, <1>1, <1>2, <1>3, AloneJob DEF Procs
<1>4. ASSUME NEW s \in Requests PROVE Answered(s)'
  BY <1>0, <1>1, <1>2, ConfigAssumption DEF Answered, Procs
<1>5. /\ \A s, t \in Requests : ~Answered(s)' /\ ~Answered(t)' => s = t
      /\ \A i, j \in Jobs : Live(i)' /\ Live(j)' => i = j
  BY <1>3, <1>4 DEF Live
<1>6. ASSUME NEW i \in Jobs
      PROVE  /\ pc'[i] \notin {"none", "done", "dead"} => jobState'[i] \in Active
             /\ pc'[i] \notin {"record", "idle"}
  BY <1>2, <1>3 DEF Active
<1>7. \A s \in Requests :
        pc'[s] \notin AtRepair \cup {"cancel.put", "drag.create", "launch"}
  BY <1>4 DEF Answered, AtRepair
<1>8. Alone'
  BY <1>5, <1>6, <1>7 DEF Alone
<1>9. QED
  BY <1>1, <1>2, <1>3, <1>8

\* Every step of a request keeps Alone and leaves the files of the jobs.
LEMMA RequestStepAlone ==
  ASSUME Inductive, Alone, Serial, NEW r \in Requests, RequestStep(r) \/ Request(r)
  PROVE  Alone' /\ Beside
<1>0. /\ r \in Procs /\ r \notin Jobs /\ TypeOK
      /\ \A s \in Requests \ {r} : Answered(s)
      /\ ~RepairStep(r) /\ ~CancelRead(r) /\ ~CancelWrite(r)
  BY OthersAnswered, ConfigAssumption DEF Inductive, Procs
<1>1. CASE \/ DragPaused(r) \/ DragList(r) \/ Drag(r) \/ Approve(r)
           \/ ApproveForCoding(r)
           \/ (DragCreate(r) /\ Leave(r) /\ UNCHANGED records)
  <2>1. OwnStep(r)
    BY <1>0, <1>1, RequestKeeps, ApprovalKeeps DEF Kept
  <2>2. UNCHANGED <<jobState, plan, prog>>
    BY <1>1
       DEF DragPaused, DragList, Drag, Approve, DragCreate, ApproveForCoding,
           ApproveCheck, ApproveMove, ApproveMark, task, records
  <2>3. pc'[r] \notin AtRepair \cup {"cancel.put"}
    BY <1>0, <1>1
       DEF DragPaused, DragList, Drag, Approve, DragCreate, ApproveForCoding,
           ApproveCheck, ApproveMove, ApproveMark, Go, Leave, TypeOK, AtRepair
  <2>4. pc'[r] = "drag.create" => ~JobIsActive
    BY <1>0, <1>1
       DEF DragPaused, DragList, Drag, Approve, DragCreate, ApproveForCoding,
           ApproveCheck, ApproveMove, ApproveMark, Go, Leave, TypeOK
  <2>5. QED
    BY <1>0, <2>1, <2>2, <2>3, <2>4, AsideKeepsAlone DEF Beside
<1>2. CASE PostJob(r)
  <2>1. PICK action \in Actions : CreateFor(r, action)
    BY <1>2, EnvironmentAssumption DEF PostJob
  <2>2. ~JobIsActive
    BY <1>2 DEF PostJob, Serial
  <2>3. QED
    BY <1>0, <1>2, <2>1, <2>2, CreationKeepsAlone DEF Beside, PostJob, task
<1>3. CASE DragCreate(r) /\ CreateFor(r, loc[r].step)
  <2>1. loc[r].step \in Actions \cup {"none"} /\ ~JobIsActive
    BY <1>0, <1>3 DEF TypeOK, Locals, DragCreate, Alone
  <2>2. QED
    BY <1>0, <1>3, <2>1, CreationKeepsAlone DEF Beside, DragCreate, task
<1>4. CASE Launch(r)
  BY <1>0, <1>4, LaunchKeepsAlone DEF Beside, Launch, task
<1>5. CASE Crash(r)
  <2>1. /\ \A s \in Requests : pc'[s] \in {"idle", "done", "dead"}
        /\ \A j \in Jobs : pc'[j] \in {pc[j], "dead"}
        /\ \A j \in Jobs : pc'[j] \in {"none", "done", "dead"}
        /\ UNCHANGED <<jobState, op, plan, prog>> /\ "crash" \in Offered
    <3>1. \A j \in Jobs : j \in Procs \ {r} /\ pc[j] # "idle"
      BY <1>0, AloneJob DEF Procs
    <3>2. QED
      BY <1>0, <1>5, <3>1 DEF Crash, Arrives, Answered, task, records, TypeOK, Procs
  <2>2. Alone'
    BY <2>1 DEF Alone, Answered, Live, AtRepair
  <2>3. QED
    BY <2>1, <2>2 DEF Beside
<1>6. CASE DragCreate(r)
  BY <1>1, <1>3, <1>6 DEF DragCreate
<1>7. QED
  BY <1>0, <1>1, <1>2, <1>4, <1>5, <1>6 DEF RequestStep, Request

-----------------------------------------------------------------------------

\* The live job j steps: the other jobs have not begun or are through.
LiveStep(j) ==
  /\ Live(j) /\ JobStep(j)
  /\ \A k \in Jobs \ {j} : pc'[k] \in {"none", "start", "complete", "done", "dead"}
  /\ \A r \in Requests : pc'[r] = pc[r]

\* A job completes, or nothing happens.
Still ==
  /\ UNCHANGED task
  /\ \A q \in Procs : \/ pc'[q] = pc[q] /\ loc'[q] = loc[q] /\ op'[q] = op[q]
                      \/ q \in Jobs /\ pc[q] = "complete" /\ pc'[q] = "done"

\* The shape of a step when requests do not overlap.
LEMMA SerialShape ==
  ASSUME Inductive, Alone, Serial, [Next]_vars
  PROVE  /\ Alone'
         /\ \/ \E j \in Jobs : LiveStep(j)
            \/ \E r \in Requests : (RequestStep(r) \/ Request(r)) /\ Beside
            \/ Still
<1>1. ASSUME NEW j \in Jobs, JobStep(j)
      PROVE  Alone' /\ (LiveStep(j) \/ Still)
  <2>1. CASE Live(j)
    <3>1. ASSUME NEW k \in Jobs, k # j
          PROVE  pc'[k] \in {"none", "start", "complete", "done", "dead"}
      <4>1. ~Live(k)
        BY <2>1, <3>1 DEF Alone
      <4>2. QED
        BY <1>1, <3>1, <4>1, JobStepAlone DEF Live, Procs
    <3>2. \A r \in Requests : pc'[r] = pc[r]
      BY <1>1, JobStepAlone, ConfigAssumption DEF Procs
    <3>3. QED
      BY <1>1, <2>1, <3>1, <3>2, JobStepAlone DEF LiveStep
  <2>2. CASE ~Live(j)
    BY <1>1, <2>2, JobStepAlone DEF Still
  <2>3. QED
    BY <2>1, <2>2
<1>2. ASSUME NEW r \in Requests, RequestStep(r) \/ Request(r)
      PROVE  Alone' /\ Beside
  BY <1>2, RequestStepAlone
<1>3. ASSUME UNCHANGED vars PROVE Alone' /\ Still
  <2>1. Still
    BY <1>3 DEF vars, Still, task
  <2>2. UNCHANGED <<jobState, pc, loc>>
    BY <1>3 DEF vars
  <2>3. Alone'
    BY <2>2 DEF Alone, Answered, Live, JobIsActive
  <2>4. QED
    BY <2>1, <2>3
<1>4. QED
  BY <1>1, <1>2, <1>3 DEF Next, Finished

\* At the beginning nothing runs.
LEMMA InitAlone == Init => Alone
<1> SUFFICES ASSUME Init PROVE Alone
  OBVIOUS
<1>1. /\ \A j \in Jobs : pc[j] = "none" /\ jobState[j] = "none"
      /\ \A r \in Requests : pc[r] = "idle"
  BY ConfigAssumption DEF Init, Procs
<1>2. QED
  BY <1>1 DEF Alone, Answered, Live, AtRepair

\* When requests are served one at a time, jobs are posted only for a quiet
\* task and none is cancelled, drags, chains and pipelines never put two jobs
\* to work on the same plan, progress and card: the gate of a drag and the
\* chaining at the end of a job are enough, crashes and faults included.
THEOREM OneWriterAtATime ==
  ASSUME Serial
  PROVE  Spec => []OneWriter
<1>1. Init => Alone
  BY InitAlone
<1>2. Inductive /\ Alone /\ [Next]_vars => Alone'
  BY SerialShape
<1>3. Alone => OneWriter
  BY DEF Alone, OneWriter, Live, Writing
<1>4. QED
  BY <1>1, <1>2, <1>3, InductiveInvariant, PTL DEF Spec

-----------------------------------------------------------------------------
(* Current: what the live job holds is what the files say.                 *)

\* The labels at which a job relies on what it read, or on where it returns.
Claiming ==
  {"report", "report.put", "stop", "stop.paused", "approve", "approve.move",
   "approve.mark", "implement.start", "implement.idle", "implement.put",
   "implement.progress", "implement.finish", "implement.report", "coded.next",
   "pipe.clear", "pause.put", "pipe.park", "park", "park.move", "repair.put",
   "repair.progress", "repair.report", "repair.move"}

\* At any other label there is nothing to keep.
LEMMA NothingClaimed ==
  ASSUME NEW j \in Jobs, pc'[j] \notin Claiming
  PROVE  Current(j)'
  BY DEF Claiming, Current, Returns, ParksNext, AtApproval

\* Nor does anything change when the job and the files do not.
LEMMA CurrentFrame ==
  ASSUME NEW j \in Jobs, Current(j), plan' = plan, prog' = prog,
         pc'[j] = pc[j], loc'[j] = loc[j], op'[j] = op[j]
  PROVE  Current(j)'
  BY DEF Current, Returns, ParksNext, RepairsCurrent, IsStuck, ClosedBefore

\* From the queue to the helpers, and planning.
LEMMA ExecutorCurrent ==
  ASSUME Inductive, NEW j \in Jobs,
         \/ Start(j) \/ Prepare(j) \/ CheckCancelled(j) \/ Spawn(j) \/ Resolve(j)
         \/ RecordResolution(j) \/ RunContainer(j) \/ Run(j) \/ Gate(j) \/ Fail(j)
         \/ PlanningStep(j)
  PROVE  Current(j)'
<1>0. j \in Procs /\ TypeOK
  BY DEF Inductive, Procs
<1>1. AfterContainer(j) \in {"plan", "implement", "pipe", "pause", "repair", "run"}
  BY EntryOfActions DEF AfterContainer
<1>2. pc'[j] \notin Claiming
  <2>1. CASE PlanningStep(j)
    BY <1>0, <2>1
       DEF TypeOK, PlanningStep, ChoosePlan, PutPlanned, PutFreshProgress,
           MovePlanned, AfterStep, Go, Claiming
  <2>2. CASE \/ Start(j) \/ Prepare(j) \/ CheckCancelled(j) \/ Spawn(j) \/ Resolve(j)
             \/ RecordResolution(j) \/ RunContainer(j) \/ Run(j) \/ Gate(j) \/ Fail(j)
    BY <1>0, <1>1, <2>2, EntryOfActions
       DEF TypeOK, Start, Prepare, CheckCancelled, Spawn, Resolve,
           RecordResolution, RunContainer, Run, Gate, Fail, Leave, Go, Claiming
  <2>3. QED
    BY <2>1, <2>2
<1>3. QED
  BY <1>2, NothingClaimed

\* Implementation writes the plan and the progress it read.
LEMMA ImplementationCurrent ==
  ASSUME Inductive, NEW j \in Jobs, Current(j), ImplementationStep(j)
  PROVE  Current(j)'
<1>0. j \in Procs /\ TypeOK
  BY DEF Inductive, Procs
<1> USE DEF Go, MoveTask, Abort, task, records
<1>1. CASE \/ ImplementGate(j) \/ ImplementNothing(j) \/ ImplementPutProgress(j)
  BY <1>0, <1>1, NothingClaimed
     DEF TypeOK, ImplementGate, ImplementNothing, ImplementPutProgress,
         AfterStep, Claiming
<1> USE DEF Current, Returns, ParksNext, AtApproval
<1>2. CASE ImplementReadPlan(j)
  <2>1. \/ pc'[j] = "implement.start" /\ loc'[j].plan = plan /\ plan' = plan /\ plan # << >>
        \/ pc'[j] \notin Claiming
    BY <1>0, <1>2 DEF TypeOK, ImplementReadPlan, AfterStep, Claiming, Locals
  <2>2. QED
    BY <2>1, NothingClaimed
<1>3. CASE ImplementStart(j)
  <2>1. loc[j].plan = plan /\ plan # << >> /\ plan' = plan /\ loc' = loc /\ plan \in Plans
    BY <1>0, <1>3 DEF ImplementStart, TypeOK
  <2>2. pc'[j] = IF Pickable(plan) THEN "implement.put" ELSE "implement.idle"
    BY <1>0, <1>3, <2>1 DEF TypeOK, ImplementStart
  <2>3. Pickable(plan)' <=> Pickable(plan)
    BY <2>1 DEF Pickable
  <2>4. QED
    BY <2>1, <2>2, <2>3
<1>4. CASE ImplementPutPlan(j)
  <2>1. /\ pc'[j] = "implement.progress" /\ loc'[j].plan = plan'
        /\ plan' = CompleteFirst(plan) /\ plan # << >> /\ Pickable(plan)
    BY <1>0, <1>4 DEF TypeOK, ImplementPutPlan, Locals
  <2>2. plan' # << >>
    <3>1. plan \in Plans /\ FirstOpen(plan) \in Positions(plan)
      BY <1>0, <2>1, FirstOpenIsFirst DEF TypeOK, OpenSubtasks, Pickable
    <3>2. DOMAIN plan' = DOMAIN plan /\ DOMAIN plan # {}
      BY <2>1, <3>1, SetStatusChangesOne DEF CompleteFirst, SameShape, Positions
    <3>3. QED
      BY <3>2
  <2>3. QED
    BY <2>1, <2>2
<1>5. CASE ImplementReadProgress(j)
  <2>1. /\ pc'[j] = IF AllDone(plan) THEN "implement.finish" ELSE "implement.report"
        /\ loc'[j].prog = prog /\ plan' = plan /\ prog' = prog /\ plan # << >>
    BY <1>0, <1>5 DEF TypeOK, ImplementReadProgress, Locals
  <2>2. QED
    BY <2>1
<1>6. CASE ImplementFinish(j)
  <2>1. pc'[j] = "implement.report" /\ loc'[j].prog = prog' /\ loc[j].prog = prog
    BY <1>0, <1>6 DEF TypeOK, ImplementFinish
  <2>2. QED
    BY <2>1
<1>7. QED
  BY <1>1, <1>2, <1>3, <1>4, <1>5, <1>6 DEF ImplementationStep

\* A repair writes the plan it computed from the file, and then its mark.
LEMMA RepairCurrent ==
  ASSUME Inductive, NEW j \in Jobs, Current(j), RepairStep(j)
  PROVE  Current(j)'
<1>0. /\ j \in Procs /\ TypeOK /\ j \notin Requests
      /\ plan \in Plans /\ loc[j] \in Locals
  BY ConfigAssumption DEF Inductive, Procs, TypeOK
<1> USE DEF Go, MoveTask, Abort, task, records
<1>1. CASE RepairRead(j)
  <2>1. PICK n \in IF op[j] = "skip-to-phase" THEN 1..(Len(plan) + 1) ELSE {1} :
          IF Repairable(j, n)
          THEN /\ loc' = [loc EXCEPT ![j].plan = RepairsTo(j, n),
                                     ![j].n = n,
                                     ![j].prog = [NoProgress EXCEPT
                                                    !.stuck = FirstOpen(plan)]]
               /\ Go(j, "repair.put")
          ELSE RepairNothing(j)
    BY <1>1 DEF RepairRead
  <2>2. CASE ~Repairable(j, n)
    <3>1. pc'[j] \notin Claiming
      BY <1>0, <2>1, <2>2 DEF RepairNothing, TypeOK, Claiming
    <3>2. QED
      BY <3>1, NothingClaimed
  <2>3. CASE Repairable(j, n)
    <3>1. /\ pc'[j] = "repair.put" /\ loc'[j].plan = RepairsTo(j, n) /\ loc'[j].n = n
          /\ loc'[j].prog.stuck = FirstOpen(plan) /\ plan' = plan /\ op' = op
      BY <1>0, <1>1, <2>1, <2>3 DEF TypeOK, Locals, NoProgress, RepairRead
    <3>2. RepairsCurrent(j)'
      BY <2>3, <3>1 DEF RepairsCurrent, RepairsTo, Repairable
    <3>3. QED
      BY <3>1, <3>2 DEF Current, Returns, ParksNext, AtApproval
  <2>4. QED
    BY <2>2, <2>3
<1>2. CASE RepairPutPlan(j)
  <2>1. /\ pc[j] = "repair.put" /\ plan' = loc[j].plan /\ loc' = loc /\ op' = op
        /\ pc'[j] = "repair.progress"
    BY <1>0, <1>2 DEF TypeOK, RepairPutPlan
  <2>2. RepairsCurrent(j)
    BY <2>1 DEF Current
  <2>3. op[j] = "skip-to-phase" => ClosedBefore(loc[j].n)'
    <3> SUFFICES ASSUME op[j] = "skip-to-phase" PROVE ClosedBefore(loc[j].n)'
      OBVIOUS
    <3> DEFINE n == loc[j].n
    <3>1. n \in DOMAIN plan /\ plan' = SkippedTo(plan, n)
      BY <2>1, <2>2 DEF RepairsCurrent
    <3>2. /\ n \in DOMAIN plan' /\ Positions(plan') = Positions(plan)
          /\ n \in Nat
      BY <1>0, <3>1, SkippedToChanges, SameShapeSamePositions, PlansAreSequences
         DEF SameShape
    <3>3. ASSUME NEW x \in OpenSubtasks(plan') PROVE x[1] >= n
      <4>1. x \in Positions(plan) /\ StatusAt(plan', x) \in Unfinished
        BY <3>2, <3>3 DEF OpenSubtasks
      <4>2. x[1] \in Nat
        BY <1>0, <4>1, PositionsAreNumbers
      <4>3. ~(x[1] < n)
        BY <1>0, <3>1, <4>1, SkippedToChanges DEF Unfinished
      <4>4. QED
        BY <3>2, <4>2, <4>3
    <3>4. QED
      BY <2>1, <3>2, <3>3 DEF ClosedBefore
  <2>4. op[j] \notin {"recover-subtask", "skip-to-phase"} => IsStuck(loc[j].prog.stuck)'
    <3> SUFFICES ASSUME op[j] \notin {"recover-subtask", "skip-to-phase"}
                 PROVE  IsStuck(loc[j].prog.stuck)'
      OBVIOUS
    <3> DEFINE x == FirstOpen(plan)
    <3>1. x # NoSubtask /\ plan' = SetStatus(plan, x, "stuck") /\ loc'[j].prog.stuck = x
      BY <2>1, <2>2 DEF RepairsCurrent, MarkFirstStuck, Pickable
    <3>2. x \in Positions(plan)
      BY <1>0, <3>1, FirstOpenIsFirst DEF OpenSubtasks
    <3> HIDE DEF x
    <3>3. StatusAt(plan', x) = "stuck" /\ Positions(plan') = Positions(plan)
      BY <1>0, <3>1, <3>2, SetStatusChangesOne, SameShapeSamePositions
    <3>4. QED
      BY <3>1, <3>2, <3>3 DEF IsStuck
  <2>5. QED
    BY <2>1, <2>3, <2>4 DEF Current, Returns, ParksNext, AtApproval
<1>3. CASE RepairReadProgress(j)
  <2>1. /\ pc[j] = "repair.progress" /\ pc'[j] = "repair.report"
        /\ plan' = plan /\ op' = op
        /\ loc'[j].plan = loc[j].plan /\ loc'[j].n = loc[j].n
        /\ loc'[j].prog = Marked(j, prog)
    BY <1>0, <1>3 DEF TypeOK, RepairReadProgress, Locals
  <2>2. /\ op[j] \in {"recover-subtask", "skip-to-phase"} => loc'[j].prog.stuck = NoSubtask
        /\ op[j] \notin {"recover-subtask", "skip-to-phase"} =>
             loc'[j].prog.stuck = loc[j].prog.stuck
    BY <1>0, <2>1 DEF Marked, NoProgress, TypeOK, Progress
  <2>3. QED
    BY <2>1, <2>2 DEF Current, Returns, ParksNext, AtApproval, ClosedBefore, IsStuck
<1>4. CASE RepairPutProgress(j)
  <2>1. /\ pc[j] = "repair.report" /\ pc'[j] = "repair.move"
        /\ plan' = plan /\ op' = op /\ loc' = loc
    BY <1>0, <1>4 DEF TypeOK, RepairPutProgress
  <2>2. QED
    BY <2>1 DEF Current, Returns, ParksNext, AtApproval, ClosedBefore
<1>5. CASE RepairMove(j)
  BY <1>0, <1>5, NothingClaimed DEF TypeOK, RepairMove, Claiming
<1>6. QED
  BY <1>1, <1>2, <1>3, <1>4, <1>5 DEF RepairStep

\* Pause and resume, the approval and the follow-up.
LEMMA FollowUpCurrent ==
  ASSUME Inductive, NEW j \in Jobs, Current(j),
         \/ PauseRead(j) \/ PauseWrite(j) \/ ApproveForCoding(j) \/ Recheck(j)
         \/ CodedRead(j) \/ CodedNext(j) \/ ParkCheck(j) \/ Park(j)
         \/ PlannedRead(j) \/ PlannedNext(j) \/ PlannedChain(j) \/ Complete(j)
         \/ Chain(j)
  PROVE  Current(j)'
<1>0. j \in Procs /\ TypeOK /\ JobInv(j) /\ j \notin Requests
  BY ConfigAssumption DEF Inductive, Procs
<1> USE DEF Go, Leave, MoveTask, Abort, task, records
<1>1. CASE PauseWrite(j) \/ Recheck(j) \/ Park(j) \/ PlannedRead(j) \/ PlannedChain(j)
           \/ Complete(j) \/ Chain(j)
  <2>1. CASE Chain(j)
    <3>1. pc'[j] \in {"complete", "start"}
      BY <1>0, <2>1 DEF Chain, TypeOK
    <3>2. QED
      BY <3>1, NothingClaimed DEF Claiming
  <2>2. CASE ~Chain(j)
    BY <1>0, <1>1, <2>2, NothingClaimed
       DEF TypeOK, PauseWrite, Recheck, FollowUp, Park, PlannedRead,
           PlannedChain, Complete, Claiming
  <2>3. QED
    BY <2>1, <2>2
<1> USE DEF Current, Returns, ParksNext, AtApproval
<1>2. CASE PauseRead(j)
  <2>1. \/ pc'[j] = "pause.put" /\ loc'[j].prog = prog'
        \/ pc'[j] = "recheck"
    BY <1>0, <1>2 DEF TypeOK, PauseRead, Locals
  <2>2. QED
    BY <2>1
<1>3. CASE ApproveForCoding(j)
  <2>1. CASE ApproveCheck(j)
    <3>1. \/ pc'[j] = "approve.move" /\ loc' = loc
          \/ pc'[j] \notin Claiming
      BY <1>0, <2>1 DEF TypeOK, ApproveCheck, Claiming
    <3>2. pc[j] = "approve"
      BY <2>1 DEF ApproveCheck
    <3>3. QED
      BY <3>1, <3>2, NothingClaimed
  <2>2. CASE ApproveMove(j)
    BY <1>0, <2>2 DEF TypeOK, ApproveMove
  <2>3. CASE ApproveMark(j)
    BY <1>0, <2>3, NothingClaimed DEF TypeOK, ApproveMark, Claiming
  <2>4. QED
    BY <1>3, <2>1, <2>2, <2>3 DEF ApproveForCoding
<1>4. CASE CodedRead(j)
  <2>1. pc'[j] = "coded.next" /\ loc'[j].plan = plan'
    BY <1>0, <1>4 DEF TypeOK, CodedRead, Locals
  <2>2. QED
    BY <2>1
<1>5. CASE CodedNext(j)
  <2>1. /\ loc[j].plan = plan /\ plan' = plan
        /\ pc'[j] \in {"complete", "chain", "park"}
        /\ pc'[j] = "park" => AllCodingComplete(loc[j].plan)
    BY <1>0, <1>5 DEF TypeOK, CodedNext
  <2>2. QED
    BY <2>1
<1>6. CASE ParkCheck(j)
  <2>1. pc[j] = "park" /\ pc'[j] \in {"complete", "park.move"} /\ plan' = plan
    BY <1>0, <1>6 DEF TypeOK, ParkCheck
  <2>2. QED
    BY <2>1
<1>7. CASE PlannedNext(j)
  <2>1. /\ pc[j] = "planned.next" /\ loc' = loc
        /\ pc'[j] \in {"complete", "planned.chain", "approve"}
    BY <1>0, <1>7 DEF TypeOK, PlannedNext
  <2>2. loc[j].ret = "planned.chain"
    BY <1>0, <2>1 DEF JobInv, JobPlace, PlanningReturns, IsPipeline, Planning
  <2>3. QED
    BY <2>1, <2>2
<1>8. QED
  BY <1>1, <1>2, <1>3, <1>4, <1>5, <1>6, <1>7

\* The pipeline reads the progress it writes back, and counts the plan before
\* it parks the card.
LEMMA PipelineCurrent ==
  ASSUME Inductive, NEW j \in Jobs, Current(j), PipelineStep(j)
  PROVE  Current(j)'
<1>0. j \in Procs /\ TypeOK /\ loc[j] \in Locals
  BY DEF Inductive, Procs, TypeOK
<1> USE DEF Go, MoveTask, Abort, task, records
<1>1. {Dispatch("run-planning"), Dispatch("run-implementation")}
        \subseteq {"resolve", "plan", "implement"}
  <2>1. {Entry("run-planning"), Entry("run-implementation")} \subseteq {"plan", "implement"}
    BY EntryOfActions DEF Agents, Planning
  <2>2. QED
    BY <2>1 DEF Dispatch
<1>2. CASE PipeBudget(j) \/ PipeClear(j)
  BY <1>0, <1>2, NothingClaimed DEF TypeOK, PipeBudget, PipeClear, Claiming
<1> USE DEF Current, Returns, ParksNext, AtApproval
<1>3. CASE ReportRead(j)
  <2>1. /\ pc[j] = "report" /\ pc'[j] = "report.put" /\ loc'[j].prog = prog'
        /\ loc'[j].ret = loc[j].ret /\ plan' = plan
    BY <1>0, <1>3 DEF TypeOK, ReportRead, Locals
  <2>2. QED
    BY <2>1
<1>4. CASE ReportWrite(j)
  <2>1. pc[j] = "report.put" /\ pc'[j] = loc[j].ret /\ plan' = plan
    BY <1>0, <1>4 DEF TypeOK, ReportWrite
  <2>2. QED
    BY <2>1
<1>5. CASE StopIfCancelled(j) \/ StopIfPaused(j)
  <2>1. pc[j] \in {"stop", "stop.paused"}
        /\ \/ pc'[j] = "pipe.defer"
           \/ pc'[j] \in {"stop.paused", loc[j].ret} /\ loc' = loc
    BY <1>0, <1>5 DEF TypeOK, StopIfCancelled, StopIfPaused
  <2>2. QED
    BY <2>1
<1>6. ASSUME NEW ret, Report(j, ret)
      PROVE  pc'[j] = "report" /\ loc'[j].ret = ret
  BY <1>0, <1>6 DEF TypeOK, Report, Locals
<1>7. ASSUME NEW ret, Check(j, ret)
      PROVE  pc'[j] = "stop" /\ loc'[j].ret = ret
  BY <1>0, <1>7 DEF TypeOK, Check, Locals
<1>8. ASSUME NEW action, ReportStep(j, action)
      PROVE  pc'[j] = "report" /\ loc'[j].ret = Dispatch(action)
  BY <1>0, <1>8 DEF TypeOK, ReportStep, Locals
<1>9. ASSUME ReportAndFail(j)
      PROVE  pc'[j] = "report" /\ loc'[j].ret = "pipe.defer"
  BY <1>0, <1>9 DEF TypeOK, ReportAndFail, Locals
<1>10. CASE PipeBegin(j)
  BY <1>6, <1>10 DEF PipeBegin
<1>11. CASE PipeRead(j)
  <2>1. \/ ReportStep(j, "run-planning")
        \/ pc'[j] = "pipe.approve"
    BY <1>0, <1>11 DEF TypeOK, PipeRead
  <2>2. QED
    BY <1>1, <1>8, <2>1
<1>12. CASE PipeApprove(j)
  <2>1. pc'[j] \in {"approve", "pipe.budget"} /\ loc'[j].ret = "pipe.budget"
    BY <1>0, <1>12 DEF TypeOK, PipeApprove, Locals
  <2>2. QED
    BY <2>1
<1>13. CASE PipeLoop(j)
  <2>1. pc'[j] = "pipe.drained" \/ Check(j, "pipe.next")
    BY <1>0, <1>13 DEF TypeOK, PipeLoop
  <2>2. QED
    BY <1>7, <2>1
<1>14. CASE PipeNext(j)
  <2>1. pc'[j] = "pipe.drained" \/ ReportStep(j, "run-implementation")
    BY <1>0, <1>14 DEF TypeOK, PipeNext
  <2>2. QED
    BY <1>1, <1>8, <2>1
<1>15. CASE PipeStepped(j)
  <2>1. pc'[j] \in {"pipe.defer", "pipe.loop"} \/ Check(j, "pipe.approve")
    BY <1>0, <1>15 DEF TypeOK, PipeStepped
  <2>2. QED
    BY <1>7, <2>1
<1>16. CASE PipeDrained(j)
  <2>1. ReportAndFail(j) \/ Check(j, "pipe.count")
    BY <1>16 DEF PipeDrained
  <2>2. QED
    BY <1>7, <1>9, <2>1
<1>17. CASE PipeCount(j)
  <2>1. /\ plan' = plan
        /\ \/ ReportAndFail(j)
           \/ Positions(plan) # {} /\ AllDone(plan) /\ Report(j, "pipe.park")
    BY <1>17 DEF PipeCount
  <2>2. QED
    BY <1>6, <1>9, <2>1
<1>18. CASE PipePark(j)
  <2>1. pc'[j] = "report" /\ loc'[j].ret = "pipe.defer"
    BY <1>0, <1>18 DEF TypeOK, PipePark, Locals
  <2>2. QED
    BY <2>1
<1>19. CASE PipeDefer(j)
  <2>1. \/ pc'[j] = "pipe.clear" /\ loc'[j].prog = prog'
        \/ pc'[j] = "recheck"
    BY <1>0, <1>19 DEF TypeOK, PipeDefer, Locals
  <2>2. QED
    BY <2>1
<1>20. QED
  BY <1>2, <1>3, <1>4, <1>5, <1>10, <1>11, <1>12, <1>13, <1>14, <1>15, <1>16,
     <1>17, <1>18, <1>19
     DEF PipelineStep

\* Every step of a job keeps what it relies on.
LEMMA OwnStepCurrent ==
  ASSUME Inductive, NEW j \in Jobs, Current(j), JobStep(j)
  PROVE  Current(j)'
<1>1. j \in Procs
  BY DEF Procs
<1>2. QED
  BY <1>1, ExecutorCurrent, ImplementationCurrent, RepairCurrent,
     FollowUpCurrent, PipelineCurrent
     DEF JobStep, ExecutorStep

\* No other step disturbs it: nobody else writes the files meanwhile.
LEMMA SerialStep ==
  ASSUME SerialInv, Serial, [Next]_vars
  PROVE  SerialInv'
<1>1. Inductive'
  BY NextInductive DEF SerialInv
<1>2. Alone'
  BY SerialShape DEF SerialInv
<1>3. ASSUME NEW k \in Jobs PROVE Current(k)'
  <2>0. k \in Procs /\ Current(k)
    BY DEF Procs, SerialInv
  <2>1. CASE \E j \in Jobs : LiveStep(j)
    <3>1. PICK j \in Jobs : LiveStep(j)
      BY <2>1
    <3>2. CASE k = j
      BY <3>1, <3>2, OwnStepCurrent DEF LiveStep, SerialInv
    <3>3. CASE k # j
      BY <3>1, <3>3, NothingClaimed DEF LiveStep, Claiming
    <3>4. QED
      BY <3>2, <3>3
  <2>2. CASE Beside
    <3>1. CASE pc'[k] = pc[k] /\ loc'[k] = loc[k] /\ op'[k] = op[k]
      BY <2>0, <2>2, <3>1, CurrentFrame DEF Beside
    <3>2. CASE pc'[k] \in {"none", "start", "done", "dead"}
      BY <3>2, NothingClaimed DEF Claiming
    <3>3. QED
      BY <2>2, <3>1, <3>2 DEF Beside
  <2>3. CASE Still
    <3>1. CASE pc'[k] = pc[k] /\ loc'[k] = loc[k] /\ op'[k] = op[k]
      BY <2>0, <2>3, <3>1, CurrentFrame DEF Still, task
    <3>2. CASE pc'[k] = "done"
      BY <3>2, NothingClaimed DEF Claiming
    <3>3. QED
      BY <2>0, <2>3, <3>1, <3>2 DEF Still
  <2>4. QED
    BY <2>1, <2>2, <2>3, SerialShape DEF SerialInv
<1>4. QED
  BY <1>1, <1>2, <1>3 DEF SerialInv

\* A job that has read nothing relies on nothing.
LEMMA InitSerial == Init => SerialInv
<1>1. Init => \A j \in Jobs : pc[j] \notin Claiming
  BY DEF Init, Procs, Claiming
<1>2. \A j \in Jobs : pc[j] \notin Claiming => Current(j)
  BY DEF Claiming, Current, Returns, ParksNext, AtApproval
<1>3. QED
  BY <1>1, <1>2, InitInductive, InitAlone DEF SerialInv

\* When requests do not overlap, a job's copy of the plan and of the progress
\* is the file's from the read to the write it is made for: the helpers read
\* and write the files in separate sections, and nobody comes between.
THEOREM SerialInvariant ==
  ASSUME Serial
  PROVE  Spec => []SerialInv
<1>1. Init => SerialInv
  BY InitSerial
<1>2. SerialInv /\ [Next]_vars => SerialInv'
  BY SerialStep
<1>3. QED
  BY <1>1, <1>2, PTL DEF Spec

-----------------------------------------------------------------------------
(* What the jobs write.                                                    *)

\* The steps of a job that write the plan, the progress, the card's column
\* and the approval: no other step touches them.
LEMMA JobWrites ==
  ASSUME NEW j \in Jobs, JobStep(j)
  PROVE  /\ plan' = plan \/ PutPlanned(j) \/ ImplementPutPlan(j) \/ RepairPutPlan(j)
         /\ \/ prog' = prog
            \/ PutFreshProgress(j) \/ ImplementPutProgress(j) \/ PauseWrite(j)
            \/ RepairPutProgress(j) \/ ReportWrite(j) \/ PipeClear(j)
         /\ \/ status' = status
            \/ MovePlanned(j) \/ ImplementStart(j) \/ ImplementNothing(j)
            \/ ImplementFinish(j) \/ RepairMove(j) \/ Park(j) \/ PipePark(j)
            \/ ApproveMove(j)
         /\ approved' = approved \/ ApproveMark(j)
<1> USE DEF task
<1>1. CASE \/ Start(j) \/ Prepare(j) \/ CheckCancelled(j) \/ Spawn(j) \/ Resolve(j)
           \/ RecordResolution(j) \/ RunContainer(j) \/ Run(j) \/ Gate(j) \/ Fail(j)
  BY <1>1
     DEF Start, Prepare, CheckCancelled, Spawn, Resolve, RecordResolution,
         RunContainer, Run, Gate, Fail
<1>2. CASE PlanningStep(j) \/ ImplementationStep(j)
  BY <1>2
     DEF PlanningStep, ChoosePlan, PutPlanned, PutFreshProgress, MovePlanned,
         ImplementationStep, ImplementGate, ImplementReadPlan, ImplementStart,
         ImplementNothing, ImplementPutPlan, ImplementReadProgress,
         ImplementFinish, ImplementPutProgress
<1>3. CASE RepairStep(j) \/ PauseRead(j) \/ PauseWrite(j) \/ ApproveForCoding(j)
  BY <1>3
     DEF RepairStep, RepairRead, RepairPutPlan, RepairReadProgress,
         RepairPutProgress, RepairMove, PauseRead, PauseWrite,
         ApproveForCoding, ApproveCheck, ApproveMove, ApproveMark
<1>4. CASE \/ Recheck(j) \/ CodedRead(j) \/ CodedNext(j) \/ ParkCheck(j) \/ Park(j)
           \/ PlannedRead(j) \/ PlannedNext(j) \/ PlannedChain(j) \/ Chain(j)
           \/ Complete(j)
  BY <1>4
     DEF Recheck, CodedRead, CodedNext, ParkCheck, Park, PlannedRead,
         PlannedNext, PlannedChain, Chain, Complete
<1>5. CASE PipelineStep(j)
  BY <1>5
     DEF PipelineStep, ReportRead, ReportWrite, StopIfCancelled, StopIfPaused,
         PipeBegin, PipeRead, PipeApprove, PipeBudget, PipeLoop, PipeNext,
         PipeStepped, PipeDrained, PipeCount, PipePark, PipeDefer, PipeClear
<1>6. QED
  BY <1>1, <1>2, <1>3, <1>4, <1>5 DEF JobStep, ExecutorStep

\* An implementation completes the first open subtask of the plan as it is.
LEMMA ImplementationCompletes ==
  ASSUME SerialInv, NEW j \in Jobs, ImplementPutPlan(j)
  PROVE  /\ FirstOpen(plan) \in OpenSubtasks(plan) /\ SameShape(plan, plan')
         /\ StatusAt(plan', FirstOpen(plan)) = "completed"
         /\ \A x \in Positions(plan) \ {FirstOpen(plan)} :
              StatusAt(plan', x) = StatusAt(plan, x)
<1>1. /\ plan \in Plans /\ Pickable(plan)
      /\ plan' = SetStatus(plan, FirstOpen(plan), "completed")
  BY DEF SerialInv, Inductive, TypeOK, Current, ImplementPutPlan, CompleteFirst
<1>2. FirstOpen(plan) \in OpenSubtasks(plan) /\ FirstOpen(plan) \in Positions(plan)
  BY <1>1, FirstOpenIsFirst DEF OpenSubtasks, Pickable
<1>3. QED
  BY <1>1, <1>2, SetStatusChangesOne

\* A repair resets what was given up, completes what comes before a phase, or
\* gives up the first open subtask, in the plan as it is.
LEMMA RepairRewrites ==
  ASSUME SerialInv, NEW j \in Jobs, RepairPutPlan(j)
  PROVE  /\ SameShape(plan, plan')
         /\ CASE op[j] = "recover-subtask" ->
                   \A x \in Positions(plan) :
                     StatusAt(plan', x) = IF StatusAt(plan, x) \in Recoverable
                                          THEN "pending" ELSE StatusAt(plan, x)
              [] op[j] = "skip-to-phase" ->
                   /\ loc[j].n \in DOMAIN plan
                   /\ \A x \in Positions(plan) :
                        StatusAt(plan', x) =
                          IF x[1] < loc[j].n /\ StatusAt(plan, x) # "done"
                          THEN "completed" ELSE StatusAt(plan, x)
              [] OTHER ->
                   /\ FirstOpen(plan) \in OpenSubtasks(plan)
                   /\ StatusAt(plan', FirstOpen(plan)) = "stuck"
                   /\ \A x \in Positions(plan) \ {FirstOpen(plan)} :
                        StatusAt(plan', x) = StatusAt(plan, x)
<1>1. plan \in Plans /\ RepairsCurrent(j) /\ plan' = loc[j].plan
  BY DEF SerialInv, Inductive, TypeOK, Current, RepairPutPlan
<1>2. CASE op[j] = "recover-subtask"
  BY <1>1, <1>2, RecoveredChanges DEF RepairsCurrent
<1>3. CASE op[j] = "skip-to-phase"
  BY <1>1, <1>3, SkippedToChanges DEF RepairsCurrent
<1>4. CASE op[j] \notin {"recover-subtask", "skip-to-phase"}
  <2>1. FirstOpen(plan) # NoSubtask
        /\ plan' = SetStatus(plan, FirstOpen(plan), "stuck")
    BY <1>1, <1>4 DEF RepairsCurrent, MarkFirstStuck, Pickable
  <2>2. FirstOpen(plan) \in OpenSubtasks(plan) /\ FirstOpen(plan) \in Positions(plan)
    BY <1>1, <2>1, FirstOpenIsFirst DEF OpenSubtasks
  <2>3. QED
    BY <1>1, <1>4, <2>1, <2>2, SetStatusChangesOne
<1>5. QED
  BY <1>2, <1>3, <1>4

\* A step that changes the plan or the progress is the live job's.
LEMMA OnlyJobsWrite ==
  ASSUME SerialInv, Serial, [Next]_vars, ~UNCHANGED <<plan, prog>>
  PROVE  \E j \in Jobs : LiveStep(j)
  BY SerialShape DEF SerialInv, Beside, Still, task

\* When requests do not overlap, a finished subtask is undone by nothing but
\* planning anew: implementations and repairs write the plan they read, and it
\* is still the file's.
THEOREM FinishedWorkIsKept ==
  ASSUME Serial
  PROVE  Spec => NoLostWork
<1> DEFINE Ended(p, x) == StatusAt(p, x) \in {"completed", "done"}
<1>1. ASSUME SerialInv, [Next]_vars,
             \A p \in Procs : ~(pc[p] = "plan.put" /\ pc'[p] = "plan.progress"),
             NEW x \in Positions(plan), Ended(plan, x)
      PROVE  Ended(plan', x)
  <2>1. CASE plan' = plan
    BY <1>1, <2>1
  <2>2. CASE plan' # plan
    <3>1. PICK j \in Jobs : JobStep(j)
      BY <1>1, <2>2, OnlyJobsWrite DEF LiveStep
    <3>2. ~PutPlanned(j)
      BY <1>1 DEF PutPlanned, Go, SerialInv, Inductive, TypeOK, Procs
    <3>3. x \notin OpenSubtasks(plan) /\ StatusAt(plan, x) \notin Recoverable
      BY <1>1 DEF OpenSubtasks, Unfinished, Recoverable
    <3>4. CASE ImplementPutPlan(j)
      BY <1>1, <3>3, <3>4, ImplementationCompletes
    <3>5. CASE RepairPutPlan(j)
      BY <1>1, <3>3, <3>5, RepairRewrites
    <3>6. QED
      BY <2>2, <3>1, <3>2, <3>4, <3>5, JobWrites
  <2>3. QED
    BY <2>1, <2>2
<1>2. SerialInv /\ [Next]_vars =>
        [(\A p \in Procs : ~(pc[p] = "plan.put" /\ pc'[p] = "plan.progress")) =>
           \A x \in Positions(plan) :
             StatusAt(plan, x) \in {"completed", "done"} =>
               StatusAt(plan', x) \in {"completed", "done"}]_vars
  BY <1>1
<1>3. QED
  BY <1>2, SerialInvariant, PTL DEF Spec, NoLostWork

-----------------------------------------------------------------------------
(* The stuck mark.                                                         *)

\* A subtask given up stays so as long as no planning and no repair has begun.
LEMMA StuckStays ==
  ASSUME SerialInv, NEW j \in Jobs, JobStep(j), ~PutPlanned(j), ~RepairPutPlan(j),
         NEW x, IsStuck(x)
  PROVE  IsStuck(x)'
<1>1. CASE plan' = plan
  BY <1>1 DEF IsStuck
<1>2. CASE ImplementPutPlan(j)
  <2>1. x # FirstOpen(plan)
    BY <1>2, ImplementationCompletes DEF IsStuck, OpenSubtasks, Unfinished
  <2>2. Positions(plan') = Positions(plan)
    BY <1>2, ImplementationCompletes, SameShapeSamePositions
  <2>3. QED
    BY <1>2, <2>1, <2>2, ImplementationCompletes DEF IsStuck
<1>3. QED
  BY <1>1, <1>2, JobWrites

\* Between the writes of a planning or a repair a job makes the next of them.
LEMMA TornGoesOn ==
  ASSUME SerialInv, NEW j \in Jobs, JobStep(j),
         pc[j] \in {"plan.progress", "plan.move", "repair.progress",
                   "repair.report", "repair.move"}
  PROVE  \/ PutFreshProgress(j) \/ MovePlanned(j)
         \/ RepairReadProgress(j) \/ RepairPutProgress(j) \/ RepairMove(j)
<1> USE DEF JobStep, ExecutorStep
<1>1. ~ApproveForCoding(j)
  BY DEF ApproveForCoding, ApproveCheck, ApproveMove, ApproveMark
<1>2. ~PipelineStep(j)
  BY DEF PipelineStep, ReportRead, ReportWrite, StopIfCancelled, StopIfPaused,
         PipeBegin, PipeRead, PipeApprove, PipeBudget, PipeLoop, PipeNext,
         PipeStepped, PipeDrained, PipeCount, PipePark, PipeDefer, PipeClear
<1>3. ~ImplementationStep(j)
  BY DEF ImplementationStep, ImplementGate, ImplementReadPlan, ImplementStart,
         ImplementNothing, ImplementPutPlan, ImplementReadProgress,
         ImplementFinish, ImplementPutProgress
<1>4. QED
  BY <1>1, <1>2, <1>3
     DEF Start, Prepare, CheckCancelled, Spawn, Resolve, RecordResolution,
         RunContainer, Run, Gate, Fail, PlanningStep, ChoosePlan, PutPlanned,
         RepairStep, RepairRead, RepairPutPlan, PauseRead, PauseWrite, Recheck,
         CodedRead, CodedNext, ParkCheck, Park, PlannedRead, PlannedNext, PlannedChain, Chain, Complete

\* A step of the live job keeps the mark true.
LEMMA JobKeepsMark ==
  ASSUME SerialInv, MarkInv, NEW j \in Jobs, LiveStep(j)
  PROVE  MarkInv'
<1>0. j \in Procs /\ TypeOK /\ Current(j) /\ JobStep(j) /\ j \notin Requests
  BY ConfigAssumption DEF SerialInv, Inductive, Procs, LiveStep
<1> USE DEF Go
<1>1. CASE PutPlanned(j) \/ RepairPutPlan(j) \/ RepairReadProgress(j)
  <2>1. pc'[j] \in {"plan.progress", "repair.progress", "repair.report"}
    BY <1>0, <1>1 DEF TypeOK, PutPlanned, RepairPutPlan, RepairReadProgress
  <2>2. QED
    BY <2>1 DEF MarkInv, PlanTorn
<1>2. CASE PutFreshProgress(j)
  BY <1>2 DEF PutFreshProgress, NoProgress, MarkInv
<1>3. CASE RepairPutProgress(j)
  <2>1. /\ prog' = loc[j].prog /\ plan' = plan
        /\ loc[j].prog.stuck = NoSubtask \/ IsStuck(loc[j].prog.stuck)
    BY <1>0, <1>3 DEF RepairPutProgress, Current
  <2>2. QED
    BY <2>1 DEF MarkInv, IsStuck
<1>4. CASE ~PutPlanned(j) /\ ~RepairPutPlan(j) /\ ~RepairReadProgress(j)
           /\ ~PutFreshProgress(j) /\ ~RepairPutProgress(j)
  <2>1. pc[j] \notin {"plan.progress", "repair.progress", "repair.report"}
    BY <1>0, <1>4, TornGoesOn DEF MovePlanned, RepairMove
  <2>2. ~PlanTorn
    BY <2>1 DEF PlanTorn, LiveStep, Live, SerialInv, Alone
  <2>3. prog'.stuck = prog.stuck
    <3>1. CASE ImplementPutProgress(j) \/ PauseWrite(j) \/ ReportWrite(j) \/ PipeClear(j)
      <4>1. prog \in Progress /\ loc[j].prog = prog
        BY <1>0, <3>1
           DEF TypeOK, Current, ImplementPutProgress, PauseWrite, ReportWrite, PipeClear
      <4>2. QED
        BY <3>1, <4>1
           DEF Progress, ImplementPutProgress, PauseWrite, ReportWrite, PipeClear
    <3>2. QED
      BY <1>0, <1>4, <3>1, JobWrites
  <2>4. QED
    BY <1>0, <1>4, <2>2, <2>3, StuckStays DEF MarkInv
<1>5. QED
  BY <1>1, <1>2, <1>3, <1>4

\* When requests do not overlap and the server does not crash, progress.json
\* names a subtask as stuck only while the plan has it stuck: both files are
\* rewritten by planning and repairs, in two sections, and the completion of a
\* subtask never touches one that was given up.
THEOREM StuckMarkIsTrue ==
  ASSUME Serial, "crash" \notin Offered
  PROVE  Spec => []StuckMarkAgrees
<1>1. Init => MarkInv
  BY DEF Init, NoProgress, MarkInv
<1>2. ASSUME SerialInv, MarkInv, [Next]_vars
      PROVE  MarkInv'
  <2>1. CASE \E j \in Jobs : LiveStep(j)
    BY <1>2, <2>1, JobKeepsMark
  <2>2. CASE Beside \/ Still
    <3>1. plan' = plan /\ prog' = prog
      BY <2>2 DEF Beside, Still, task
    <3>2. PlanTorn => PlanTorn'
      BY <2>2 DEF PlanTorn, Beside, Still, Procs
    <3>3. QED
      BY <1>2, <3>1, <3>2 DEF MarkInv, IsStuck
  <2>3. QED
    BY <1>2, <2>1, <2>2, SerialShape DEF SerialInv
<1>3. SerialInv /\ MarkInv => StuckMarkAgrees
  BY DEF MarkInv, StuckMarkAgrees, PlanTorn, IsStuck, Rewriting, Procs,
         AtPlanning, AtRepair
<1>4. QED
  BY <1>1, <1>2, <1>3, SerialInvariant, PTL DEF Spec

-----------------------------------------------------------------------------
(* NamedInv: what jobs and the steps of a pipeline are.                    *)

\* The step a pipeline runs changes only where it begins one.
LEMMA OwnStepName ==
  ASSUME Inductive, NEW j \in Jobs, JobStep(j)
  PROVE  loc'[j].step \in {loc[j].step, "none", "run-planning", "run-implementation"}
<1>0. j \in Procs /\ TypeOK /\ loc[j] \in Locals
  BY DEF Inductive, Procs, TypeOK
<1> USE DEF TypeOK, Locals, Leave, Abort, Fresh
<1>1. CASE \/ Start(j) \/ Prepare(j) \/ CheckCancelled(j) \/ Spawn(j) \/ Resolve(j)
           \/ RecordResolution(j) \/ RunContainer(j) \/ Run(j) \/ Gate(j) \/ Fail(j)
  BY <1>0, <1>1
     DEF Start, Prepare, CheckCancelled, Spawn, Resolve, RecordResolution,
         RunContainer, Run, Gate, Fail
<1>2. CASE PlanningStep(j) \/ ImplementationStep(j)
  BY <1>0, <1>2
     DEF PlanningStep, ChoosePlan, PutPlanned, PutFreshProgress, MovePlanned,
         ImplementationStep, ImplementGate, ImplementReadPlan, ImplementStart,
         ImplementNothing, ImplementPutPlan, ImplementReadProgress,
         ImplementFinish, ImplementPutProgress
<1>3. CASE RepairStep(j) \/ PauseRead(j) \/ PauseWrite(j) \/ ApproveForCoding(j)
  <2>1. CASE RepairRead(j)
    <3>1. PICK n : IF Repairable(j, n)
                   THEN loc' = [loc EXCEPT ![j].plan = RepairsTo(j, n),
                                           ![j].n = n,
                                           ![j].prog = [NoProgress EXCEPT
                                                          !.stuck = FirstOpen(plan)]]
                   ELSE RepairNothing(j)
      BY <2>1 DEF RepairRead
    <3>2. CASE Repairable(j, n)
      BY <1>0, <3>1, <3>2
    <3>3. CASE RepairNothing(j)
      BY <1>0, <3>3 DEF RepairNothing
    <3>4. QED
      BY <3>1, <3>2, <3>3
  <2>2. CASE ~RepairRead(j)
    BY <1>0, <1>3, <2>2
       DEF RepairStep, RepairPutPlan, RepairReadProgress, RepairPutProgress,
           RepairMove, PauseRead, PauseWrite, ApproveForCoding, ApproveCheck,
           ApproveMove, ApproveMark
  <2>3. QED
    BY <2>1, <2>2
<1>4. CASE \/ Recheck(j) \/ CodedRead(j) \/ CodedNext(j) \/ ParkCheck(j) \/ Park(j)
           \/ PlannedRead(j) \/ PlannedNext(j) \/ PlannedChain(j) \/ Chain(j)
           \/ Complete(j)
  BY <1>0, <1>4
     DEF Recheck, CodedRead, CodedNext, ParkCheck, Park, PlannedRead,
         PlannedNext, PlannedChain, Chain, Complete
<1>5. CASE PipelineStep(j)
  BY <1>0, <1>5
     DEF PipelineStep, ReportRead, ReportWrite, StopIfCancelled, StopIfPaused,
         PipeBegin, PipeRead, PipeApprove, PipeBudget, PipeLoop, PipeNext,
         PipeStepped, PipeDrained, PipeCount, PipePark, PipeDefer, PipeClear,
         Report, ReportStep, ReportAndFail, Check
<1>6. QED
  BY <1>1, <1>2, <1>3, <1>4, <1>5 DEF JobStep, ExecutorStep

\* A job comes to a repair only from its gate or from the repair.
LEMMA RepairsAreEntered ==
  ASSUME Inductive, NEW j \in Jobs, JobStep(j),
         pc'[j] \in AtRepair \ {"pause", "pause.put"}
  PROVE  RepairStep(j) \/ (Gate(j) /\ Entry(op[j]) = "repair")
<1>0. j \in Procs /\ TypeOK /\ JobInv(j) /\ j \notin Requests
      /\ pc'[j] \in {"repair", "repair.put", "repair.progress", "repair.report", "repair.move"}
  BY ConfigAssumption DEF Inductive, Procs, AtRepair
<1> USE DEF TypeOK, Go, Leave, Abort
<1>1. ~Start(j) /\ ~Prepare(j) /\ ~CheckCancelled(j) /\ ~Spawn(j)
      /\ ~RecordResolution(j) /\ ~Run(j) /\ ~Fail(j)
  BY <1>0
     DEF Start, Prepare, CheckCancelled, Spawn, RecordResolution, Run, Fail
<1>2. ~Resolve(j) /\ ~RunContainer(j)
  <2>1. pc[j] \in {"resolve", "container"} /\ IsPipeline(j) => loc[j].step \in Agents
    BY <1>0 DEF JobInv, PipelineReturns, AtContainer
  <2>2. pc[j] \in {"resolve", "container"} => AfterContainer(j) \in {"run", "plan", "implement"}
    BY <2>1, EntryOfActions DEF AfterContainer
  <2>3. QED
    BY <1>0, <2>2 DEF Resolve, RunContainer
<1>3. Gate(j) => pc'[j] \in {"fail", Entry(op[j])}
  BY <1>0 DEF Gate
<1>4. ~PlanningStep(j)
  BY <1>0 DEF PlanningStep, ChoosePlan, PutPlanned, PutFreshProgress, MovePlanned, AfterStep
<1>5. ~ImplementationStep(j)
  BY <1>0
     DEF ImplementationStep, ImplementGate, ImplementReadPlan, ImplementStart,
         ImplementNothing, ImplementPutPlan, ImplementReadProgress,
         ImplementFinish, ImplementPutProgress, AfterStep
<1>6. ~PauseRead(j) /\ ~PauseWrite(j) /\ ~Recheck(j) /\ ~CodedRead(j) /\ ~CodedNext(j)
      /\ ~ParkCheck(j) /\ ~Park(j) /\ ~PlannedRead(j) /\ ~PlannedNext(j)
      /\ ~PlannedChain(j) /\ ~Complete(j)
  BY <1>0
     DEF PauseRead, PauseWrite, Recheck, FollowUp, CodedRead, CodedNext, ParkCheck,
         Park, PlannedRead, PlannedNext, PlannedChain, Complete
<1>7. ~Chain(j)
  BY <1>0 DEF Chain
<1>8. ~ApproveForCoding(j)
  <2>1. pc[j] = "approve.mark" => loc[j].ret \notin {"repair", "repair.put",
          "repair.progress", "repair.report", "repair.move"}
    BY <1>0 DEF JobInv, PipelineReturns, PlanningReturns, AtApproval, AtPipeline
  <2>2. QED
    BY <1>0, <2>1 DEF ApproveForCoding, ApproveCheck, ApproveMove, ApproveMark
<1>9. ~PipelineStep(j)
  <2>1. pc[j] \in {"report.put", "stop.paused"} =>
          loc[j].ret \notin {"repair", "repair.put", "repair.progress",
                            "repair.report", "repair.move"}
    BY <1>0 DEF JobInv, JobPlace, PipelineReturns, AtApproval, AtPipeline
  <2>2. QED
    BY <1>0, <2>1
       DEF PipelineStep, ReportRead, ReportWrite, StopIfCancelled, StopIfPaused,
           PipeBegin, PipeRead, PipeApprove, PipeBudget, PipeLoop, PipeNext,
           PipeStepped, PipeDrained, PipeCount, PipePark, PipeDefer, PipeClear,
           Report, ReportStep, ReportAndFail, Check
<1>10. CASE Gate(j)
  BY <1>0, <1>3, <1>10, EntryOfActions
<1>11. QED
  BY <1>1, <1>2, <1>4, <1>5, <1>6, <1>7, <1>8, <1>9, <1>10 DEF JobStep, ExecutorStep

\* What is true of a job that does not step and is not created.
LEMMA NamedFrame ==
  ASSUME NEW k \in Jobs, Named(k), op'[k] = op[k],
         jobState'[k] # "none" => jobState[k] # "none",
         pc'[k] = pc[k] \/ pc'[k] \in {"start", "dead"},
         loc'[k].step \in {loc[k].step, "none"}
  PROVE  Named(k)'
  BY DEF Named, IsPipeline, AtRepair

\* A new record is named by the request or the job that creates it.
LEMMA CreationNames ==
  ASSUME Inductive, NEW p \in Procs, NEW action \in Actions, CreateJob(action),
         action \in Posted \cup {"run-planning", "run-implementation"},
         NEW k \in Jobs, k = NextJob, loc'[k].step = loc[k].step,
         pc'[k] \in {"none", "start"}
  PROVE  Named(k)'
<1>1. pc[k] = "none" /\ op'[k] = action
  BY CreationKeeps DEF CreateJob, Inductive, TypeOK, Procs
<1>2. loc[k].step = "none"
  BY <1>1 DEF Inductive, JobInv, JobRecorded, Fresh
<1>3. QED
  BY <1>1, <1>2 DEF Named, AtRepair

\* Every step keeps the names.
LEMMA NamedStep ==
  ASSUME Inductive, NamedInv, [Next]_vars
  PROVE  NamedInv'
<1>0. TypeOK /\ \A j \in Jobs : JobInv(j) /\ Named(j)
  BY DEF Inductive, NamedInv
<1>1. ASSUME NEW j \in Jobs, JobStep(j) PROVE NamedInv'
  <2>0. j \in Procs /\ \A r \in Requests : r \in Procs \ {j}
    BY ConfigAssumption DEF Procs
  <2>1. CASE Kept(j)
    <3>1. /\ \A q \in Procs \ {j} : pc'[q] = pc[q] /\ loc'[q] = loc[q]
          /\ \A k \in Jobs \ {j} : jobState'[k] = jobState[k]
          /\ op' = op /\ jobState[j] # "none"
      BY <1>0, <2>1 DEF Kept, OwnStep, JobInv, JobRecorded
    <3>2. pc'[j] \in AtRepair \ {"pause", "pause.put"} => op[j] \in Repairs
      <4>1. CASE RepairStep(j)
        BY <1>0, <4>1
           DEF Named, RepairStep, RepairRead, RepairPutPlan, RepairReadProgress,
               RepairPutProgress, RepairMove, AtRepair
      <4>2. CASE Entry(op[j]) = "repair"
        BY <1>0, <3>1, <4>2, EnvironmentAssumption
           DEF Named, Entry, Actions, Planning, Pausing, Repairs
      <4>3. QED
        BY <1>1, <4>1, <4>2, RepairsAreEntered
    <3>3. Named(j)'
      BY <1>0, <1>1, <3>1, <3>2, OwnStepName DEF Named, IsPipeline
    <3>4. ASSUME NEW k \in Jobs, k # j PROVE Named(k)'
      BY <1>0, <3>1, <3>4, NamedFrame DEF Procs
    <3>5. DragsNamed'
      BY <2>0, <3>1 DEF NamedInv, DragsNamed
    <3>6. QED
      BY <3>3, <3>4, <3>5 DEF NamedInv
  <2>2. CASE Chain(j)
    <3>1. loc' = loc /\ "run-implementation" \in Actions
      BY <2>2 DEF Chain, Actions
    <3>2. CASE CreateJob("run-implementation")
               /\ pc' = [pc EXCEPT ![j] = "complete", ![NextJob] = "start"]
      <4>1. /\ NextJob \in Jobs
            /\ \A k \in Jobs \ {NextJob} : op'[k] = op[k] /\ jobState'[k] = jobState[k]
        BY <2>0, <3>1, <3>2, CreationKeeps
      <4>2. /\ pc'[NextJob] = "start" /\ NextJob \in Procs
            /\ \A q \in Procs \ {NextJob} : pc'[q] = IF q = j THEN "complete" ELSE pc[q]
        BY <1>0, <2>0, <3>2, <4>1 DEF TypeOK, Procs
      <4>3. ASSUME NEW k \in Jobs, k = NextJob PROVE Named(k)'
        BY <2>0, <3>1, <3>2, <4>2, <4>3, CreationNames
      <4>4. ASSUME NEW k \in Jobs, k # NextJob PROVE Named(k)'
        BY <1>0, <3>1, <4>1, <4>2, <4>4 DEF Named, IsPipeline, AtRepair, Procs
      <4>5. DragsNamed'
        BY <2>0, <3>1, <4>1, <4>2, ConfigAssumption DEF NamedInv, DragsNamed, Procs
      <4>6. QED
        BY <4>3, <4>4, <4>5 DEF NamedInv
    <3>3. CASE Go(j, "complete") /\ UNCHANGED records
      <4>1. \A q \in Procs : pc'[q] = IF q = j THEN "complete" ELSE pc[q]
        BY <1>0, <2>0, <3>3 DEF TypeOK, Go
      <4>2. \A k \in Jobs : Named(k)'
        BY <1>0, <3>1, <3>3, <4>1 DEF Named, IsPipeline, AtRepair, Procs, records
      <4>3. DragsNamed'
        BY <2>0, <3>1, <4>1 DEF NamedInv, DragsNamed
      <4>4. QED
        BY <4>2, <4>3 DEF NamedInv
    <3>4. QED
      BY <2>2, <3>2, <3>3 DEF Chain
  <2>3. Kept(j) \/ Chain(j)
    BY <1>1, <2>0, PlanningKeeps, ImplementationKeeps, RepairKeeps, ExecutorKeeps,
       FollowUpKeeps, PipelineKeeps, ApprovalKeeps
       DEF JobStep, ExecutorStep
  <2>4. QED
    BY <2>1, <2>2, <2>3
<1>2. ASSUME NEW r \in Requests, RequestStep(r) \/ Request(r) PROVE NamedInv'
  <2>0. r \in Procs /\ \A k \in Jobs : k \in Procs \ {r}
    BY ConfigAssumption DEF Procs
  <2>1. ASSUME NEW action \in Actions, CreateFor(r, action),
               action \in Posted \cup {"run-planning", "run-implementation"}
        PROVE  NamedInv'
    <3>1. /\ NextJob \in Jobs /\ CreateJob(action)
          /\ \A k \in Jobs \ {NextJob} : op'[k] = op[k] /\ jobState'[k] = jobState[k]
          /\ pc[NextJob] = "none"
      BY <2>0, <2>1, CreationKeeps DEF CreateFor
    <3>2. /\ pc'[r] = "launch"
          /\ \A q \in Procs \ {r} : pc'[q] = pc[q] /\ loc'[q] = loc[q]
      BY <1>0, <2>0, <2>1 DEF TypeOK, CreateFor, Go
    <3>3. ASSUME NEW k \in Jobs, k = NextJob PROVE Named(k)'
      BY <2>0, <2>1, <3>1, <3>2, <3>3, CreationNames
    <3>4. ASSUME NEW k \in Jobs, k # NextJob PROVE Named(k)'
      BY <1>0, <2>0, <3>1, <3>2, <3>4, NamedFrame
    <3>5. DragsNamed'
      BY <2>0, <3>2 DEF NamedInv, DragsNamed, Procs
    <3>6. QED
      BY <3>3, <3>4, <3>5 DEF NamedInv
  <2>2. CASE PostJob(r)
    <3>1. PICK action \in Posted : CreateFor(r, action)
      BY <2>2 DEF PostJob
    <3>2. QED
      BY <2>1, <3>1, EnvironmentAssumption
  <2>3. CASE DragCreate(r) /\ CreateFor(r, loc[r].step)
    <3>1. loc[r].step \in {"run-planning", "run-implementation"}
      BY <2>3 DEF DragCreate, NamedInv, DragsNamed
    <3>2. QED
      BY <2>1, <2>3, <3>1 DEF Actions, Planning
  <2>4. CASE \/ RepairStep(r) \/ ApproveForCoding(r) \/ DragPaused(r) \/ DragList(r)
             \/ Drag(r) \/ Approve(r)
             \/ (DragCreate(r) /\ Leave(r) /\ UNCHANGED records)
    <3>1. Kept(r)
      BY <2>0, <2>4, RepairKeeps, ApprovalKeeps, RequestKeeps
    <3>2. /\ \A q \in Procs \ {r} : pc'[q] = pc[q] /\ loc'[q] = loc[q]
          /\ \A k \in Jobs : jobState'[k] = jobState[k]
          /\ op' = op
      BY <2>0, <3>1 DEF Kept, OwnStep
    <3>3. ASSUME NEW k \in Jobs PROVE Named(k)'
      BY <1>0, <2>0, <3>2, NamedFrame
    <3>4. pc'[r] \in {"drag.paused", "drag.list", "drag.create"} =>
            loc'[r].step \in {"run-planning", "run-implementation"}
      <4>1. CASE DragPaused(r) \/ DragList(r)
        BY <1>0, <2>0, <4>1 DEF DragPaused, DragList, Go, Leave, TypeOK, NamedInv, DragsNamed
      <4>2. CASE Drag(r)
        BY <1>0, <2>0, <4>2 DEF Drag, Go, Leave, TypeOK, Locals, ColumnAction
      <4>3. CASE \/ RepairStep(r) \/ ApproveForCoding(r) \/ Approve(r)
                 \/ (DragCreate(r) /\ Leave(r) /\ UNCHANGED records)
        BY <1>0, <2>0, <4>3
           DEF RepairStep, RepairRead, RepairNothing, RepairPutPlan,
               RepairReadProgress, RepairPutProgress, RepairMove,
               ApproveForCoding, ApproveCheck, ApproveMove, ApproveMark,
               Approve, Go, Leave, Abort, TypeOK
      <4>4. QED
        BY <2>4, <4>1, <4>2, <4>3
    <3>5. DragsNamed'
      BY <3>2, <3>4 DEF NamedInv, DragsNamed, Procs
    <3>6. QED
      BY <3>3, <3>5 DEF NamedInv
  <2>5. CASE Launch(r) \/ CancelRead(r) \/ CancelWrite(r) \/ Crash(r)
    <3>1. /\ op' = op
          /\ \A k \in Jobs : /\ jobState'[k] # "none" => jobState[k] # "none"
                             /\ pc'[k] = pc[k] \/ pc'[k] \in {"start", "dead"}
                             /\ loc'[k].step \in {loc[k].step, "none"}
      BY <1>0, <2>0, <2>5
         DEF Launch, CancelRead, CancelWrite, Crash, UpdateJob, Go, Leave, Fresh,
             TypeOK, records, Inductive, RequestInv
    <3>2. \A s \in Requests :
            \/ pc'[s] \notin {"drag.paused", "drag.list", "drag.create"}
            \/ pc'[s] = pc[s] /\ loc'[s].step = loc[s].step
      BY <1>0, <2>0, <2>5, ConfigAssumption
         DEF Launch, CancelRead, CancelWrite, Crash, UpdateJob, Go, Leave,
             TypeOK, Inductive, RequestInv, Procs
    <3>3. QED
      BY <1>0, <3>1, <3>2, NamedFrame DEF NamedInv, DragsNamed
  <2>6. CASE DragCreate(r)
    BY <2>3, <2>4, <2>6 DEF DragCreate
  <2>7. QED
    BY <1>2, <2>2, <2>4, <2>5, <2>6 DEF RequestStep, Request
<1>3. ASSUME UNCHANGED vars PROVE NamedInv'
  BY <1>3 DEF vars, NamedInv, DragsNamed, Named, IsPipeline
<1>4. QED
  BY <1>1, <1>2, <1>3 DEF Next, Finished

\* At the beginning there are no names.
LEMMA InitNamed == Init => NamedInv
<1>1. Init => /\ \A j \in Jobs : jobState[j] = "none" /\ pc[j] = "none" /\ op[j] = "none"
              /\ \A r \in Requests : pc[r] = "idle"
  BY ConfigAssumption DEF Init, Procs
<1>2. QED
  BY <1>1 DEF NamedInv, DragsNamed, Named, IsPipeline, AtRepair

\* The invariants that the proofs of the card rest on.
LEMMA SerialAndNamed ==
  ASSUME Serial
  PROVE  Spec => [](SerialInv /\ NamedInv)
<1>1. SerialInv /\ NamedInv /\ [Next]_vars => NamedInv'
  BY NamedStep DEF SerialInv
<1>2. QED
  BY <1>1, InitNamed, SerialInvariant, PTL DEF Spec

-----------------------------------------------------------------------------
(* The card in review.                                                     *)

\* What requests do to the card and its approval.
LEMMA RequestWrites ==
  ASSUME NEW r \in Requests, RequestStep(r) \/ Request(r)
  PROVE  /\ \/ status' = status
            \/ "drag" \in Offered /\ status' \in DragTo
            \/ ApproveMove(r) \/ RepairStep(r)
         /\ approved' = approved \/ ApproveMark(r)
  BY DEF RequestStep, Request, Launch, DragPaused, DragList, DragCreate, CancelWrite,
         RepairStep, RepairRead, RepairPutPlan, RepairReadProgress,
         RepairPutProgress, RepairMove, ApproveForCoding, ApproveCheck,
         ApproveMove, ApproveMark, PostJob, Drag, Approve, CancelRead, Crash,
         Arrives, MoveTask, task

\* The order of the phases is a matter of the shape.
LEMMA ShapeKeepsCodingFirst ==
  ASSUME NEW p, NEW q, SameShape(p, q), CodingFirst(p)
  PROVE  CodingFirst(q)
  BY DEF SameShape, CodingFirst

\* A job comes to write a plan when it has chosen one, and to approve the task
\* when it has found it waiting.
LEMMA PlansAreEntered ==
  ASSUME Inductive, NEW j \in Jobs, JobStep(j),
         pc'[j] \in {"plan.put", "approve.move", "approve.mark"}
  PROVE  /\ pc'[j] = "plan.put" => ChoosePlan(j)
         /\ pc'[j] = "approve.move" => ApproveCheck(j)
         /\ pc'[j] = "approve.mark" => ApproveMove(j)
<1>0. j \in Procs /\ TypeOK /\ JobInv(j) /\ j \notin Requests
  BY ConfigAssumption DEF Inductive, Procs
<1> USE DEF TypeOK, Go, Leave, Abort
<1>1. ~Start(j) /\ ~Prepare(j) /\ ~CheckCancelled(j) /\ ~Spawn(j) /\ ~Resolve(j)
      /\ ~RecordResolution(j) /\ ~RunContainer(j) /\ ~Run(j) /\ ~Gate(j) /\ ~Fail(j)
  BY <1>0, EntryOfActions
     DEF Start, Prepare, CheckCancelled, Spawn, Resolve, RecordResolution,
         RunContainer, AfterContainer, Run, Gate, Fail
<1>2. ~PutPlanned(j) /\ ~PutFreshProgress(j) /\ ~MovePlanned(j) /\ ~ImplementationStep(j)
  BY <1>0
     DEF PutPlanned, PutFreshProgress, MovePlanned, AfterStep,
         ImplementationStep, ImplementGate, ImplementReadPlan, ImplementStart,
         ImplementNothing, ImplementPutPlan, ImplementReadProgress,
         ImplementFinish, ImplementPutProgress
<1>3. ~RepairStep(j) /\ ~PauseRead(j) /\ ~PauseWrite(j)
  BY <1>0
     DEF RepairStep, RepairRead, RepairNothing, RepairPutPlan,
         RepairReadProgress, RepairPutProgress, RepairMove, PauseRead, PauseWrite
<1>4. ~Recheck(j) /\ ~CodedRead(j) /\ ~CodedNext(j) /\ ~ParkCheck(j) /\ ~Park(j)
      /\ ~PlannedRead(j) /\ ~PlannedNext(j) /\ ~PlannedChain(j) /\ ~Complete(j)
      /\ ~Chain(j)
  BY <1>0
     DEF Recheck, FollowUp, CodedRead, CodedNext, ParkCheck, Park, PlannedRead,
         PlannedNext, PlannedChain, Complete, Chain
<1>5. pc[j] \in {"approve.mark", "report.put", "stop.paused"} =>
        loc[j].ret \notin {"plan.put", "approve.move", "approve.mark"}
  BY <1>0 DEF JobInv, JobPlace, PipelineReturns, PlanningReturns, AtApproval, AtPipeline
<1>6. ~PipelineStep(j)
  BY <1>0, <1>5
     DEF PipelineStep, ReportRead, ReportWrite, StopIfCancelled, StopIfPaused,
         PipeBegin, PipeRead, PipeApprove, PipeBudget, PipeLoop, PipeNext,
         PipeStepped, PipeDrained, PipeCount, PipePark, PipeDefer, PipeClear,
         Report, ReportStep, ReportAndFail, Check
<1>7. CASE ApproveForCoding(j)
  BY <1>0, <1>5, <1>7 DEF ApproveForCoding, ApproveCheck, ApproveMove, ApproveMark
<1>8. CASE ChoosePlan(j)
  BY <1>0, <1>8 DEF ChoosePlan
<1>9. QED
  BY <1>1, <1>2, <1>3, <1>4, <1>6, <1>7, <1>8 DEF JobStep, ExecutorStep, PlanningStep

\* A planning job writes a plan with the coding first.
LEMMA PlansHaveCodingFirst ==
  ASSUME SerialInv, NamedInv, ReviewEnv, "skip-to-phase" \in Posted,
         NEW j \in Jobs, ChoosePlan(j)
  PROVE  CodingFirst(loc'[j].plan)
<1>0. j \in Procs /\ TypeOK /\ JobInv(j) /\ Named(j) /\ loc[j] \in Locals
  BY DEF SerialInv, Inductive, NamedInv, TypeOK, Procs
<1>1. Running(j) # "run-followup-planning"
  <2>1. op[j] # "run-followup-planning"
    BY <1>0 DEF ChoosePlan, JobInv, JobRecorded, Named, ReviewEnv
  <2>2. QED
    BY <1>0, <2>1 DEF Running, Named
<1>2. loc'[j].plan = BuiltinPlan \/ loc'[j].plan \in ModelPlans
  BY <1>0, <1>1 DEF ChoosePlan, TypeOK, Locals
<1>3. CodingFirst(BuiltinPlan)
  BY DEF CodingFirst, BuiltinPlan
<1>4. QED
  BY <1>2, <1>3 DEF ReviewEnv

\* Which labels hold a plan to be written, and what it is there.
LEMMA JobKeepsCodingFirst ==
  ASSUME SerialInv, NamedInv, ReviewInv, ReviewEnv, "skip-to-phase" \in Posted,
         NEW j \in Jobs, LiveStep(j)
  PROVE  /\ CodingFirst(plan')
         /\ \A k \in Jobs : pc'[k] = "plan.put" => CodingFirst(loc'[k].plan)
<1>0. j \in Procs /\ TypeOK /\ JobStep(j)
  BY DEF SerialInv, Inductive, TypeOK, Procs, LiveStep
<1>1. CodingFirst(plan')
  <2>1. CASE plan' = plan
    BY <2>1 DEF ReviewInv
  <2>2. CASE PutPlanned(j)
    BY <2>2 DEF ReviewInv, PutPlanned
  <2>3. CASE ImplementPutPlan(j) \/ RepairPutPlan(j)
    BY <2>3, ImplementationCompletes, RepairRewrites, ShapeKeepsCodingFirst DEF ReviewInv
  <2>4. QED
    BY <1>0, <2>1, <2>2, <2>3, JobWrites
<1>2. pc'[j] = "plan.put" => ChoosePlan(j)
  BY <1>0, PlansAreEntered DEF SerialInv
<1>3. \A k \in Jobs \ {j} : pc'[k] # "plan.put"
  BY DEF LiveStep
<1>4. QED
  BY <1>1, <1>2, <1>3, PlansHaveCodingFirst

\* Where a job moves the card to review no coding subtask is to be picked.
LEMMA JobsParkTheCoded ==
  ASSUME SerialInv, NamedInv, ReviewInv, NEW j \in Jobs, status' = "review",
         \/ MovePlanned(j) \/ ImplementStart(j) \/ ImplementNothing(j)
         \/ ImplementFinish(j) \/ RepairMove(j) \/ Park(j) \/ PipePark(j)
         \/ ApproveMove(j)
  PROVE  NoCodingToPick(plan')
<1>0. j \in Procs /\ TypeOK /\ Current(j) /\ Named(j) /\ j \notin Requests
  BY ConfigAssumption DEF SerialInv, Inductive, NamedInv, Procs
<1> USE DEF MoveTask, NoCodingToPick
<1>1. CASE ImplementNothing(j)
  <2>1. ~Pickable(plan) /\ plan' = plan
    BY <1>0, <1>1 DEF ImplementNothing, Current
  <2>2. QED
    BY <2>1 DEF StopsShort
<1>2. CASE ImplementFinish(j) \/ PipePark(j)
  <2>1. AllDone(plan) /\ plan' = plan
    BY <1>0, <1>2 DEF ImplementFinish, PipePark, Current, ParksNext
  <2>2. QED
    BY <2>1 DEF AllDone, OpenSubtasks, Unfinished
<1>3. CASE Park(j)
  <2>1. AllCodingComplete(plan) /\ plan' = plan
    BY <1>0, <1>3 DEF Park, Current
  <2>2. QED
    BY <2>1 DEF AllCodingComplete, OpenSubtasks, Unfinished
<1>4. CASE RepairMove(j)
  <2>1. /\ pc[j] = "repair.move" /\ plan' = plan
        /\ op[j] = "skip-to-phase" /\ loc[j].plan[loc[j].n].kind = "review"
    BY <1>4 DEF RepairMove
  <2>2. loc[j].plan = plan /\ ClosedBefore(loc[j].n)
    BY <1>0, <2>1 DEF Current
  <2>3. jobState[j] # "none"
    BY <2>1 DEF SerialInv, Inductive, JobInv, JobRecorded
  <2>4. CodingFirst(plan)
    BY <1>0, <2>1, <2>3 DEF Named, ReviewInv
  <2>5. ASSUME NEW x \in CodingSubtasks(plan) \cap OpenSubtasks(plan)
        PROVE  FALSE
    <3>1. x[1] >= loc[j].n /\ loc[j].n \in DOMAIN plan
      BY <2>2, <2>5 DEF ClosedBefore
    <3>2. x[1] \in DOMAIN plan /\ plan[x[1]].kind = "coding"
      BY <2>5 DEF CodingSubtasks, Positions
    <3>3. x[1] < loc[j].n
      BY <2>1, <2>2, <2>4, <3>1, <3>2 DEF CodingFirst
    <3>4. plan \in Seq(Phase)
      BY <1>0, PlansAreSequences DEF TypeOK
    <3>5. QED
      BY <3>1, <3>2, <3>3, <3>4
  <2>6. QED
    BY <2>1, <2>5
<1>5. CASE MovePlanned(j) \/ ImplementStart(j) \/ ApproveMove(j)
  BY <1>5 DEF MovePlanned, ImplementStart, ApproveMove
<1>6. QED
  BY <1>1, <1>2, <1>3, <1>4, <1>5

\* A step of the live job leaves a card in review without coding to pick.
LEMMA JobKeepsReview ==
  ASSUME SerialInv, NamedInv, ReviewInv, NEW j \in Jobs, LiveStep(j), status' = "review"
  PROVE  CardTorn' \/ NoCodingToPick(plan')
<1>0. j \in Procs /\ TypeOK /\ JobStep(j) /\ j \notin Requests
  BY ConfigAssumption DEF SerialInv, Inductive, Procs, LiveStep
<1>1. CASE PutPlanned(j) \/ PutFreshProgress(j) \/ RepairPutPlan(j)
           \/ RepairReadProgress(j) \/ RepairPutProgress(j)
  BY <1>0, <1>1
     DEF PutPlanned, PutFreshProgress, RepairPutPlan, RepairReadProgress,
         RepairPutProgress, CardTorn, Go, TypeOK
<1>2. CASE \/ MovePlanned(j) \/ ImplementStart(j) \/ ImplementNothing(j)
           \/ ImplementFinish(j) \/ RepairMove(j) \/ Park(j) \/ PipePark(j)
           \/ ApproveMove(j)
  BY <1>2, JobsParkTheCoded
<1>3. ASSUME ~PutPlanned(j), ~PutFreshProgress(j), ~RepairPutPlan(j), ~RepairReadProgress(j),
             ~RepairPutProgress(j), ~MovePlanned(j), ~RepairMove(j), status' = status
      PROVE  NoCodingToPick(plan')
  <2>1. pc[j] \notin {"plan.progress", "plan.move", "repair.progress",
                     "repair.report", "repair.move"}
    BY <1>0, <1>3, TornGoesOn
  <2>2. ~CardTorn
    BY <2>1 DEF CardTorn, LiveStep, Live, SerialInv, Alone
  <2>3. NoCodingToPick(plan)
    BY <1>3, <2>2 DEF ReviewInv
  <2>4. CASE ImplementPutPlan(j)
    <3>0. ~StopsShort(plan)
      BY <2>4 DEF StopsShort, ImplementPutPlan, SerialInv, Current
    <3>1. Positions(plan') = Positions(plan) /\ CodingSubtasks(plan') = CodingSubtasks(plan)
      BY <2>4, ImplementationCompletes, SameShapeSamePositions
    <3>2. OpenSubtasks(plan') \subseteq OpenSubtasks(plan)
      BY <2>4, <3>1, ImplementationCompletes DEF OpenSubtasks, Unfinished
    <3>3. QED
      BY <2>3, <3>0, <3>1, <3>2 DEF NoCodingToPick
  <2>5. QED
    BY <1>0, <1>3, <2>3, <2>4, JobWrites
<1>4. QED
  BY <1>0, <1>1, <1>2, <1>3, JobWrites

\* When requests do not overlap, no card is dragged to review and the server
\* does not crash, a card in review has no coding subtask that a job could
\* pick: none is open unless the runner stops at a subtask without an id.  A skip
\* to a review phase must not jump over coding: it completes the phases before its
\* target and leaves those behind it open.
THEOREM ReviewIsCoded ==
  ASSUME ReviewEnv
  PROVE  Spec => []ReviewHasNoCodingToPick
<1>0. Serial
  BY DEF ReviewEnv
<1>1. Init => ReviewInv
  <2> SUFFICES ASSUME Init PROVE ReviewInv
    OBVIOUS
  <2>1. status # "review" /\ \A j \in Jobs : pc[j] # "plan.put"
    BY DEF Init, Procs
  <2>2. CodingFirst(<< >>)
    BY DEF CodingFirst
  <2>3. QED
    BY <2>1, <2>2 DEF Init, ReviewEnv, ReviewInv
<1>2. ASSUME SerialInv, NamedInv, ReviewInv, [Next]_vars
      PROVE  ReviewInv'
  <2>1. CASE \E j \in Jobs : LiveStep(j)
    BY <1>2, <2>1, JobKeepsReview, JobKeepsCodingFirst DEF ReviewInv
  <2>2. ASSUME Beside \/ Still, status' = status \/ status' # "review"
        PROVE  ReviewInv'
    <3>1. plan' = plan /\ (CardTorn => CardTorn')
      BY <2>2 DEF Beside, Still, task, CardTorn, ReviewEnv, Procs
    <3>2. \A k \in Jobs : pc'[k] = "plan.put" => pc[k] = "plan.put" /\ loc'[k] = loc[k]
      BY <2>2 DEF Beside, Still, Procs
    <3>3. QED
      BY <1>2, <2>2, <3>1, <3>2 DEF ReviewInv
  <2>3. ASSUME NEW r \in Requests, RequestStep(r) \/ Request(r)
        PROVE  status' = status \/ status' # "review"
    <3>1. ~RepairStep(r)
      BY <1>0, <1>2, <2>3, OthersAnswered DEF SerialInv
    <3>2. QED
      BY <2>3, <3>1, RequestWrites DEF ReviewEnv, ApproveMove, MoveTask
  <2>4. Still => status' = status
    BY DEF Still, task
  <2>5. QED
    BY <1>0, <1>2, <2>1, <2>2, <2>3, <2>4, SerialShape DEF SerialInv
<1>3. ReviewInv => ReviewHasNoCodingToPick
  BY DEF ReviewInv, ReviewHasNoCodingToPick, CardTorn, Rewriting, Procs,
         AtPlanning, AtRepair
<1>4. QED
  BY <1>0, <1>1, <1>2, <1>3, SerialAndNamed, PTL DEF Spec

-----------------------------------------------------------------------------
(* WorksInv: planning plans and implementation implements.                 *)

\* An action's helper begins at labels of its own.
LEMMA EntryDoes ==
  \A a : /\ Does(Entry(a), a)
         /\ Entry(a) = "pause" => a \in Pausing
         /\ Entry(a) \in {"plan", "implement", "pipe", "pause", "repair"}
  BY EntryOfActions
     DEF Does, Entry, AtPlanning, AtImplementation, Planning, Pausing

\* The labels that say nothing of what a job does.
LEMMA IdleWorks ==
  ASSUME NEW j \in Jobs,
         pc'[j] \notin AtPlanning \cup AtImplementation
                         \cup {"report", "report.put", "pause", "pause.put", "pipe.stepped"}
  PROVE  Works(j)'
  BY DEF Works, Does

\* The executor's steps begin what the job is to run.
LEMMA ExecutorWorks ==
  ASSUME SerialInv, NEW j \in Jobs,
         \/ Start(j) \/ Prepare(j) \/ CheckCancelled(j) \/ Spawn(j) \/ Resolve(j)
         \/ RecordResolution(j) \/ RunContainer(j) \/ Run(j) \/ Gate(j) \/ Fail(j)
  PROVE  Works(j)'
<1>0. j \in Procs /\ TypeOK /\ loc[j] \in Locals
  BY DEF SerialInv, Inductive, TypeOK, Procs
<1> USE DEF Go, Leave, task, records
<1>1. CASE \/ Start(j) \/ Prepare(j) \/ CheckCancelled(j) \/ Spawn(j)
           \/ RecordResolution(j) \/ Run(j) \/ Fail(j)
  BY <1>0, <1>1, IdleWorks
     DEF TypeOK, Start, Prepare, CheckCancelled, Spawn, RecordResolution, Run,
         Fail, AtPlanning, AtImplementation
<1>2. CASE Gate(j)
  <2>1. pc'[j] \in {"fail", Entry(op[j])} /\ loc' = loc /\ op' = op
    BY <1>0, <1>2 DEF TypeOK, Gate
  <2>2. IsPipeline(j) => Entry(op[j]) = "pipe"
    <3>1. Entry("run-pipeline") = "pipe"
      BY DEF Entry, Planning, Pausing
    <3>2. QED
      BY <3>1 DEF IsPipeline
  <2>3. QED
    BY <2>1, <2>2, EntryDoes
       DEF Works, Does, Running, IsPipeline, AtPlanning, AtImplementation
<1>3. CASE Resolve(j) \/ RunContainer(j)
  <2>1. pc'[j] \in {"record", "container", AfterContainer(j)} /\ op' = op
        /\ loc'[j].step = loc[j].step
    BY <1>0, <1>3 DEF TypeOK, Resolve, RunContainer, Locals
  <2>2. pc[j] \in AtContainer
    BY <1>3 DEF Resolve, RunContainer, AtContainer
  <2>3. IsPipeline(j) => loc[j].step \in Agents
    BY <2>2 DEF SerialInv, Inductive, JobInv, PipelineReturns
  <2>4. AfterContainer(j) \in {"plan", "implement", "run"}
        /\ (AfterContainer(j) # "run" => Does(AfterContainer(j), Running(j)))
    BY <2>3, EntryDoes, EntryOfActions DEF AfterContainer, Running
  <2>5. QED
    BY <2>1, <2>4 DEF Works, Does, Running, IsPipeline, AtPlanning, AtImplementation
<1>4. QED
  BY <1>1, <1>2, <1>3

\* The helpers go on with what they are at.
LEMMA HelperWorks ==
  ASSUME SerialInv, NEW j \in Jobs, Works(j),
         \/ PlanningStep(j) \/ ImplementationStep(j) \/ RepairStep(j)
         \/ PauseRead(j) \/ PauseWrite(j) \/ ApproveForCoding(j)
  PROVE  Works(j)'
<1>0. j \in Procs /\ TypeOK /\ loc[j] \in Locals /\ j \notin Requests
  BY ConfigAssumption DEF SerialInv, Inductive, TypeOK, Procs
<1> USE DEF Go, Leave, Abort, task, records
<1>1. CASE PlanningStep(j) \/ ImplementationStep(j)
  <2>1. op' = op /\ loc'[j].step = loc[j].step
    BY <1>0, <1>1
       DEF TypeOK, Locals, PlanningStep, ChoosePlan, PutPlanned, PutFreshProgress,
           MovePlanned, ImplementationStep, ImplementGate, ImplementReadPlan,
           ImplementStart, ImplementNothing, ImplementPutPlan,
           ImplementReadProgress, ImplementFinish, ImplementPutProgress
  <2>2. \/ pc[j] \in AtPlanning /\ pc'[j] \in AtPlanning \cup {AfterStep(j)}
        \/ pc[j] \in AtImplementation /\ pc'[j] \in AtImplementation \cup {AfterStep(j)}
    BY <1>0, <1>1
       DEF TypeOK, PlanningStep, ChoosePlan, PutPlanned, PutFreshProgress,
           MovePlanned, ImplementationStep, ImplementGate, ImplementReadPlan,
           ImplementStart, ImplementNothing, ImplementPutPlan,
           ImplementReadProgress, ImplementFinish, ImplementPutProgress,
           AtPlanning, AtImplementation
  <2>3. Running(j)' = Running(j)
    BY <2>1 DEF Running, IsPipeline
  <2>4. pc'[j] = "pipe.stepped" => loc'[j].step \in Agents
    BY <2>1, <2>2 DEF AfterStep, Works, Does, Running, Agents, AtPlanning, AtImplementation
  <2>5. QED
    BY <2>2, <2>3, <2>4 DEF Works, Does, AfterStep, AtPlanning, AtImplementation
<1>2. CASE PauseRead(j) \/ PauseWrite(j)
  <2>1. op' = op /\ pc[j] \in {"pause", "pause.put"} /\ pc'[j] \in {"pause.put", "recheck"}
    BY <1>0, <1>2 DEF TypeOK, PauseRead, PauseWrite
  <2>2. QED
    BY <2>1 DEF Works, Does, AtPlanning, AtImplementation
<1>3. CASE RepairStep(j)
  BY <1>0, <1>3, IdleWorks
     DEF TypeOK, RepairStep, RepairRead, RepairNothing, RepairPutPlan,
         RepairReadProgress, RepairPutProgress, RepairMove, AtPlanning, AtImplementation
<1>4. CASE ApproveForCoding(j)
  <2>1. pc[j] = "approve.mark" => loc[j].ret \in {"pipe.budget", "planned.chain", "done"}
    BY DEF SerialInv, Current, Returns, AtApproval
  <2>2. pc'[j] \in {"approve.move", "approve.mark", "complete", "pipe.defer",
                   "pipe.budget", "planned.chain", "done"}
    BY <1>0, <1>4, <2>1
       DEF TypeOK, ApproveForCoding, ApproveCheck, ApproveMove, ApproveMark
  <2>3. QED
    BY <2>2, IdleWorks DEF AtPlanning, AtImplementation
<1>5. QED
  BY <1>1, <1>2, <1>3, <1>4

\* A pipeline reports before it begins a step.
LEMMA PipelineWorks ==
  ASSUME SerialInv, NEW j \in Jobs, Works(j), PipelineStep(j)
  PROVE  Works(j)'
<1>0. /\ j \in Procs /\ TypeOK /\ loc[j] \in Locals /\ Returns(j)
      /\ pc[j] \in AtPipeline => IsPipeline(j)
  BY DEF SerialInv, Inductive, TypeOK, Procs, Current, JobInv, JobPlace
<1> USE DEF Go, Abort, task, records
<1>1. CASE ReportRead(j)
  <2>1. /\ pc[j] = "report" /\ pc'[j] = "report.put"
        /\ loc'[j].ret = loc[j].ret /\ loc'[j].step = loc[j].step
    BY <1>0, <1>1 DEF TypeOK, ReportRead, Locals
  <2>2. QED
    BY <2>1 DEF Works, Does, AtPlanning, AtImplementation
<1>2. CASE ReportWrite(j)
  <2>1. /\ pc[j] = "report.put" /\ pc'[j] = loc[j].ret /\ loc' = loc /\ op' = op
        /\ Does(loc[j].ret, loc[j].step)
    BY <1>0, <1>2 DEF TypeOK, ReportWrite, Works
  <2>2. IsPipeline(j)' /\ Running(j)' = loc[j].step
    BY <1>0, <2>1 DEF AtPipeline, IsPipeline, Running
  <2>3. QED
    BY <1>0, <2>1, <2>2 DEF Works, Returns
<1>3. CASE StopIfCancelled(j) \/ StopIfPaused(j)
  <2>1. pc'[j] \in {"pipe.defer", "stop.paused", "pipe.next", "pipe.count", "pipe.approve"}
    BY <1>0, <1>3 DEF TypeOK, StopIfCancelled, StopIfPaused, Returns
  <2>2. QED
    BY <2>1, IdleWorks DEF AtPlanning, AtImplementation
<1>4. ASSUME NEW ret, Report(j, ret), ret \notin AtPlanning \cup AtImplementation
      PROVE  Works(j)'
  <2>1. pc'[j] = "report" /\ loc'[j].ret = ret
    BY <1>0, <1>4 DEF TypeOK, Report, Locals
  <2>2. QED
    BY <1>4, <2>1 DEF Works, Does, AtPlanning, AtImplementation
<1>5. ASSUME NEW action, ReportStep(j, action) PROVE Works(j)'
  <2>1. pc'[j] = "report" /\ loc'[j].ret = Dispatch(action) /\ loc'[j].step = action
    BY <1>0, <1>5 DEF TypeOK, ReportStep, Locals
  <2>2. Does(Dispatch(action), action)
    BY EntryDoes DEF Dispatch, Does, AtPlanning, AtImplementation
  <2>3. QED
    BY <2>1, <2>2 DEF Works, Does, AtPlanning, AtImplementation
<1>6. CASE ReportAndFail(j)
  <2>1. pc'[j] = "report" /\ loc'[j].ret = "pipe.defer"
    BY <1>0, <1>6 DEF TypeOK, ReportAndFail, Locals
  <2>2. QED
    BY <2>1 DEF Works, Does, AtPlanning, AtImplementation
<1>7. CASE PipeBegin(j) \/ PipeCount(j)
  BY <1>4, <1>6, <1>7 DEF PipeBegin, PipeCount, AtPlanning, AtImplementation
<1>8. CASE PipeRead(j) \/ PipeNext(j) \/ PipeDrained(j)
  <2>1. \/ pc'[j] \in {"pipe.approve", "pipe.drained", "stop"}
        \/ ReportStep(j, "run-planning") \/ ReportStep(j, "run-implementation")
        \/ ReportAndFail(j)
    BY <1>0, <1>8 DEF TypeOK, PipeRead, PipeNext, PipeDrained, Check
  <2>2. QED
    BY <1>5, <1>6, <2>1, IdleWorks DEF AtPlanning, AtImplementation
<1>9. CASE PipeApprove(j) \/ PipeBudget(j) \/ PipeLoop(j) \/ PipeStepped(j)
           \/ PipeDefer(j) \/ PipeClear(j)
  <2>1. pc'[j] \in {"approve", "pipe.budget", "pipe.loop", "pipe.drained", "stop",
                   "pipe.defer", "pipe.clear", "recheck"}
    BY <1>0, <1>9
       DEF TypeOK, PipeApprove, PipeBudget, PipeLoop, PipeStepped, PipeDefer,
           PipeClear, Check
  <2>2. QED
    BY <2>1, IdleWorks DEF AtPlanning, AtImplementation
<1>10. CASE PipePark(j)
  <2>1. pc'[j] = "report" /\ loc'[j].ret = "pipe.defer"
    BY <1>0, <1>10 DEF TypeOK, PipePark, Locals
  <2>2. QED
    BY <2>1 DEF Works, Does, AtPlanning, AtImplementation
<1>11. QED
  BY <1>1, <1>2, <1>3, <1>7, <1>8, <1>9, <1>10 DEF PipelineStep

\* Every step of a job keeps what it works at.
LEMMA OwnStepWorks ==
  ASSUME SerialInv, NEW j \in Jobs, Works(j), JobStep(j)
  PROVE  Works(j)'
<1>0. j \in Procs /\ TypeOK
  BY DEF SerialInv, Inductive, Procs
<1>1. CASE \/ Recheck(j) \/ CodedRead(j) \/ CodedNext(j) \/ ParkCheck(j) \/ Park(j)
           \/ PlannedRead(j) \/ PlannedNext(j) \/ PlannedChain(j) \/ Complete(j)
  BY <1>0, <1>1, IdleWorks
     DEF TypeOK, Recheck, FollowUp, CodedRead, CodedNext, ParkCheck, Park,
         PlannedRead, PlannedNext, PlannedChain, Complete, Go, Leave,
         AtPlanning, AtImplementation
<1>2. CASE Chain(j)
  <2>1. pc'[j] \in {"complete", "start"}
    BY <1>0, <1>2 DEF Chain, Go, TypeOK
  <2>2. QED
    BY <2>1, IdleWorks DEF AtPlanning, AtImplementation
<1>3. QED
  BY <1>1, <1>2, ExecutorWorks, HelperWorks, PipelineWorks DEF JobStep, ExecutorStep

\* No request comes to write a plan.
LEMMA RequestsDoNotPlan ==
  ASSUME SerialInv, Serial, NEW r \in Requests, RequestStep(r) \/ Request(r)
  PROVE  /\ pc'[r] # "plan.put"
         /\ pc'[r] = "approve.move" => ApproveCheck(r)
         /\ pc'[r] = "approve.mark" => ApproveMove(r)
         /\ \A s \in Requests \ {r} : pc'[s] = pc[s] \/ pc'[s] = "dead"
<1>0. /\ r \in Procs /\ TypeOK /\ \A s \in Requests : s \in Procs /\ s \notin Jobs
      /\ ~RepairStep(r) /\ ~CancelRead(r) /\ ~CancelWrite(r)
  BY ConfigAssumption, OthersAnswered DEF SerialInv, Inductive, Procs
<1>1. CASE PostJob(r) \/ (DragCreate(r) /\ ~(Leave(r) /\ UNCHANGED records))
  <2>1. pc' = [pc EXCEPT ![r] = "launch"]
    BY <1>1 DEF PostJob, DragCreate, CreateFor, Go
  <2>2. QED
    BY <1>0, <2>1 DEF TypeOK
<1>2. CASE Launch(r)
  <2>1. loc[r].job \in Jobs /\ pc' = [pc EXCEPT ![r] = "done", ![loc[r].job] = "start"]
    BY <1>0, <1>2 DEF Launch, SerialInv, Inductive, RequestInv
  <2>2. QED
    BY <1>0, <2>1 DEF TypeOK
<1>3. CASE Crash(r)
  BY <1>0, <1>3 DEF Crash, TypeOK
<1>4. CASE \/ DragPaused(r) \/ DragList(r) \/ Drag(r) \/ Approve(r) \/ ApproveForCoding(r)
           \/ (DragCreate(r) /\ Leave(r) /\ UNCHANGED records)
  BY <1>0, <1>4
     DEF DragPaused, DragList, Drag, Approve, DragCreate, ApproveForCoding,
         ApproveCheck, ApproveMove, ApproveMark, Go, Leave, TypeOK
<1>5. QED
  BY <1>0, <1>1, <1>2, <1>3, <1>4 DEF RequestStep, Request

\* Every step keeps WorksInv.
LEMMA WorksStep ==
  ASSUME SerialInv, WorksInv, Serial, [Next]_vars
  PROVE  WorksInv'
<1>1. CASE \E j \in Jobs : LiveStep(j)
  <2>1. PICK j \in Jobs : LiveStep(j)
    BY <1>1
  <2>2. ASSUME NEW k \in Jobs, k # j PROVE Works(k)'
    BY <2>1, <2>2, IdleWorks DEF LiveStep, AtPlanning, AtImplementation
  <2>3. QED
    BY <2>1, <2>2, OwnStepWorks DEF WorksInv, LiveStep
<1>2. CASE Beside \/ Still
  <2>1. ASSUME NEW k \in Jobs PROVE Works(k)'
    <3>1. CASE pc'[k] = pc[k] /\ loc'[k] = loc[k] /\ op'[k] = op[k]
      BY <3>1 DEF WorksInv, Works, Does, Running, IsPipeline
    <3>2. CASE pc'[k] \in {"none", "start", "done", "dead"}
      BY <3>2, IdleWorks DEF AtPlanning, AtImplementation
    <3>3. QED
      BY <1>2, <3>1, <3>2 DEF Beside, Still, Procs
  <2>2. CASE Still
    BY <2>1, <2>2, ConfigAssumption DEF WorksInv, Still, Procs
  <2>3. ASSUME NEW r \in Requests, RequestStep(r) \/ Request(r)
        PROVE  WorksInv'
    BY <2>1, <2>3, RequestsDoNotPlan DEF WorksInv
  <2>4. QED
    BY <1>1, <1>2, <2>2, <2>3, SerialShape DEF SerialInv
<1>3. QED
  BY <1>1, <1>2, SerialShape DEF SerialInv

-----------------------------------------------------------------------------
(* The coding session: how much is left, and who changes what it shows.    *)

\* The coding subtasks that count as work.
Left(p) == {x \in CodingSubtasks(p) : StatusAt(p, x) \notin {"completed", "done"}}

\* They are finitely many.
LEMMA LeftCounts ==
  ASSUME NEW p \in Plans
  PROVE  /\ IsFiniteSet(Left(p)) /\ Cardinality(Left(p)) \in Nat
         /\ Left(p) = {} => Cardinality(Left(p)) = 0
<1>1. Left(p) \subseteq Positions(p)
  BY DEF Left, CodingSubtasks
<1>2. IsFiniteSet(Left(p))
  BY <1>1, OpenSubtasksFinite, FS_Subset
<1>3. QED
  BY <1>2, FS_CardinalityType, FS_EmptySet

\* An implementation counts down by one, or completes what is not coding.
LEMMA ImplementationCounts ==
  ASSUME SerialInv, NEW j \in Jobs, ImplementPutPlan(j)
  PROVE  \/ CodingLeft > 0 /\ CodingLeft' = CodingLeft - 1
         \/ CodingLeft' = CodingLeft
<1> DEFINE x == FirstOpen(plan)
<1>0. plan \in Plans /\ CodingLeft = Cardinality(Left(plan)) /\ CodingLeft' = Cardinality(Left(plan'))
  BY DEF SerialInv, Inductive, TypeOK, CodingLeft, Left
<1>1. /\ x \in OpenSubtasks(plan) /\ StatusAt(plan', x) = "completed"
      /\ \A y \in Positions(plan) \ {x} : StatusAt(plan', y) = StatusAt(plan, y)
      /\ CodingSubtasks(plan') = CodingSubtasks(plan)
  BY ImplementationCompletes, SameShapeSamePositions
<1> HIDE DEF x
<1>2. Left(plan') = Left(plan) \ {x}
  BY <1>1 DEF Left, CodingSubtasks
<1>3. CASE x \in Left(plan)
  <2>1. Cardinality(Left(plan')) = Cardinality(Left(plan)) - 1
    BY <1>0, <1>2, <1>3, LeftCounts, FS_RemoveElement
  <2>2. Cardinality(Left(plan)) # 0
    BY <1>0, <1>3, LeftCounts, FS_EmptySet
  <2>3. QED
    BY <1>0, <2>1, <2>2, LeftCounts
<1>4. CASE x \notin Left(plan)
  <2>1. Left(plan') = Left(plan)
    BY <1>2, <1>4
  <2>2. QED
    BY <1>0, <2>1
<1>5. QED
  BY <1>3, <1>4

\* Before it writes a plan or records an approval, a process does nothing else.
LEMMA MarkedGoesOn ==
  ASSUME NEW j \in Jobs, JobStep(j)
  PROVE  /\ pc[j] = "plan.put" => PutPlanned(j)
         /\ pc[j] = "approve.mark" => ApproveMark(j)
<1> SUFFICES ASSUME pc[j] \in {"plan.put", "approve.mark"}
             PROVE  PutPlanned(j) \/ ApproveMark(j)
  BY DEF PutPlanned, ApproveMark
<1> USE DEF JobStep, ExecutorStep
<1>1. ~PipelineStep(j) /\ ~ImplementationStep(j) /\ ~RepairStep(j)
  BY DEF PipelineStep, ReportRead, ReportWrite, StopIfCancelled, StopIfPaused,
         PipeBegin, PipeRead, PipeApprove, PipeBudget, PipeLoop, PipeNext,
         PipeStepped, PipeDrained, PipeCount, PipePark, PipeDefer, PipeClear,
         ImplementationStep, ImplementGate, ImplementReadPlan, ImplementStart,
         ImplementNothing, ImplementPutPlan, ImplementReadProgress,
         ImplementFinish, ImplementPutProgress, RepairStep, RepairRead,
         RepairPutPlan, RepairReadProgress, RepairPutProgress, RepairMove
<1>2. QED
  BY <1>1
     DEF Start, Prepare, CheckCancelled, Spawn, Resolve, RecordResolution,
         RunContainer, Run, Gate, Fail, PlanningStep, ChoosePlan,
         PutFreshProgress, MovePlanned, PauseRead, PauseWrite, Recheck,
         CodedRead, CodedNext, ParkCheck, Park, PlannedRead, PlannedNext,
         PlannedChain, Chain, Complete, ApproveForCoding, ApproveCheck, ApproveMove

\* The approval of the session is given by the move of ApproveForCoding, and
\* it is never taken back.
LEMMA ApprovalChanges ==
  ASSUME SerialInv, Serial, "crash" \notin Offered, [Next]_vars
  PROVE  CodingApproved' <=> CodingApproved \/ \E p \in Procs : ApproveMove(p)
<1>0. TypeOK
  BY DEF SerialInv, Inductive
<1>1. ASSUME NEW p \in Procs, ApproveMove(p) PROVE CodingApproved'
  BY <1>0, <1>1 DEF ApproveMove, Go, TypeOK, CodingApproved
<1>2. ASSUME NEW p \in Procs, ApproveMark(p) PROVE CodingApproved /\ CodingApproved'
  BY <1>2 DEF ApproveMark, CodingApproved
<1>3. ASSUME NEW j \in Jobs, LiveStep(j)
      PROVE  CodingApproved' <=> CodingApproved \/ \E p \in Procs : ApproveMove(p)
  <2>0. j \in Procs /\ JobStep(j) /\ \A q \in Procs : q \in Jobs \/ q \in Requests
    BY <1>3 DEF LiveStep, Procs
  <2>1. CASE ApproveMark(j)
    BY <1>1, <1>2, <2>0, <2>1
  <2>2. CASE ~ApproveMark(j)
    <3>1. approved' = approved
      BY <2>0, <2>2, JobWrites
    <3>2. pc'[j] = "approve.mark" => ApproveMove(j)
      BY <2>0, PlansAreEntered DEF SerialInv
    <3>3. pc[j] # "approve.mark"
      BY <2>0, <2>2, MarkedGoesOn
    <3>4. ASSUME NEW k \in Jobs, k # j
          PROVE  pc[k] # "approve.mark" /\ pc'[k] # "approve.mark"
      BY <1>3, <3>4 DEF LiveStep, Live, SerialInv, Alone
    <3>5. \A r \in Requests : pc'[r] = pc[r]
      BY <1>3 DEF LiveStep
    <3>6. (\E p \in Procs : pc'[p] = "approve.mark") =>
            ApproveMove(j) \/ \E p \in Procs : pc[p] = "approve.mark"
      BY <2>0, <3>2, <3>4, <3>5
    <3>7. (\E p \in Procs : pc[p] = "approve.mark") =>
            \E p \in Procs : pc'[p] = "approve.mark"
      BY <2>0, <3>3, <3>4, <3>5
    <3>8. QED
      BY <1>1, <2>0, <3>1, <3>6, <3>7 DEF CodingApproved
  <2>3. QED
    BY <2>1, <2>2
<1>4. ASSUME NEW r \in Requests, RequestStep(r) \/ Request(r), Beside
      PROVE  CodingApproved' <=> CodingApproved \/ \E p \in Procs : ApproveMove(p)
  <2>0. r \in Procs /\ \A q \in Procs : q \in Jobs \/ q \in Requests
    BY DEF Procs
  <2>1. CASE ApproveMark(r)
    BY <1>1, <1>2, <2>0, <2>1
  <2>2. CASE ~ApproveMark(r)
    <3>1. approved' = approved
      BY <1>4, <2>2, RequestWrites
    <3>2. pc'[r] = "approve.mark" => ApproveMove(r)
      BY <1>4, RequestsDoNotPlan
    <3>3. pc[r] # "approve.mark"
      BY <1>4, <2>2
         DEF RequestStep, Request, Launch, DragPaused, DragList, DragCreate,
             CancelWrite, RepairStep, RepairRead, RepairPutPlan,
             RepairReadProgress, RepairPutProgress, RepairMove,
             ApproveForCoding, ApproveCheck, ApproveMove, PostJob, Drag,
             Approve, CancelRead, Crash, Arrives
    <3>4. \A k \in Jobs : pc'[k] = pc[k] \/ {pc[k], pc'[k]} \subseteq {"none", "start", "done"}
      BY <1>4 DEF Beside
    <3>5. \A s \in Requests \ {r} : pc'[s] = pc[s] \/ pc'[s] = "dead"
      BY <1>4, RequestsDoNotPlan
    <3>6. \A s \in Requests \ {r} : pc[s] # "approve.mark"
      BY <1>4, OthersAnswered DEF Answered, SerialInv
    <3>7. (\E p \in Procs : pc'[p] = "approve.mark") =>
            ApproveMove(r) \/ \E p \in Procs : pc[p] = "approve.mark"
      BY <2>0, <3>2, <3>4, <3>5
    <3>8. (\E p \in Procs : pc[p] = "approve.mark") =>
            \E p \in Procs : pc'[p] = "approve.mark"
      BY <2>0, <3>3, <3>4, <3>6
    <3>9. QED
      BY <1>1, <2>0, <3>1, <3>7, <3>8 DEF CodingApproved
  <2>3. QED
    BY <2>1, <2>2
<1>5. CASE Still
  <2>1. approved' = approved
        /\ \A p \in Procs : pc'[p] = "approve.mark" <=> pc[p] = "approve.mark"
    BY <1>5 DEF Still, task
  <2>2. QED
    BY <1>1, <2>1 DEF CodingApproved
<1>6. QED
  BY <1>3, <1>4, <1>5, SerialShape DEF SerialInv

\* A planning job is at its write from ChoosePlan to PutPlanned.
LEMMA PlanningChanges ==
  ASSUME SerialInv, WorksInv, Serial, "crash" \notin Offered, [Next]_vars
  PROVE  \/ \E j \in Jobs : /\ ChoosePlan(j) /\ LiveStep(j)
                            /\ \A p \in Procs : pc[p] # "plan.put"
                            /\ pc'[j] = "plan.put"
         \/ \E j \in Jobs : /\ PutPlanned(j) /\ LiveStep(j)
                            /\ \A p \in Procs : pc'[p] # "plan.put"
         \/ \A p \in Procs : pc'[p] = "plan.put" <=> pc[p] = "plan.put"
<1>0. TypeOK /\ \A q \in Procs : q \in Jobs \/ q \in Requests
  BY DEF SerialInv, Inductive, Procs
<1>1. \A r \in Requests : pc[r] # "plan.put" /\ pc'[r] # "plan.put"
  BY WorksStep DEF WorksInv
<1>2. ASSUME NEW j \in Jobs, LiveStep(j)
      PROVE  \/ /\ ChoosePlan(j) /\ pc'[j] = "plan.put"
                /\ \A p \in Procs : pc[p] # "plan.put"
             \/ PutPlanned(j) /\ \A p \in Procs : pc'[p] # "plan.put"
             \/ \A p \in Procs : pc'[p] = "plan.put" <=> pc[p] = "plan.put"
  <2>0. j \in Procs /\ JobStep(j)
    BY <1>2 DEF LiveStep, Procs
  <2>1. ASSUME NEW k \in Jobs, k # j
        PROVE  pc[k] # "plan.put" /\ pc'[k] # "plan.put"
    BY <1>2, <2>1 DEF LiveStep, Live, SerialInv, Alone
  <2>2. ChoosePlan(j) => pc[j] # "plan.put" /\ pc'[j] = "plan.put"
    BY <1>0, <2>0 DEF ChoosePlan, Go, TypeOK
  <2>3. PutPlanned(j) => pc'[j] # "plan.put"
    BY <1>0, <2>0 DEF PutPlanned, Go, TypeOK
  <2>4. CASE ~ChoosePlan(j) /\ ~PutPlanned(j)
    <3>1. pc[j] # "plan.put" /\ pc'[j] # "plan.put"
      BY <2>0, <2>4, MarkedGoesOn, PlansAreEntered DEF SerialInv
    <3>2. QED
      BY <1>0, <1>1, <2>1, <3>1
  <2>5. QED
    BY <1>0, <1>1, <2>1, <2>2, <2>3, <2>4
<1>3. CASE Beside \/ Still
  <2>1. \A k \in Jobs : pc'[k] = "plan.put" <=> pc[k] = "plan.put"
    BY <1>3 DEF Beside, Still, Procs
  <2>2. QED
    BY <1>0, <1>1, <2>1
<1>4. QED
  BY <1>2, <1>3, SerialShape DEF SerialInv

-----------------------------------------------------------------------------
(* SessionInv: no coding on its way before the approval.                   *)

\* Where nobody posts a repair no job repairs.
LEMMA NothingRepairs ==
  ASSUME SerialInv, NamedInv, SessionEnv, NEW j \in Jobs
  PROVE  pc[j] \notin AtRepair \ {"pause", "pause.put"} /\ ~RepairStep(j)
<1>1. SUFFICES pc[j] \notin AtRepair \ {"pause", "pause.put"}
  BY DEF RepairStep, RepairRead, RepairPutPlan, RepairReadProgress,
         RepairPutProgress, RepairMove, AtRepair
<1>2. SUFFICES ASSUME pc[j] \in AtRepair \ {"pause", "pause.put"} PROVE FALSE
  OBVIOUS
<1>3. op[j] \in Repairs /\ jobState[j] # "none"
  BY <1>2 DEF NamedInv, Named, SerialInv, Inductive, JobInv, JobRecorded, AtRepair
<1>4. op[j] \in Posted \cup {"run-planning", "run-implementation"}
  BY <1>3 DEF NamedInv, Named
<1>5. QED
  BY <1>3, <1>4 DEF SessionEnv, Repairs

\* What a live job may rely on while the planned task waits.
LEMMA WaitingJob ==
  ASSUME SerialInv, NEW j \in Jobs, Live(j), Waiting, plan # << >>
  PROVE  /\ ~Gated(j) /\ pc[j] # "implement.plan"
         /\ status = "human_review" \/ pc[j] \in {"plan.progress", "plan.move"}
  BY DEF Waiting, SerialInv, Alone, Live

\* The steps of the executor and of planning begin no coding.
LEMMA ExecutorWaits ==
  ASSUME SerialInv, WorksInv, NEW j \in Jobs,
         \/ Start(j) \/ Prepare(j) \/ CheckCancelled(j) \/ Spawn(j) \/ Resolve(j)
         \/ RecordResolution(j) \/ RunContainer(j) \/ Run(j) \/ Gate(j) \/ Fail(j)
         \/ PlanningStep(j) \/ PauseRead(j) \/ PauseWrite(j)
  PROVE  ~Gated(j)' /\ pc'[j] # "implement.plan"
<1>0. j \in Procs /\ TypeOK /\ loc[j] \in Locals /\ Works(j)
  BY DEF SerialInv, Inductive, TypeOK, Procs, WorksInv
<1> USE DEF Go, Leave, task, records
<1>1. CASE \/ Start(j) \/ Prepare(j) \/ CheckCancelled(j) \/ Spawn(j) \/ Resolve(j)
           \/ RecordResolution(j) \/ RunContainer(j) \/ Run(j) \/ Gate(j) \/ Fail(j)
  <2>1. pc'[j] \in {"prepare", "check", "done", "spawn", "run", "resolve", "record",
                   "container", "gate", "fail", "plan", "implement", "pipe",
                   "pause", "repair"}
    BY <1>0, <1>1, EntryOfActions
       DEF TypeOK, Start, Prepare, CheckCancelled, Spawn, Resolve,
           RecordResolution, RunContainer, AfterContainer, Run, Gate, Fail
  <2>2. QED
    BY <2>1 DEF Gated, ParksNext
<1>2. CASE ChoosePlan(j) \/ PutPlanned(j) \/ PutFreshProgress(j)
  <2>1. pc'[j] \in {"plan.put", "plan.progress", "plan.move"}
    BY <1>0, <1>2 DEF TypeOK, ChoosePlan, PutPlanned, PutFreshProgress
  <2>2. QED
    BY <2>1 DEF Gated, ParksNext
<1>3. CASE MovePlanned(j)
  <2>1. pc[j] = "plan.move" /\ pc'[j] = AfterStep(j) /\ loc' = loc /\ op' = op
    BY <1>0, <1>3 DEF TypeOK, MovePlanned
  <2>2. Running(j) \in Planning
    BY <1>0, <2>1 DEF Works, Does, AtPlanning
  <2>3. QED
    BY <2>1, <2>2 DEF AfterStep, Running, IsPipeline, Planning, Gated, ParksNext
<1>4. CASE PauseRead(j) \/ PauseWrite(j)
  <2>1. pc[j] \in {"pause", "pause.put"} /\ pc'[j] \in {"pause.put", "recheck"} /\ op' = op
    BY <1>0, <1>4 DEF TypeOK, PauseRead, PauseWrite
  <2>2. op[j] \in Pausing
    BY <1>0, <2>1 DEF Works
  <2>3. QED
    BY <2>1, <2>2 DEF Pausing, Gated, ParksNext
<1>5. QED
  BY <1>1, <1>2, <1>3, <1>4 DEF PlanningStep

\* An implementation finds the task waiting and fails, and so does not begin;
\* what follows an implementation has none to follow.
LEMMA CodingWaits ==
  ASSUME SerialInv, RequireReview, ~CodingApproved, ~CodingApproved',
         Waiting, plan # << >>, NEW j \in Jobs, Live(j),
         \/ ImplementationStep(j) \/ ApproveForCoding(j) \/ Recheck(j)
         \/ CodedRead(j) \/ CodedNext(j) \/ ParkCheck(j) \/ Park(j)
         \/ PlannedRead(j) \/ PlannedNext(j) \/ PlannedChain(j) \/ Complete(j)
         \/ Chain(j)
  PROVE  ~Gated(j)' /\ pc'[j] # "implement.plan"
<1>0. /\ j \in Procs /\ TypeOK /\ loc[j] \in Locals
      /\ ~Gated(j) /\ pc[j] # "implement.plan"
      /\ status = "human_review" \/ pc[j] \in {"plan.progress", "plan.move"}
  BY WaitingJob DEF SerialInv, Inductive, TypeOK, Procs
<1> USE DEF Go, Leave, Abort, task, records
<1>1. CASE ImplementGate(j)
  <2>1. pc[j] = "implement" /\ ~approved
    BY <1>1 DEF ImplementGate, CodingApproved
  <2>2. pc'[j] = AfterStep(j) /\ loc'[j].err /\ op' = op
    BY <1>0, <1>1, <2>1 DEF TypeOK, ImplementGate, Locals
  <2>3. QED
    BY <2>2 DEF AfterStep, Gated, ParksNext
<1>2. ~ImplementReadPlan(j) /\ ~ImplementStart(j) /\ ~ImplementNothing(j)
      /\ ~ImplementPutPlan(j) /\ ~ImplementReadProgress(j) /\ ~ImplementFinish(j)
      /\ ~ImplementPutProgress(j) /\ ~CodedRead(j) /\ ~CodedNext(j)
      /\ ~ParkCheck(j) /\ ~Park(j)
  BY <1>0
     DEF Gated, ImplementReadPlan, ImplementStart, ImplementNothing,
         ImplementPutPlan, ImplementReadProgress, ImplementFinish,
         ImplementPutProgress, CodedRead, CodedNext, ParkCheck, Park
<1>3. CASE ApproveForCoding(j)
  <2>1. ~ApproveMark(j)
    BY DEF ApproveMark, CodingApproved
  <2>2. pc'[j] \in {"approve.move", "approve.mark", "complete", "pipe.defer", "done"}
    BY <1>0, <1>3, <2>1 DEF TypeOK, ApproveForCoding, ApproveCheck, ApproveMove
  <2>3. QED
    BY <2>2 DEF Gated, ParksNext
<1>4. CASE Recheck(j)
  <2>1. pc'[j] \in {"done", "fail", "planned", "complete"}
    BY <1>0, <1>4 DEF TypeOK, Recheck, FollowUp, Gated
  <2>2. QED
    BY <2>1 DEF Gated, ParksNext
<1>5. CASE PlannedRead(j) \/ PlannedNext(j) \/ PlannedChain(j) \/ Complete(j) \/ Chain(j)
  <2>1. pc'[j] \in {"planned.next", "complete", "planned.chain", "approve", "chain",
                   "done", "start"}
    <3>1. CASE Chain(j)
      BY <1>0, <3>1 DEF TypeOK, Chain
    <3>2. CASE ~Chain(j)
      BY <1>0, <1>5, <3>2 DEF TypeOK, PlannedRead, PlannedNext, PlannedChain, Complete
    <3>3. QED
      BY <3>1, <3>2
  <2>2. QED
    BY <2>1 DEF Gated, ParksNext
<1>6. QED
  BY <1>1, <1>2, <1>3, <1>4, <1>5 DEF ImplementationStep

\* A pipeline asks for the approval before it goes on.
LEMMA PipelineWaits ==
  ASSUME SerialInv, NamedInv, WorksInv, RequireReview, ~CodingApproved,
         Waiting, plan # << >>, NEW j \in Jobs, Live(j), PipelineStep(j)
  PROVE  ~Gated(j)' /\ pc'[j] # "implement.plan"
<1>0. /\ j \in Procs /\ TypeOK /\ loc[j] \in Locals /\ Returns(j)
      /\ ~Gated(j) /\ pc[j] # "implement.plan"
      /\ status = "human_review" \/ pc[j] \in {"plan.progress", "plan.move"}
      /\ pc[j] \in AtPipeline => IsPipeline(j)
  BY WaitingJob DEF SerialInv, Inductive, TypeOK, Procs, Current, JobInv, JobPlace
<1> USE DEF Go, Abort, task, records
<1>1. CASE ReportRead(j)
  <2>1. pc[j] = "report" /\ pc'[j] = "report.put" /\ loc'[j].ret = loc[j].ret
    BY <1>0, <1>1 DEF TypeOK, ReportRead, Locals
  <2>2. QED
    BY <1>0, <2>1 DEF Gated, ParksNext
<1>2. CASE ReportWrite(j)
  <2>1. pc[j] = "report.put" /\ pc'[j] = loc[j].ret
    BY <1>0, <1>2 DEF TypeOK, ReportWrite
  <2>2. pc'[j] \in {"pipe.read", "pipe.defer", "resolve", "plan", "implement"}
    BY <1>0, <2>1 DEF Returns, Gated, ParksNext
  <2>3. QED
    BY <2>2 DEF Gated, ParksNext
<1>3. CASE StopIfCancelled(j) \/ StopIfPaused(j)
  <2>1. /\ pc[j] \in {"stop", "stop.paused"} /\ loc[j].ret = "pipe.approve"
        /\ \/ pc'[j] = "pipe.defer"
           \/ pc'[j] \in {"stop.paused", "pipe.approve"} /\ loc' = loc
    BY <1>0, <1>3 DEF TypeOK, StopIfCancelled, StopIfPaused, Returns, Gated
  <2>2. QED
    BY <2>1 DEF Gated, ParksNext
<1>4. CASE PipeBegin(j) \/ PipeRead(j)
  <2>1. \/ pc'[j] = "report" /\ loc'[j].ret = "pipe.read"
        \/ pc'[j] = "pipe.approve"
    BY <1>0, <1>4 DEF TypeOK, Locals, PipeBegin, PipeRead, Report
  <2>2. QED
    BY <2>1 DEF Gated, ParksNext
<1>5. CASE PipeApprove(j)
  <2>1. pc'[j] = "approve"
    BY <1>0, <1>5 DEF TypeOK, PipeApprove, CodingApproved
  <2>2. QED
    BY <2>1 DEF Gated, ParksNext
<1>6. CASE PipeStepped(j)
  <2>1. pc[j] = "pipe.stepped" /\ loc[j].step \in Agents /\ IsPipeline(j)
    BY <1>0, <1>6 DEF PipeStepped, WorksInv, Works, AtPipeline
  <2>2. loc[j].err \/ loc[j].step \in Planning
    BY <1>0, <2>1 DEF Gated, Agents
  <2>3. \/ pc'[j] = "pipe.defer"
        \/ pc'[j] = "stop" /\ loc'[j].ret = "pipe.approve"
    BY <1>0, <1>6, <2>2 DEF TypeOK, Locals, PipeStepped, Check
  <2>4. QED
    BY <2>3 DEF Gated, ParksNext
<1>7. CASE PipeDefer(j) \/ PipeClear(j)
  <2>1. pc[j] \in AtPipeline /\ pc'[j] \in {"pipe.clear", "recheck"} /\ op' = op
    BY <1>0, <1>7 DEF TypeOK, PipeDefer, PipeClear, AtPipeline
  <2>2. QED
    BY <1>0, <2>1 DEF IsPipeline, Gated, ParksNext
<1>8. ~PipeBudget(j) /\ ~PipeLoop(j) /\ ~PipeNext(j) /\ ~PipeDrained(j)
      /\ ~PipeCount(j) /\ ~PipePark(j)
  BY <1>0
     DEF Gated, ParksNext, PipeBudget, PipeLoop, PipeNext, PipeDrained, PipeCount, PipePark
<1>9. QED
  BY <1>1, <1>2, <1>3, <1>4, <1>5, <1>6, <1>7, <1>8 DEF PipelineStep

\* A step of the live job lets the task wait, or approves it.
LEMMA JobWaits ==
  ASSUME SerialInv, NamedInv, WorksInv, SessionInv, SessionEnv, NEW j \in Jobs, LiveStep(j),
         RequireReview, ~CodingApproved, ~CodingApproved'
  PROVE  Waiting'
<1>0. /\ j \in Procs /\ TypeOK /\ JobStep(j) /\ Live(j) /\ Current(j)
      /\ Waiting /\ ~RepairStep(j) /\ j \notin Requests
  BY NothingRepairs, ConfigAssumption
     DEF SerialInv, Inductive, TypeOK, Procs, LiveStep, SessionInv
<1>1. ASSUME NEW k \in Jobs, k # j PROVE ~Gated(k)' /\ pc'[k] # "implement.plan"
  BY <1>1 DEF LiveStep, Gated, ParksNext
<1>2. ~ApproveMove(j)
  BY <1>0 DEF ApproveMove, Go, TypeOK, CodingApproved
<1>3. ImplementStart(j) \/ ImplementNothing(j) \/ ImplementPutPlan(j)
        \/ ImplementFinish(j) \/ Park(j) \/ PipePark(j) => plan # << >> /\ Gated(j)
  BY <1>0
     DEF ImplementStart, ImplementNothing, ImplementPutPlan, ImplementFinish,
         Park, PipePark, Current, ParksNext, AllCodingComplete, CodingSubtasks,
         Positions, Gated
<1>4. ~ImplementStart(j) /\ ~ImplementNothing(j) /\ ~ImplementPutPlan(j)
      /\ ~ImplementFinish(j) /\ ~Park(j) /\ ~PipePark(j)
  BY <1>0, <1>3, WaitingJob
<1>5. ~RepairMove(j) /\ ~RepairPutPlan(j)
  BY <1>0 DEF RepairStep
<1>6. MovePlanned(j) => status' = "human_review"
  BY DEF MovePlanned, MoveTask
<1>7. status' = status \/ MovePlanned(j)
  BY <1>0, <1>2, <1>4, <1>5, JobWrites
<1>8. plan' = plan \/ PutPlanned(j)
  BY <1>0, <1>4, <1>5, JobWrites
<1>9. status' # "review"
  BY <1>0, <1>6, <1>7 DEF Waiting
<1>10. ASSUME plan' # << >>
       PROVE  /\ status' = "human_review" \/ pc'[j] \in {"plan.progress", "plan.move"}
              /\ ~Gated(j)' /\ pc'[j] # "implement.plan"
  <2>1. CASE PutPlanned(j)
    BY <1>0, <2>1, ExecutorWaits DEF PutPlanned, Go, TypeOK, PlanningStep
  <2>2. CASE ~PutPlanned(j)
    <3>1. plan # << >>
      BY <1>8, <1>10, <2>2
    <3>2. ~Gated(j)' /\ pc'[j] # "implement.plan"
      BY <1>0, <3>1, ExecutorWaits, CodingWaits, PipelineWaits DEF JobStep, ExecutorStep
    <3>3. CASE pc[j] \in {"plan.progress", "plan.move"}
      <4>1. PutFreshProgress(j) \/ MovePlanned(j)
        BY <1>0, <3>3, TornGoesOn DEF RepairStep
      <4>2. PutFreshProgress(j) => pc'[j] = "plan.move"
        BY <1>0 DEF PutFreshProgress, Go, TypeOK
      <4>3. QED
        BY <1>6, <3>2, <4>1, <4>2
    <3>4. CASE status = "human_review"
      BY <1>6, <1>7, <3>2, <3>4
    <3>5. QED
      BY <1>0, <3>1, <3>3, <3>4, WaitingJob
  <2>3. QED
    BY <2>1, <2>2
<1>11. QED
  BY <1>1, <1>9, <1>10 DEF Waiting

\* Where no approval is required none is given.
LEMMA JobNeedsNoApproval ==
  ASSUME SerialInv, NamedInv, SessionInv, SessionEnv, NEW j \in Jobs, LiveStep(j),
         ~RequireReview
  PROVE  NoApproval'
<1>0. j \in Procs /\ TypeOK /\ JobStep(j) /\ NoApproval /\ ~RepairStep(j)
  BY NothingRepairs DEF SerialInv, Inductive, Procs, LiveStep, SessionInv
<1>1. pc[j] \notin {"approve.move", "approve.mark"} /\ ~ApproveMove(j) /\ ~ApproveMark(j)
  BY <1>0 DEF NoApproval, ApproveMove, ApproveMark
<1>2. status' # "human_review"
  <2>1. ~RepairMove(j)
    BY <1>0 DEF RepairStep
  <2>2. QED
    BY <1>0, <1>1, <2>1, JobWrites
       DEF MovePlanned, ImplementStart, ImplementNothing, ImplementFinish, Park,
           PipePark, MoveTask, NoApproval
<1>3. approved' = approved
  BY <1>0, <1>1, JobWrites
<1>4. pc'[j] \notin {"approve.move", "approve.mark"}
  <2>1. pc'[j] = "approve.move" => status = "human_review"
    <3>1. pc'[j] = "approve.move" => ApproveCheck(j)
      BY <1>0, PlansAreEntered DEF SerialInv
    <3>2. ApproveCheck(j) /\ status # "human_review" => pc'[j] # "approve.move"
      BY <1>0 DEF ApproveCheck, Go, Leave, Abort, TypeOK
    <3>3. QED
      BY <3>1, <3>2
  <2>2. QED
    BY <1>0, <1>1, <2>1, PlansAreEntered DEF SerialInv, NoApproval
<1>5. \A p \in Procs \ {j} : pc'[p] \notin {"approve.move", "approve.mark"}
  BY <1>0 DEF LiveStep, NoApproval, Procs
<1>6. QED
  BY <1>0, <1>2, <1>3, <1>4, <1>5 DEF NoApproval

\* The builtin plan gives nothing up and names every subtask.
LEMMA BuiltinIsClean == Clean(BuiltinPlan)
<1>1. ASSUME NEW x \in Positions(BuiltinPlan)
      PROVE  x[1] \in 1..3 /\ x[2] \in DOMAIN BuiltinPlan[x[1]].subtasks
  BY DEF Positions, BuiltinPlan
<1>2. ASSUME NEW x \in Positions(BuiltinPlan)
      PROVE  StatusAt(BuiltinPlan, x) \notin {"stuck", "failed"} /\ HasId(BuiltinPlan, x)
  <2>1. CASE x[1] = 1
    BY <1>1, <2>1 DEF BuiltinPlan, StatusAt, HasId
  <2>2. CASE x[1] = 2
    BY <1>1, <2>2 DEF BuiltinPlan, StatusAt, HasId
  <2>3. CASE x[1] = 3
    BY <1>1, <2>3 DEF BuiltinPlan, StatusAt, HasId
  <2>4. QED
    BY <1>1, <2>1, <2>2, <2>3
<1>3. QED
  BY <1>2 DEF Clean

\* A follow-up adds a pending subtask and gives nothing up.
LEMMA FollowUpIsClean ==
  ASSUME NEW p \in Plans, Clean(p)
  PROVE  Clean(WithFollowUp(p))
<1> DEFINE ph == [kind |-> "coding", subtasks |-> <<"pending">>, unnamed |-> {}]
           q == Append(p, ph)
<1>1. CASE p = << >>
  BY <1>1, BuiltinIsClean DEF WithFollowUp
<1>2. CASE p # << >>
  <2>1. /\ DOMAIN q = DOMAIN p \cup {Len(p) + 1} /\ q[Len(p) + 1] = ph
        /\ \A i \in DOMAIN p : q[i] = p[i]
    BY PlansAreSequences
  <2>2. ASSUME NEW x \in Positions(q)
        PROVE  StatusAt(q, x) \notin {"stuck", "failed"} /\ HasId(q, x)
    <3>1. x[1] \in DOMAIN q /\ x[2] \in DOMAIN q[x[1]].subtasks /\ x = <<x[1], x[2]>>
      BY <2>2 DEF Positions
    <3>2. CASE x[1] \in DOMAIN p
      <4>1. x \in Positions(p)
        BY <2>1, <3>1, <3>2 DEF Positions
      <4>2. QED
        BY <2>1, <3>2, <4>1 DEF Clean, StatusAt, HasId
    <3>3. CASE x[1] = Len(p) + 1
      BY <2>1, <3>1, <3>3 DEF StatusAt, HasId
    <3>4. QED
      BY <2>1, <3>1, <3>2, <3>3
  <2>3. QED
    BY <1>2, <2>2 DEF WithFollowUp, Clean
<1>3. QED
  BY <1>1, <1>2

\* A job comes to complete a subtask when it has moved the card.
LEMMA CompletionsAreEntered ==
  ASSUME Inductive, NEW j \in Jobs, JobStep(j), pc'[j] = "implement.put"
  PROVE  ImplementStart(j)
<1>0. j \in Procs /\ TypeOK /\ JobInv(j) /\ j \notin Requests
  BY ConfigAssumption DEF Inductive, Procs
<1> USE DEF TypeOK, Go, Leave, Abort
<1>1. ~Start(j) /\ ~Prepare(j) /\ ~CheckCancelled(j) /\ ~Spawn(j) /\ ~Resolve(j)
      /\ ~RecordResolution(j) /\ ~RunContainer(j) /\ ~Run(j) /\ ~Gate(j) /\ ~Fail(j)
  BY <1>0, EntryOfActions
     DEF Start, Prepare, CheckCancelled, Spawn, Resolve, RecordResolution,
         RunContainer, AfterContainer, Run, Gate, Fail
<1>2. ~PlanningStep(j) /\ ~ImplementGate(j) /\ ~ImplementReadPlan(j)
      /\ ~ImplementNothing(j) /\ ~ImplementPutPlan(j) /\ ~ImplementReadProgress(j)
      /\ ~ImplementFinish(j) /\ ~ImplementPutProgress(j)
  BY <1>0
     DEF PlanningStep, ChoosePlan, PutPlanned, PutFreshProgress, MovePlanned,
         AfterStep, ImplementGate, ImplementReadPlan, ImplementNothing,
         ImplementPutPlan, ImplementReadProgress, ImplementFinish,
         ImplementPutProgress
<1>3. ~RepairStep(j) /\ ~PauseRead(j) /\ ~PauseWrite(j)
  BY <1>0
     DEF RepairStep, RepairRead, RepairNothing, RepairPutPlan,
         RepairReadProgress, RepairPutProgress, RepairMove, PauseRead, PauseWrite
<1>4. ~Recheck(j) /\ ~CodedRead(j) /\ ~CodedNext(j) /\ ~ParkCheck(j) /\ ~Park(j)
      /\ ~PlannedRead(j) /\ ~PlannedNext(j) /\ ~PlannedChain(j) /\ ~Complete(j)
      /\ ~Chain(j)
  BY <1>0
     DEF Recheck, FollowUp, CodedRead, CodedNext, ParkCheck, Park, PlannedRead,
         PlannedNext, PlannedChain, Complete, Chain
<1>5. pc[j] \in {"approve.mark", "report.put", "stop.paused"} =>
        loc[j].ret # "implement.put"
  BY <1>0 DEF JobInv, JobPlace, PipelineReturns, PlanningReturns, AtApproval, AtPipeline
<1>6. ~PipelineStep(j) /\ ~ApproveForCoding(j)
  BY <1>0, <1>5
     DEF ApproveForCoding, ApproveCheck, ApproveMove, ApproveMark,
         PipelineStep, ReportRead, ReportWrite, StopIfCancelled, StopIfPaused,
         PipeBegin, PipeRead, PipeApprove, PipeBudget, PipeLoop, PipeNext,
         PipeStepped, PipeDrained, PipeCount, PipePark, PipeDefer, PipeClear,
         Report, ReportStep, ReportAndFail, Check
<1>7. QED
  BY <1>1, <1>2, <1>3, <1>4, <1>6 DEF JobStep, ExecutorStep, ImplementationStep

\* A plan a job writes gives nothing up, and an implementation takes the card
\* out of review before it completes a subtask.
LEMMA JobKeepsClean ==
  ASSUME SerialInv, NamedInv, SessionInv, SessionEnv, NEW j \in Jobs, LiveStep(j)
  PROVE  /\ Clean(plan')
         /\ \A k \in Jobs : pc'[k] = "plan.put" => Clean(loc'[k].plan)
         /\ \A k \in Jobs : pc'[k] = "implement.put" => status' # "review"
<1>0. j \in Procs /\ TypeOK /\ JobStep(j) /\ Clean(plan) /\ ~RepairStep(j) /\ loc[j] \in Locals
  BY NothingRepairs DEF SerialInv, Inductive, TypeOK, Procs, LiveStep, SessionInv
<1>1. Clean(plan')
  <2>1. CASE PutPlanned(j)
    BY <2>1 DEF PutPlanned, SessionInv
  <2>2. CASE ImplementPutPlan(j)
    <3>1. /\ Positions(plan') = Positions(plan)
          /\ \A x \in Positions(plan) : HasId(plan', x) <=> HasId(plan, x)
      BY <2>2, ImplementationCompletes, SameShapeSamePositions
    <3>2. QED
      BY <1>0, <2>2, <3>1, ImplementationCompletes DEF Clean
  <2>3. QED
    BY <1>0, <2>1, <2>2, JobWrites DEF RepairStep
<1>2. ChoosePlan(j) => Clean(loc'[j].plan)
  <2>1. SUFFICES ASSUME ChoosePlan(j) PROVE Clean(loc'[j].plan)
    OBVIOUS
  <2>2. loc'[j].plan \in ModelPlans \cup {BuiltinPlan, WithFollowUp(plan)}
    BY <1>0, <2>1 DEF ChoosePlan, TypeOK, Locals
  <2>3. Clean(BuiltinPlan)
    BY BuiltinIsClean
  <2>4. Clean(WithFollowUp(plan))
    BY <1>0, <2>3, FollowUpIsClean DEF TypeOK
  <2>5. QED
    BY <2>2, <2>3, <2>4 DEF SessionEnv
<1>3. pc'[j] = "implement.put" => status' = "in_progress"
  <2>1. SUFFICES ASSUME pc'[j] = "implement.put" PROVE ImplementStart(j)
    BY DEF ImplementStart, MoveTask
  <2>2. QED
    BY <1>0, <2>1, CompletionsAreEntered DEF SerialInv
<1>4. \A k \in Jobs \ {j} : pc'[k] \notin {"plan.put", "implement.put"}
  BY DEF LiveStep
<1>5. QED
  BY <1>0, <1>1, <1>2, <1>3, <1>4, PlansAreEntered DEF SerialInv

\* A request moves the card by approving it, or where no approval is required.
LEMMA RequestMoves ==
  ASSUME SerialInv, SessionEnv, NEW r \in Requests, RequestStep(r) \/ Request(r)
  PROVE  \/ status' = status
         \/ ApproveMove(r)
         \/ ~RequireReview /\ status' \notin {"review", "human_review"}
<1>1. ~RepairStep(r)
  BY OthersAnswered DEF SerialInv, SessionEnv
<1>2. QED
  BY <1>1, RequestWrites DEF SessionEnv

\* What no live job does lets the task wait.
LEMMA AsideWaits ==
  ASSUME Waiting, Beside \/ Still, "crash" \notin Offered, status' = status
  PROVE  Waiting'
<1>1. plan' = plan
  BY DEF Beside, Still, task
<1>2. ASSUME NEW j \in Jobs
      PROVE  \/ pc'[j] = pc[j] /\ loc'[j] = loc[j] /\ op'[j] = op[j]
             \/ /\ pc[j] \in {"none", "done", "complete"}
                /\ pc'[j] \in {"none", "start", "done"}
  BY DEF Beside, Still, Procs
<1>3. ASSUME NEW j \in Jobs, ~Gated(j), pc[j] # "implement.plan"
      PROVE  ~Gated(j)' /\ pc'[j] # "implement.plan"
  BY <1>2, <1>3 DEF Gated, ParksNext
<1>4. (\E j \in Jobs : pc[j] \in {"plan.progress", "plan.move"}) =>
         \E j \in Jobs : pc'[j] \in {"plan.progress", "plan.move"}
  BY <1>2
<1>5. QED
  BY <1>1, <1>3, <1>4 DEF Waiting

\* A request approves nothing where no approval is required.
LEMMA RequestNeedsNoApproval ==
  ASSUME SerialInv, SessionInv, SessionEnv, NEW r \in Requests,
         RequestStep(r) \/ Request(r), Beside, ~RequireReview
  PROVE  NoApproval'
<1>0. /\ r \in Procs /\ TypeOK /\ NoApproval /\ Serial
      /\ \A q \in Procs : q \in Jobs \/ q \in Requests
  BY DEF SerialInv, Inductive, Procs, SessionInv, SessionEnv
<1>1. ~ApproveMove(r) /\ ~ApproveMark(r)
  BY <1>0 DEF NoApproval, ApproveMove, ApproveMark
<1>2. status' # "human_review"
  BY <1>0, <1>1, RequestMoves DEF NoApproval
<1>3. approved' = approved
  BY <1>1, RequestWrites
<1>4. ~(ApproveCheck(r) /\ pc'[r] = "approve.move")
  BY <1>0 DEF ApproveCheck, Go, Leave, Abort, TypeOK, NoApproval
<1>5. pc'[r] \notin {"approve.move", "approve.mark"}
  BY <1>0, <1>1, <1>4, RequestsDoNotPlan
<1>6. \A s \in Requests : pc'[s] \notin {"approve.move", "approve.mark"}
  BY <1>0, <1>5, RequestsDoNotPlan DEF NoApproval, Procs
<1>7. \A j \in Jobs : pc'[j] \notin {"approve.move", "approve.mark"}
  BY <1>0 DEF Beside, NoApproval, Procs
<1>8. QED
  BY <1>0, <1>2, <1>3, <1>6, <1>7 DEF NoApproval

\* Every step keeps SessionInv.
LEMMA SessionStep ==
  ASSUME SerialInv, NamedInv, WorksInv, SessionInv, SessionEnv, [Next]_vars
  PROVE  SessionInv'
<1>0. Serial /\ "crash" \notin Offered
  BY DEF SessionEnv
<1>1. ~CodingApproved' => ~CodingApproved /\ \A p \in Procs : ~ApproveMove(p)
  BY <1>0, ApprovalChanges
<1>2. ASSUME NEW j \in Jobs, LiveStep(j) PROVE SessionInv'
  BY <1>1, <1>2, JobWaits, JobNeedsNoApproval, JobKeepsClean DEF SessionInv
<1>3. ASSUME Beside \/ Still PROVE Clean(plan')
                              /\ \A j \in Jobs : pc'[j] = "plan.put" => Clean(loc'[j].plan)
  BY <1>0, <1>3 DEF SessionInv, Beside, Still, task, Procs
<1>4. ASSUME NEW r \in Requests, RequestStep(r) \/ Request(r), Beside
      PROVE  SessionInv'
  <2>0. r \in Procs
    BY DEF Procs
  <2>1. RequireReview /\ ~CodingApproved' => Waiting'
    <3>1. SUFFICES ASSUME RequireReview, ~CodingApproved' PROVE Waiting'
      OBVIOUS
    <3>2. status' = status
      BY <1>1, <1>4, <2>0, <3>1, RequestMoves
    <3>3. QED
      BY <1>0, <1>1, <1>4, <3>1, <3>2, AsideWaits DEF SessionInv
  <2>2. \A j \in Jobs : pc'[j] = "implement.put" => status' # "review"
    <3>1. status' = status \/ status' # "review"
      BY <1>4, RequestMoves DEF ApproveMove, MoveTask
    <3>2. \A j \in Jobs : pc'[j] = "implement.put" => pc[j] = "implement.put"
      BY <1>0, <1>4 DEF Beside
    <3>3. QED
      BY <3>1, <3>2 DEF SessionInv
  <2>3. QED
    BY <1>3, <1>4, <2>1, <2>2, RequestNeedsNoApproval DEF SessionInv
<1>5. CASE Still
  <2>1. status' = status /\ approved' = approved
    BY <1>5 DEF Still, task
  <2>2. RequireReview /\ ~CodingApproved' => Waiting'
    BY <1>0, <1>1, <1>5, <2>1, AsideWaits DEF SessionInv
  <2>3. NoApproval => NoApproval'
    BY <1>5, <2>1 DEF NoApproval, Still
  <2>4. \A j \in Jobs : pc'[j] = "implement.put" => pc[j] = "implement.put"
    BY <1>5 DEF Still, Procs
  <2>5. QED
    BY <1>3, <1>5, <2>1, <2>2, <2>3, <2>4 DEF SessionInv
<1>6. QED
  BY <1>0, <1>2, <1>4, <1>5, SerialShape DEF SerialInv

-----------------------------------------------------------------------------
(* The steps of the automation as steps of the session.                    *)

\* A process that approves the task changes only its own label.
LEMMA ApprovalIsAlone ==
  ASSUME SerialInv, NEW p \in Procs, ApproveMove(p)
  PROVE  /\ pc[p] = "approve.move" /\ pc'[p] = "approve.mark"
         /\ \A q \in Procs \ {p} : pc'[q] = pc[q]
         /\ plan' = plan /\ status' = "queue"
  BY DEF ApproveMove, Go, MoveTask, SerialInv, Inductive, TypeOK

\* No coding is left where a job moves the card to review.
LEMMA NothingLeft ==
  ASSUME SerialInv, SessionInv, NEW j \in Jobs,
         ImplementNothing(j) \/ ImplementFinish(j) \/ Park(j) \/ PipePark(j)
  PROVE  CodingLeft = 0 /\ plan' = plan
<1>0. TypeOK /\ Current(j) /\ Clean(plan) /\ plan \in Plans
  BY DEF SerialInv, Inductive, SessionInv, TypeOK
<1>1. CASE ImplementNothing(j)
  <2>1. OpenSubtasks(plan) = {}
    <3>1. ~Pickable(plan)
      BY <1>0, <1>1 DEF ImplementNothing, Current
    <3>2. QED
      BY <1>0, <3>1, FirstOpenIsFirst DEF Pickable, Clean, OpenSubtasks
  <2>2. ASSUME NEW x \in Positions(plan) PROVE StatusAt(plan, x) \in Statuses
    <3>1. x[1] \in DOMAIN plan /\ x[2] \in DOMAIN plan[x[1]].subtasks
      BY <1>0, <2>2, PositionsAreNumbers
    <3>2. plan[x[1]] \in Phase
      BY <1>0, <3>1, PlansAreSequences
    <3>3. plan[x[1]].subtasks \in Seq(Statuses)
      BY <3>2 DEF Phase
    <3>4. QED
      BY <3>1, <3>3 DEF StatusAt
  <2>3. Left(plan) = {}
    BY <1>0, <2>1, <2>2
       DEF Left, CodingSubtasks, Clean, OpenSubtasks, Unfinished, Statuses
  <2>4. QED
    BY <1>0, <1>1, <2>3, LeftCounts DEF ImplementNothing, CodingLeft, Left
<1>2. CASE ImplementFinish(j) \/ Park(j) \/ PipePark(j)
  <2>1. plan' = plan /\ (AllDone(plan) \/ AllCodingComplete(plan))
    BY <1>0, <1>2 DEF ImplementFinish, Park, PipePark, Current, ParksNext
  <2>2. Left(plan) = {}
    BY <2>1 DEF AllDone, AllCodingComplete, Left, CodingSubtasks
  <2>3. QED
    BY <1>0, <2>1, <2>2, LeftCounts DEF CodingLeft, Left
<1>3. QED
  BY <1>1, <1>2

\* An approval approves the session, or is one too many.
LEMMA ApprovalSimulates ==
  ASSUME SerialInv, SessionInv, SessionEnv, NEW p \in Procs, ApproveMove(p),
         CodingApproved'
  PROVE  Session!SessionNext \/ UNCHANGED Session!session
<1>1. /\ pc[p] = "approve.move" /\ pc'[p] = "approve.mark"
      /\ \A q \in Procs \ {p} : pc'[q] = pc[q]
      /\ plan' = plan /\ status' = "queue"
  BY ApprovalIsAlone
<1>2. CodingLeft' = CodingLeft
  BY <1>1 DEF CodingLeft
<1>3. (\E q \in Procs : pc'[q] = "plan.put") <=> \E q \in Procs : pc[q] = "plan.put"
  BY <1>1
<1>4. CASE CodingApproved
  BY <1>1, <1>2, <1>3, <1>4 DEF Session!SessionNext, Session!Reopen, Session!session
<1>5. CASE ~CodingApproved
  <2>1. RequireReview /\ status # "review"
    BY <1>1, <1>5, ConfigAssumption DEF SessionInv, NoApproval, Waiting
  <2>2. QED
    BY <1>1, <1>2, <1>3, <1>5, <2>1
       DEF Session!SessionNext, Session!ApproveCoding
<1>6. QED
  BY <1>4, <1>5

\* A planning job opens and closes the planning of the session.
LEMMA PlanningSimulates ==
  ASSUME SerialInv, SessionInv, SessionEnv, [Next]_vars, NEW j \in Jobs, LiveStep(j),
         \/ /\ ChoosePlan(j) /\ pc'[j] = "plan.put"
            /\ \A p \in Procs : pc[p] # "plan.put"
         \/ PutPlanned(j) /\ \A p \in Procs : pc'[p] # "plan.put"
  PROVE  Session!SessionNext
<1>0. j \in Procs /\ \A p \in Procs : p \in Jobs \/ p \in Requests
  BY DEF Procs
<1>1. status' = status
  BY DEF ChoosePlan, PutPlanned, task
<1>2. \A p \in Procs : ~ApproveMove(p)
  BY <1>0, ApprovalIsAlone DEF LiveStep, ChoosePlan, PutPlanned
<1>3. CodingApproved' <=> CodingApproved
  BY <1>2, ApprovalChanges DEF SessionEnv
<1>4. CASE ChoosePlan(j) /\ pc'[j] = "plan.put" /\ \A p \in Procs : pc[p] # "plan.put"
  <2>1. CodingLeft' = CodingLeft
    BY <1>4 DEF ChoosePlan, task, CodingLeft
  <2>2. \E p \in Procs : pc'[p] = "plan.put"
    BY <1>0, <1>4
  <2>3. QED
    BY <1>1, <1>3, <1>4, <2>1, <2>2
       DEF Session!SessionNext, Session!BeginPlanning
<1>5. CASE PutPlanned(j) /\ \A p \in Procs : pc'[p] # "plan.put"
  <2>1. pc[j] = "plan.put"
    BY <1>5 DEF PutPlanned
  <2>2. CodingLeft' \in Nat
    <3>1. TypeOK'
      BY NextInductive DEF SerialInv, Inductive
    <3>2. plan' \in Plans /\ CodingLeft' = Cardinality(Left(plan'))
      BY <3>1 DEF TypeOK, CodingLeft, Left
    <3>3. QED
      BY <3>2, LeftCounts
  <2>3. QED
    BY <1>0, <1>1, <1>3, <1>5, <2>1, <2>2
       DEF Session!SessionNext, Session!Replan
<1>6. QED
  BY <1>4, <1>5

\* Any other step of the live job codes, parks or reopens.
LEMMA JobSimulates ==
  ASSUME SerialInv, NamedInv, SessionInv, SessionEnv, NEW j \in Jobs, LiveStep(j),
         ~PutPlanned(j), ~ApproveMove(j), CodingApproved' <=> CodingApproved,
         \A p \in Procs : pc'[p] = "plan.put" <=> pc[p] = "plan.put"
  PROVE  Session!SessionNext \/ UNCHANGED Session!session
<1>0. /\ j \in Procs /\ JobStep(j) /\ Live(j) /\ ~RepairStep(j) /\ Current(j)
      /\ ~RepairPutPlan(j) /\ ~RepairMove(j)
  BY NothingRepairs DEF Procs, LiveStep, SerialInv, RepairStep
<1>1. (\E q \in Procs : pc'[q] = "plan.put") <=> \E q \in Procs : pc[q] = "plan.put"
  OBVIOUS
<1>2. CASE ImplementPutPlan(j)
  <2>1. pc[j] = "implement.put" /\ status' = status
    BY <1>2 DEF ImplementPutPlan
  <2>2. status # "review" /\ plan # << >> /\ Gated(j)
    BY <1>0, <2>1 DEF SessionInv, Current, Gated
  <2>3. RequireReview => CodingApproved
    BY <1>0, <2>2, WaitingJob DEF SessionInv
  <2>4. CASE CodingLeft > 0 /\ CodingLeft' = CodingLeft - 1
    BY <1>1, <2>1, <2>2, <2>3, <2>4 DEF Session!SessionNext, Session!Code
  <2>5. CASE CodingLeft' = CodingLeft
    BY <1>1, <2>1, <2>5 DEF Session!session
  <2>6. QED
    BY <1>2, <2>4, <2>5, ImplementationCounts
<1>3. CASE ImplementNothing(j) \/ ImplementFinish(j) \/ Park(j) \/ PipePark(j)
  <2>1. CodingLeft = 0 /\ CodingLeft' = CodingLeft
    BY <1>3, NothingLeft DEF CodingLeft
  <2>2. status' = "review"
    BY <1>3 DEF ImplementNothing, ImplementFinish, Park, PipePark, MoveTask
  <2>3. QED
    BY <1>1, <2>1, <2>2 DEF Session!SessionNext, Session!Park
<1>4. ASSUME plan' = plan, status' = status \/ MovePlanned(j) \/ ImplementStart(j)
      PROVE  Session!SessionNext \/ UNCHANGED Session!session
  <2>1. CodingLeft' = CodingLeft
    BY <1>4 DEF CodingLeft
  <2>2. status' = status \/ status' # "review"
    BY <1>4 DEF MovePlanned, ImplementStart, MoveTask
  <2>3. QED
    BY <1>1, <2>1, <2>2 DEF Session!SessionNext, Session!Reopen, Session!session
<1>5. QED
  BY <1>0, <1>2, <1>3, <1>4, JobWrites

\* Every step is a step of the session or changes nothing of it.
LEMMA SessionSimulates ==
  ASSUME SerialInv, NamedInv, WorksInv, SessionInv, SessionEnv, [Next]_vars
  PROVE  Session!SessionNext \/ UNCHANGED Session!session
<1>0. Serial /\ "crash" \notin Offered /\ \A p \in Procs : p \in Jobs \/ p \in Requests
  BY DEF SessionEnv, Procs
<1>1. CodingApproved' <=> CodingApproved \/ \E p \in Procs : ApproveMove(p)
  BY <1>0, ApprovalChanges
<1>2. CASE \E p \in Procs : ApproveMove(p)
  BY <1>1, <1>2, ApprovalSimulates
<1>3. CASE \E j \in Jobs : /\ LiveStep(j)
                          /\ \/ /\ ChoosePlan(j) /\ pc'[j] = "plan.put"
                                /\ \A p \in Procs : pc[p] # "plan.put"
                             \/ PutPlanned(j) /\ \A p \in Procs : pc'[p] # "plan.put"
  BY <1>3, PlanningSimulates
<1>4. CASE /\ \A p \in Procs : ~ApproveMove(p)
           /\ \A p \in Procs : pc'[p] = "plan.put" <=> pc[p] = "plan.put"
  <2>1. ASSUME NEW j \in Jobs, LiveStep(j)
        PROVE  Session!SessionNext \/ UNCHANGED Session!session
    <3>1. j \in Procs
      BY DEF Procs
    <3>2. ~PutPlanned(j)
      BY <1>4, <3>1 DEF PutPlanned, Go, SerialInv, Inductive, TypeOK
    <3>3. QED
      BY <1>1, <1>4, <2>1, <3>1, <3>2, JobSimulates
  <2>2. ASSUME plan' = plan, status' = status \/ status' # "review"
        PROVE  Session!SessionNext \/ UNCHANGED Session!session
    <3>1. CodingLeft' = CodingLeft
      BY <2>2 DEF CodingLeft
    <3>2. (\E q \in Procs : pc'[q] = "plan.put") <=> \E q \in Procs : pc[q] = "plan.put"
      BY <1>4
    <3>3. CodingApproved' <=> CodingApproved
      BY <1>1, <1>4
    <3>4. QED
      BY <2>2, <3>1, <3>2, <3>3 DEF Session!SessionNext, Session!Reopen, Session!session
  <2>3. ASSUME NEW r \in Requests, RequestStep(r) \/ Request(r), Beside
        PROVE  Session!SessionNext \/ UNCHANGED Session!session
    BY <1>4, <2>2, <2>3, RequestMoves DEF Beside, Procs
  <2>4. CASE Still
    BY <2>2, <2>4 DEF Still, task
  <2>5. QED
    BY <1>0, <2>1, <2>3, <2>4, SerialShape DEF SerialInv
<1>5. QED
  BY <1>0, <1>2, <1>3, <1>4, PlanningChanges

\* The task begins as a session that nobody has approved.
LEMMA InitSession ==
  ASSUME Init, SessionEnv
  PROVE  WorksInv /\ SessionInv /\ Session!SessionInit
<1>1. /\ \A j \in Jobs : pc[j] = "none"
      /\ \A p \in Procs : pc[p] \in {"none", "idle"}
      /\ \A r \in Requests : pc[r] = "idle"
  BY ConfigAssumption DEF Init, Procs
<1>2. /\ approved = FALSE /\ status # "review"
      /\ plan # << >> /\ RequireReview => status = "human_review"
      /\ ~RequireReview => status # "human_review"
  BY DEF Init
<1>3. plan \in Plans /\ Clean(plan)
  <2>1. CASE plan = << >>
    BY <2>1, PlansAreSequences DEF Clean, Positions
  <2>2. CASE plan \in StartPlans
    BY <2>2, EnvironmentAssumption DEF SessionEnv
  <2>3. QED
    BY <2>1, <2>2 DEF Init
<1>4. WorksInv
  BY <1>1 DEF WorksInv, Works, Does, AtPlanning, AtImplementation
<1>5. \A j \in Jobs : ~Gated(j)
  BY <1>1 DEF Gated, ParksNext
<1>6. SessionInv
  BY <1>1, <1>2, <1>3, <1>5 DEF SessionInv, Waiting, NoApproval
<1>7. CodingLeft \in Nat
  BY <1>3, LeftCounts DEF CodingLeft, Left
<1>8. ~CodingApproved
  BY <1>1, <1>2 DEF CodingApproved
<1>9. QED
  BY <1>1, <1>2, <1>4, <1>6, <1>7, <1>8 DEF Session!SessionInit

\* When requests do not overlap, every plan names its subtasks, nothing is given
\* up and the card is not dragged past its approval, chained jobs, pipelines and
\* approvals carry out the coding session: coding is counted down one subtask at a
\* time and only when approved, only planning changes the amount of work, and the
\* card is parked in review only with no coding left.
THEOREM AutomationIsASession ==
  ASSUME SessionEnv
  PROVE  Spec => ImplementsSession
<1>0. Serial
  BY DEF SessionEnv
<1>1. Init => WorksInv /\ SessionInv /\ Session!SessionInit
  BY InitSession
<1>2. SerialInv /\ NamedInv /\ WorksInv /\ SessionInv /\ [Next]_vars
        => WorksInv' /\ SessionInv' /\ [Session!SessionNext]_(Session!session)
  BY <1>0, WorksStep, SessionStep, SessionSimulates
<1>3. QED
  BY <1>0, <1>1, <1>2, SerialAndNamed, PTL
     DEF Spec, ImplementsSession, Session!SessionSpec

=============================================================================
