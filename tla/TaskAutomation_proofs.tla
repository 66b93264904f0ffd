----------------------- MODULE TaskAutomation_proofs ------------------------
(***************************************************************************)
(* Proofs about TaskAutomation for every set of jobs and requests, every   *)
(* plan a model may return and every interleaving.                         *)
(***************************************************************************)
EXTENDS TaskProperties, TaskPlan_proofs

-----------------------------------------------------------------------------
(* The types of labels and locals. *)

\* A process is at one of the labels of its groups of steps.
LEMMA LabelGroups ==
  /\ AtContainer \subseteq Labels /\ AtPlanning \subseteq Labels
  /\ AtImplementation \subseteq Labels /\ AtRepair \subseteq Labels
  /\ AtApproval \subseteq Labels /\ AtPipeline \subseteq Labels
  /\ AtFollowUp \subseteq Labels /\ AtRequest \subseteq Labels
  /\ {"none", "start", "prepare", "check", "spawn", "run", "gate", "fail",
      "recheck", "complete", "done", "dead"} \subseteq Labels
  BY DEF Labels

\* The computed labels.
LEMMA ComputedLabels ==
  /\ \A a : Entry(a) \in Labels
  /\ \A a : Dispatch(a) \in Labels
  /\ \A p : AfterStep(p) \in Labels /\ AfterContainer(p) \in Labels
<1>1. \A a : Entry(a) \in {"plan", "implement", "pipe", "pause", "repair"}
  BY DEF Entry
<1>2. {"plan", "implement", "pipe", "pause", "repair"} \subseteq Labels
  BY LabelGroups DEF AtPlanning, AtImplementation, AtPipeline, AtRepair
<1>3. \A a : Entry(a) \in Labels
  BY <1>1, <1>2
<1>4. QED
  BY <1>3, LabelGroups
     DEF Dispatch, AfterStep, AfterContainer, AtContainer, AtPipeline

\* The locals a process starts with have their types.
LEMMA FreshIsLocal == Fresh \in Locals
<1>1. << >> \in Plans
  BY PlansAreSequences
<1>2. NoProgress \in Progress
  BY DEF NoProgress, Progress, NoSubtask
<1>3. QED
  BY <1>1, <1>2, LabelGroups DEF Fresh, Locals, Columns, JobStates

\* Assigning one local a value of its type.
LEMMA LocalFields ==
  ASSUME NEW l \in [Procs -> Locals], NEW p \in Procs
  PROVE  /\ \A v \in Plans : [l EXCEPT ![p].plan = v] \in [Procs -> Locals]
         /\ \A v \in Progress : [l EXCEPT ![p].prog = v] \in [Procs -> Locals]
         /\ \A v \in BOOLEAN : [l EXCEPT ![p].err = v] \in [Procs -> Locals]
         /\ \A v \in BOOLEAN : [l EXCEPT ![p].model = v] \in [Procs -> Locals]
         /\ \A v \in JobStates : [l EXCEPT ![p].seen = v] \in [Procs -> Locals]
         /\ \A v \in Columns : [l EXCEPT ![p].card = v] \in [Procs -> Locals]
         /\ \A v \in Actions : [l EXCEPT ![p].step = v] \in [Procs -> Locals]
         /\ \A v \in Int : [l EXCEPT ![p].n = v] \in [Procs -> Locals]
         /\ \A v \in Labels : [l EXCEPT ![p].ret = v] \in [Procs -> Locals]
         /\ \A v \in Jobs : [l EXCEPT ![p].job = v] \in [Procs -> Locals]
         /\ [l EXCEPT ![p] = Fresh] \in [Procs -> Locals]
         /\ l[p] \in Locals
  BY FreshIsLocal DEF Locals

-----------------------------------------------------------------------------
(* Type correctness: every step of a process keeps the types. *)

\* From the queue to the helpers, executeJob keeps the types.
LEMMA ExecutorTypes ==
  ASSUME TypeOK, NEW j \in Jobs,
         Start(j) \/ Prepare(j) \/ CheckCancelled(j) \/ Spawn(j) \/ Resolve(j)
           \/ RecordResolution(j) \/ RunContainer(j) \/ Run(j) \/ Gate(j) \/ Fail(j)
  PROVE  TypeOK'
<1> USE LabelGroups, ComputedLabels, FreshIsLocal
    DEF TypeOK, Procs, Go, UpdateJob, Leave, task, records
<1>0. /\ \A s \in {"starting", "running", "failed"} : s \in JobStates
      /\ j \in Procs /\ loc[j].seen \in JobStates
  BY LocalFields DEF JobStates, Active, Terminal, Locals
<1>1. CASE Start(j)
  BY <1>0, <1>1 DEF Start
<1>2. CASE Prepare(j)
  BY <1>2 DEF Prepare
<1>3. CASE CheckCancelled(j)
  BY <1>3 DEF CheckCancelled
<1>4. CASE Spawn(j)
  BY <1>0, <1>4 DEF Spawn, AtContainer
<1>5. CASE Resolve(j)
  <2>1. loc' \in [Procs -> Locals]
    BY <1>0, <1>5, LocalFields DEF Resolve
  <2>2. pc' \in [Procs -> Labels]
    BY <1>5 DEF Resolve, AtContainer
  <2>3. QED
    BY <1>5, <2>1, <2>2 DEF Resolve
<1>6. CASE RecordResolution(j)
  BY <1>0, <1>6 DEF RecordResolution, AtContainer
<1>7. CASE RunContainer(j)
  BY <1>0, <1>7, LocalFields DEF RunContainer
<1>8. CASE Run(j)
  BY <1>0, <1>8 DEF Run
<1>9. CASE Gate(j)
  BY <1>9 DEF Gate
<1>10. CASE Fail(j)
  BY <1>0, <1>10 DEF Fail
<1>11. QED
  BY <1>1, <1>2, <1>3, <1>4, <1>5, <1>6, <1>7, <1>8, <1>9, <1>10

\* Planning writes a plan, a progress record and a column.
LEMMA PlanningTypes ==
  ASSUME TypeOK, NEW j \in Jobs, PlanningStep(j)
  PROVE  TypeOK'
<1> USE LabelGroups, ComputedLabels
    DEF TypeOK, Procs, Go, MoveTask, task, records
<1>0. j \in Procs /\ loc[j].plan \in Plans
  BY LocalFields DEF Locals
<1>1. CASE ChoosePlan(j)
  <2>1. \/ \E m \in ModelPlans : loc' = [loc EXCEPT ![j].plan = m]
        \/ loc' = [loc EXCEPT ![j].plan = WithFollowUp(plan)]
        \/ loc' = [loc EXCEPT ![j].plan = BuiltinPlan]
    BY <1>1 DEF ChoosePlan
  <2>2. PICK v \in Plans : loc' = [loc EXCEPT ![j].plan = v]
    BY <2>1, WithFollowUpIsPlan, BuiltinPlanIsPlan, ConfigAssumption
  <2>. loc' \in [Procs -> Locals]
    BY <1>0, <2>2, LocalFields
  <2>3. QED
    BY <1>1 DEF ChoosePlan, AtPlanning
<1>2. CASE PutPlanned(j)
  BY <1>0, <1>2 DEF PutPlanned, AtPlanning
<1>3. CASE PutFreshProgress(j)
  BY <1>3 DEF PutFreshProgress, AtPlanning, NoProgress, Progress, NoSubtask
<1>4. CASE MovePlanned(j)
  BY <1>4 DEF MovePlanned, Columns
<1>5. QED
  BY <1>1, <1>2, <1>3, <1>4 DEF PlanningStep

\* Completing the first open subtask of a plan gives a plan, and the
\* progress and card it is reported with have their types.
LEMMA ImplementationTypes ==
  ASSUME TypeOK, NEW j \in Jobs, ImplementationStep(j)
  PROVE  TypeOK'
<1> USE LabelGroups, ComputedLabels
    DEF TypeOK, Procs, Go, MoveTask, Abort, task, records
<1>0. /\ j \in Procs /\ loc[j].plan \in Plans /\ loc[j].prog \in Progress
      /\ CompleteFirst(loc[j].plan) \in Plans
  BY LocalFields, SetStatusKeepsPlans DEF Locals, CompleteFirst, Statuses
<1>1. CASE ImplementGate(j)
  <2>1. loc' \in [Procs -> Locals]
    BY <1>0, <1>1, LocalFields DEF ImplementGate
  <2>2. QED
    BY <1>1, <2>1 DEF ImplementGate, AtImplementation
<1>2. CASE ImplementReadPlan(j)
  <2>1. loc' \in [Procs -> Locals]
    BY <1>0, <1>2, LocalFields DEF ImplementReadPlan
  <2>2. QED
    BY <1>2, <2>1 DEF ImplementReadPlan, AtImplementation
<1>3. CASE ImplementStart(j)
  BY <1>3 DEF ImplementStart, AtImplementation, Columns
<1>4. CASE ImplementNothing(j)
  BY <1>4 DEF ImplementNothing, Columns
<1>5. CASE ImplementPutPlan(j)
  BY <1>0, <1>5, LocalFields DEF ImplementPutPlan, AtImplementation
<1>6. CASE ImplementReadProgress(j)
  BY <1>0, <1>6, LocalFields DEF ImplementReadProgress, AtImplementation
<1>7. CASE ImplementFinish(j)
  BY <1>7 DEF ImplementFinish, AtImplementation, Columns
<1>8. CASE ImplementPutProgress(j)
  BY <1>0, <1>8 DEF ImplementPutProgress, Progress, IsPipeline
<1>9. QED
  BY <1>1, <1>2, <1>3, <1>4, <1>5, <1>6, <1>7, <1>8 DEF ImplementationStep

\* Pause, resume, recover, mark-stuck and skip-to-phase keep the types,
\* whatever phase a skip names.
LEMMA RepairTypes ==
  ASSUME TypeOK, NEW p \in Procs, RepairStep(p)
  PROVE  TypeOK'
<1> USE LabelGroups DEF TypeOK, Go, MoveTask, Abort, Leave, task, records
<1>0. loc[p].plan \in Plans /\ loc[p].prog \in Progress
  BY LocalFields DEF Locals
<1>1. CASE RepairRead(p)
  <2>1. PICK n \in Nat :
          IF Repairable(p, n)
          THEN /\ loc' = [loc EXCEPT ![p].plan = RepairsTo(p, n), ![p].n = n,
                                     ![p].prog = [NoProgress EXCEPT
                                                    !.stuck = FirstOpen(plan)]]
               /\ Go(p, "repair.put")
          ELSE RepairNothing(p)
    <3>1. plan \in Seq(Phase)
      BY PlansAreSequences
    <3>2. 1..(Len(plan) + 1) \subseteq Nat /\ {1} \subseteq Nat
      BY <3>1
    <3>3. QED
      BY <1>1, <3>2 DEF RepairRead
  <2>2. RepairsTo(p, n) \in Plans
    BY RecoveredIsPlan, SkippedToIsPlan, SetStatusKeepsPlans
       DEF RepairsTo, MarkFirstStuck, Statuses
  <2>3. FirstOpen(plan) \in Nat \X Nat
    BY FirstOpenIsFirst
  <2>4. CASE Repairable(p, n)
    <3> DEFINE mark == [NoProgress EXCEPT !.stuck = FirstOpen(plan)]
               l1 == [loc EXCEPT ![p].plan = RepairsTo(p, n)]
               l2 == [l1 EXCEPT ![p].n = n]
               l3 == [l2 EXCEPT ![p].prog = mark]
    <3>1. mark \in Progress
      BY <2>3 DEF Progress, NoProgress
    <3>2. l1 \in [Procs -> Locals]
      BY <2>2, LocalFields
    <3> HIDE DEF l1
    <3>3. l2 \in [Procs -> Locals]
      BY <3>2, LocalFields
    <3> HIDE DEF l2
    <3>4. l3 \in [Procs -> Locals]
      BY <3>1, <3>3, LocalFields
    <3>5. loc' = l3
      BY <2>1, <2>4 DEF l1, l2
    <3>6. QED
      BY <1>1, <2>1, <2>4, <3>4, <3>5 DEF RepairRead, AtRepair
  <2>5. CASE ~Repairable(p, n)
    <3>1. loc' \in [Procs -> Locals]
      BY <2>1, <2>5, LocalFields DEF RepairNothing
    <3>2. QED
      BY <1>1, <2>1, <2>5, <3>1 DEF RepairRead, RepairNothing
  <2>6. QED
    BY <2>4, <2>5
<1>2. CASE RepairPutPlan(p)
  BY <1>0, <1>2 DEF RepairPutPlan, AtRepair
<1>3. CASE RepairReadProgress(p)
  <2>1. Marked(p, prog) \in Progress
    BY <1>0 DEF Marked, Progress, NoProgress, NoSubtask
  <2>2. loc' \in [Procs -> Locals]
    BY <1>3, <2>1, LocalFields DEF RepairReadProgress
  <2>3. QED
    BY <1>3, <2>2 DEF RepairReadProgress, AtRepair
<1>4. CASE RepairPutProgress(p)
  <2>1. loc' \in [Procs -> Locals]
    BY <1>4, LocalFields DEF RepairPutProgress
  <2>2. QED
    BY <1>0, <1>4, <2>1 DEF RepairPutProgress, AtRepair
<1>5. CASE RepairMove(p)
  BY <1>5 DEF RepairMove, Columns
<1>6. QED
  BY <1>1, <1>2, <1>3, <1>4, <1>5 DEF RepairStep

\* ApproveForCoding keeps the types, for a request and for a job.
LEMMA ApprovalTypes ==
  ASSUME TypeOK, NEW p \in Procs, ApproveForCoding(p)
  PROVE  TypeOK'
<1> USE LabelGroups DEF TypeOK, Go, MoveTask, Abort, Leave, task, records
<1>0. loc[p].ret \in Labels
  BY LocalFields DEF Locals
<1>1. CASE ApproveCheck(p)
  <2>1. \/ Go(p, "approve.move") /\ UNCHANGED loc
        \/ Leave(p)
        \/ Go(p, "complete") /\ UNCHANGED loc
        \/ Abort(p, "pipe.defer")
    BY <1>1 DEF ApproveCheck
  <2>2. loc' \in [Procs -> Locals]
    BY <2>1, LocalFields
  <2>3. pc' \in [Procs -> Labels]
    BY <2>1 DEF AtApproval, AtPipeline
  <2>4. QED
    BY <1>1, <2>2, <2>3 DEF ApproveCheck
<1>2. CASE ApproveMove(p)
  BY <1>2 DEF ApproveMove, AtApproval, Columns
<1>3. CASE ApproveMark(p)
  <2>1. loc' \in [Procs -> Locals]
    BY <1>3, LocalFields DEF ApproveMark
  <2>2. QED
    BY <1>0, <1>3, <2>1 DEF ApproveMark
<1>4. QED
  BY <1>1, <1>2, <1>3 DEF ApproveForCoding

\* The second look at the record, chaining and completion keep the types.
LEMMA FollowUpTypes ==
  ASSUME TypeOK, NEW j \in Jobs,
         PauseRead(j) \/ PauseWrite(j) \/ Recheck(j) \/ CodedRead(j)
           \/ CodedNext(j) \/ ParkCheck(j) \/ Park(j) \/ PlannedRead(j)
           \/ PlannedNext(j) \/ PlannedChain(j) \/ Chain(j) \/ Complete(j)
  PROVE  TypeOK'
<1> USE LabelGroups DEF TypeOK, Procs, Go, MoveTask, UpdateJob, Leave, task, records
<1>0. /\ j \in Procs /\ loc[j].prog \in Progress
      /\ "completed" \in JobStates /\ "queued" \in JobStates
  BY LocalFields DEF Locals, JobStates, Active, Terminal
<1>1. CASE PauseRead(j)
  <2>1. loc' \in [Procs -> Locals]
    BY <1>0, <1>1, LocalFields DEF PauseRead
  <2>2. QED
    BY <1>1, <2>1 DEF PauseRead, AtRepair
<1>2. CASE PauseWrite(j)
  BY <1>0, <1>2 DEF PauseWrite, Progress
<1>3. CASE Recheck(j)
  <2>1. loc' \in [Procs -> Locals]
    BY <1>0, <1>3, LocalFields DEF Recheck
  <2>2. QED
    BY <1>3, <2>1 DEF Recheck, FollowUp, AtFollowUp
<1>4. CASE CodedRead(j)
  BY <1>0, <1>4, LocalFields DEF CodedRead, AtFollowUp
<1>5. CASE CodedNext(j)
  BY <1>5 DEF CodedNext, AtFollowUp
<1>6. CASE ParkCheck(j)
  BY <1>6 DEF ParkCheck, AtFollowUp
<1>7. CASE Park(j)
  BY <1>7 DEF Park, Columns
<1>8. CASE PlannedRead(j)
  <2> DEFINE l1 == [loc EXCEPT ![j].card = status]
             l2 == [l1 EXCEPT ![j].ret = "planned.chain"]
  <2>1. l1 \in [Procs -> Locals]
    BY <1>0, LocalFields
  <2> HIDE DEF l1
  <2>2. l2 \in [Procs -> Locals]
    BY <1>0, <2>1, LocalFields DEF AtFollowUp
  <2>3. loc' = l2
    BY <1>8 DEF PlannedRead, l1
  <2>4. QED
    BY <1>8, <2>2, <2>3 DEF PlannedRead, AtFollowUp
<1>9. CASE PlannedNext(j)
  BY <1>9 DEF PlannedNext, AtFollowUp, AtApproval
<1>10. CASE PlannedChain(j)
  BY <1>10 DEF PlannedChain, AtFollowUp
<1>11. CASE Chain(j)
  <2>1. CASE CreateJob("run-implementation")
             /\ pc' = [pc EXCEPT ![j] = "complete", ![NextJob] = "start"]
    <3>1. jobState' \in [Jobs -> JobStates] /\ op' \in [Procs -> Actions \cup {"none"}]
      BY <1>0, <2>1 DEF CreateJob, Actions
    <3>2. QED
      BY <1>11, <2>1, <3>1 DEF Chain
  <2>2. CASE Go(j, "complete") /\ UNCHANGED records
    BY <1>11, <2>2 DEF Chain
  <2>3. QED
    BY <1>11, <2>1, <2>2 DEF Chain
<1>12. CASE Complete(j)
  BY <1>0, <1>12, LocalFields DEF Complete
<1>13. QED
  BY <1>1, <1>2, <1>3, <1>4, <1>5, <1>6, <1>7, <1>8, <1>9, <1>10, <1>11, <1>12

\* The pipeline's own steps keep the types, its budget is a number.
LEMMA PipelineTypes ==
  ASSUME TypeOK, NEW j \in Jobs, PipelineStep(j)
  PROVE  TypeOK'
<1> USE LabelGroups, ComputedLabels DEF TypeOK, Procs, Go, MoveTask, Abort, task, records
<1>0. /\ j \in Procs /\ loc[j].prog \in Progress
      /\ loc[j].ret \in Labels /\ loc[j].n \in Int
      /\ AtPipeline \subseteq Labels
  BY LocalFields DEF Locals
<1>1. ASSUME NEW ret \in Labels, Report(j, ret)
      PROVE  loc' \in [Procs -> Locals] /\ pc' \in [Procs -> Labels]
  BY <1>0, <1>1, LocalFields DEF Report, AtPipeline
<1>2. ASSUME NEW action \in Actions, ReportStep(j, action)
      PROVE  loc' \in [Procs -> Locals] /\ pc' \in [Procs -> Labels]
  <2> DEFINE l1 == [loc EXCEPT ![j].ret = Dispatch(action)]
             l2 == [l1 EXCEPT ![j].step = action]
  <2>1. l1 \in [Procs -> Locals]
    BY <1>0, LocalFields
  <2> HIDE DEF l1
  <2>2. l2 \in [Procs -> Locals]
    BY <1>0, <1>2, <2>1, LocalFields
  <2>3. loc' = l2
    BY <1>2 DEF ReportStep, l1
  <2>4. QED
    BY <1>2, <2>2, <2>3 DEF ReportStep, AtPipeline
<1>3. ASSUME ReportAndFail(j)
      PROVE  loc' \in [Procs -> Locals] /\ pc' \in [Procs -> Labels]
  <2> DEFINE l1 == [loc EXCEPT ![j].ret = "pipe.defer"]
             l2 == [l1 EXCEPT ![j].err = TRUE]
  <2>0. "pipe.defer" \in Labels
    BY <1>0 DEF AtPipeline
  <2>1. l1 \in [Procs -> Locals]
    BY <1>0, <2>0, LocalFields
  <2> HIDE DEF l1
  <2>2. l2 \in [Procs -> Locals]
    BY <1>0, <2>1, LocalFields
  <2>3. loc' = l2
    BY <1>3 DEF ReportAndFail, l1
  <2>4. QED
    BY <1>3, <2>2, <2>3 DEF ReportAndFail, AtPipeline
<1>4. ASSUME NEW ret \in Labels, Check(j, ret)
      PROVE  loc' \in [Procs -> Locals] /\ pc' \in [Procs -> Labels]
  BY <1>0, <1>4, LocalFields DEF Check, AtPipeline
<1>5. \A ret \in AtPipeline : ret \in Labels
  BY <1>0
<1>6. {"run-planning", "run-implementation"} \subseteq Actions
  BY DEF Actions, Planning
<1>7. CASE ReportRead(j)
  BY <1>0, <1>7, LocalFields DEF ReportRead, AtPipeline
<1>8. CASE ReportWrite(j)
  BY <1>0, <1>8 DEF ReportWrite, Progress
<1>9. CASE StopIfCancelled(j) \/ StopIfPaused(j)
  <2>1. loc' \in [Procs -> Locals]
    BY <1>0, <1>9, LocalFields DEF StopIfCancelled, StopIfPaused
  <2>2. pc' \in [Procs -> Labels]
    BY <1>0, <1>9 DEF StopIfCancelled, StopIfPaused, AtPipeline
  <2>3. QED
    BY <1>9, <2>1, <2>2 DEF StopIfCancelled, StopIfPaused
<1>10. CASE PipeBegin(j)
  BY <1>1, <1>5, <1>10 DEF PipeBegin, AtPipeline
<1>11. CASE PipeRead(j)
  <2>1. loc' \in [Procs -> Locals] /\ pc' \in [Procs -> Labels]
    BY <1>2, <1>6, <1>11 DEF PipeRead, AtPipeline
  <2>2. QED
    BY <1>11, <2>1 DEF PipeRead
<1>12. CASE PipeApprove(j)
  BY <1>0, <1>12, LocalFields DEF PipeApprove, AtPipeline, AtApproval
<1>13. CASE PipeBudget(j)
  <2>1. Cardinality(OpenSubtasks(plan)) \in Nat
    BY OpenSubtasksFinite, FS_CardinalityType
  <2>2. Budget(plan) \in Int
    BY <2>1, ConfigAssumption DEF Budget
  <2>3. QED
    BY <1>0, <1>13, <2>2, LocalFields DEF PipeBudget, AtPipeline
<1>14. CASE PipeLoop(j)
  <2>1. loc' \in [Procs -> Locals] /\ pc' \in [Procs -> Labels]
    BY <1>4, <1>5, <1>14 DEF PipeLoop, AtPipeline
  <2>2. QED
    BY <1>14, <2>1 DEF PipeLoop
<1>15. CASE PipeNext(j)
  <2>1. loc' \in [Procs -> Locals] /\ pc' \in [Procs -> Labels]
    BY <1>2, <1>6, <1>15 DEF PipeNext, AtPipeline
  <2>2. QED
    BY <1>15, <2>1 DEF PipeNext
<1>16. CASE PipeStepped(j)
  <2>1. CASE Check(j, "pipe.approve")
    BY <1>4, <1>5, <1>16, <2>1 DEF PipeStepped, AtPipeline
  <2>2. CASE loc' = [loc EXCEPT ![j].n = @ - 1] /\ Go(j, "pipe.loop")
    <3> DEFINE m == loc[j].n - 1
    <3>0. m \in Int /\ loc' = [loc EXCEPT ![j].n = m]
      BY <1>0, <2>2
    <3> HIDE DEF m
    <3>1. loc' \in [Procs -> Locals]
      BY <1>0, <3>0, LocalFields
    <3>2. QED
      BY <1>16, <2>2, <3>1 DEF PipeStepped, AtPipeline
  <2>3. CASE Go(j, "pipe.defer") /\ UNCHANGED loc
    BY <1>16, <2>3 DEF PipeStepped, AtPipeline
  <2>4. QED
    BY <1>16, <2>1, <2>2, <2>3 DEF PipeStepped
<1>17. CASE PipeDrained(j)
  <2>1. loc' \in [Procs -> Locals] /\ pc' \in [Procs -> Labels]
    BY <1>3, <1>4, <1>5, <1>17 DEF PipeDrained, AtPipeline
  <2>2. QED
    BY <1>17, <2>1 DEF PipeDrained
<1>18. CASE PipeCount(j)
  <2>1. loc' \in [Procs -> Locals] /\ pc' \in [Procs -> Labels]
    BY <1>1, <1>3, <1>5, <1>18 DEF PipeCount, AtPipeline
  <2>2. QED
    BY <1>18, <2>1 DEF PipeCount
<1>19. CASE PipePark(j)
  <2>1. loc' \in [Procs -> Locals]
    BY <1>0, <1>5, <1>19, LocalFields DEF PipePark, AtPipeline
  <2>2. QED
    BY <1>19, <2>1 DEF PipePark, AtPipeline, Columns
<1>20. CASE PipeDefer(j)
  <2>1. loc' \in [Procs -> Locals]
    BY <1>0, <1>20, LocalFields DEF PipeDefer
  <2>2. QED
    BY <1>20, <2>1 DEF PipeDefer, AtPipeline
<1>21. CASE PipeClear(j)
  BY <1>0, <1>21 DEF PipeClear, Progress
<1>22. QED
  BY <1>7, <1>8, <1>9, <1>10, <1>11, <1>12, <1>13, <1>14, <1>15, <1>16, <1>17,
     <1>18, <1>19, <1>20, <1>21 DEF PipelineStep

\* The steps of requests that are not shared with jobs.
LEMMA RequestTypes ==
  ASSUME TypeOK, NEW r \in Requests,
         \/ Launch(r) \/ DragPaused(r) \/ DragList(r) \/ DragCreate(r)
         \/ CancelWrite(r) \/ Request(r)
  PROVE  TypeOK'
<1> USE LabelGroups DEF TypeOK, Procs, Go, MoveTask, UpdateJob, Leave, task, records
<1>0. /\ r \in Procs /\ loc[r].job \in Jobs \cup {"none"}
      /\ loc[r].step \in Actions \cup {"none"}
      /\ "queued" \in JobStates /\ "cancelled" \in JobStates
      /\ AtRequest \subseteq Labels
  BY LocalFields DEF Locals, JobStates, Active, Terminal
<1>1. ASSUME NEW action \in Actions \cup {"none"}, CreateFor(r, action)
      PROVE  /\ jobState' \in [Jobs -> JobStates]
             /\ op' \in [Procs -> Actions \cup {"none"}]
             /\ pc' \in [Procs -> Labels] /\ loc' \in [Procs -> Locals]
  <2>1. NextJob \in Jobs
    BY <1>1 DEF CreateFor, CreateJob, OutOfJobs, NextJob
  <2>2. loc' \in [Procs -> Locals]
    BY <1>0, <1>1, <2>1, LocalFields DEF CreateFor
  <2>3. QED
    BY <1>0, <1>1, <2>1, <2>2 DEF CreateFor, CreateJob, AtRequest
<1>2. CASE Launch(r)
  <2>1. loc' \in [Procs -> Locals]
    BY <1>0, <1>2, LocalFields DEF Launch
  <2>2. QED
    BY <1>0, <1>2, <2>1 DEF Launch
<1>3. CASE DragPaused(r) \/ DragList(r)
  <2>1. loc' \in [Procs -> Locals]
    BY <1>0, <1>3, LocalFields DEF DragPaused, DragList
  <2>2. QED
    BY <1>3, <2>1 DEF DragPaused, DragList, AtRequest
<1>4. CASE DragCreate(r)
  <2>1. CASE CreateFor(r, loc[r].step)
    BY <1>0, <1>1, <1>4, <2>1 DEF DragCreate
  <2>2. CASE Leave(r) /\ UNCHANGED records
    <3>1. loc' \in [Procs -> Locals]
      BY <1>0, <2>2, LocalFields
    <3>2. QED
      BY <1>4, <2>2, <3>1 DEF DragCreate
  <2>3. QED
    BY <1>4, <2>1, <2>2 DEF DragCreate
<1>5. CASE CancelWrite(r)
  <2>1. loc' \in [Procs -> Locals]
    BY <1>0, <1>5, LocalFields DEF CancelWrite
  <2>2. QED
    BY <1>0, <1>5, <2>1 DEF CancelWrite, AtRepair
<1>6. CASE PostJob(r)
  <2>1. PICK action \in Actions : CreateFor(r, action)
    BY <1>6, EnvironmentAssumption DEF PostJob
  <2>2. QED
    BY <1>1, <1>6, <2>1 DEF PostJob
<1>7. CASE Drag(r)
  <2>1. PICK column \in Columns :
          /\ status' = column
          /\ IF StartsJob(column)
             THEN /\ Go(r, "drag.paused")
                  /\ loc' = [loc EXCEPT ![r].step = ColumnAction(column)]
             ELSE Leave(r)
    BY <1>7, EnvironmentAssumption DEF Drag
  <2>2. ColumnAction(column) \in Actions
    BY DEF ColumnAction, Actions, Planning
  <2>3. loc' \in [Procs -> Locals]
    BY <1>0, <2>1, <2>2, LocalFields
  <2>4. QED
    BY <1>7, <2>1, <2>3 DEF Drag, AtRequest
<1>8. CASE Approve(r)
  BY <1>8 DEF Approve, AtApproval
<1>9. CASE CancelRead(r)
  <2>1. loc' \in [Procs -> Locals]
    BY <1>0, <1>9, LocalFields DEF CancelRead
  <2>2. QED
    BY <1>9, <2>1 DEF CancelRead, AtRequest
<1>10. CASE Crash(r)
  BY <1>10, FreshIsLocal DEF Crash
<1>11. QED
  BY <1>2, <1>3, <1>4, <1>5, <1>6, <1>7, <1>8, <1>9, <1>10 DEF Request

\* A new task and a planned one have the types.
LEMMA InitTypes == Init => TypeOK
<1> SUFFICES ASSUME Init PROVE TypeOK
  OBVIOUS
<1>1. plan \in Plans /\ status \in Columns
  <2>1. << >> \in Plans
    BY PlansAreSequences
  <2>2. QED
    BY <2>1, EnvironmentAssumption DEF Init, Columns
<1>2. prog \in Progress
  BY DEF Init, NoProgress, Progress, NoSubtask
<1>3. loc \in [Procs -> Locals] /\ pc \in [Procs -> Labels]
  BY FreshIsLocal, LabelGroups DEF Init, AtRequest
<1>4. QED
  BY <1>1, <1>2, <1>3 DEF Init, TypeOK, JobStates

\* Every step keeps the types.
LEMMA NextTypes == TypeOK /\ [Next]_vars => TypeOK'
<1> SUFFICES ASSUME TypeOK, [Next]_vars PROVE TypeOK'
  OBVIOUS
<1>1. ASSUME NEW j \in Jobs, JobStep(j) PROVE TypeOK'
  <2>0. j \in Procs
    BY DEF Procs
  <2>1. CASE ExecutorStep(j)
    <3>1. CASE PlanningStep(j) \/ ImplementationStep(j) \/ RepairStep(j)
      BY <2>0, <3>1, PlanningTypes, ImplementationTypes, RepairTypes
    <3>2. CASE \/ Start(j) \/ Prepare(j) \/ CheckCancelled(j) \/ Spawn(j)
               \/ Resolve(j) \/ RecordResolution(j) \/ RunContainer(j)
               \/ Run(j) \/ Gate(j) \/ Fail(j)
      BY <3>2, ExecutorTypes
    <3>3. CASE \/ PauseRead(j) \/ PauseWrite(j) \/ Recheck(j) \/ CodedRead(j)
               \/ CodedNext(j) \/ ParkCheck(j) \/ Park(j) \/ PlannedRead(j)
               \/ PlannedNext(j) \/ PlannedChain(j) \/ Chain(j) \/ Complete(j)
      BY <3>3, FollowUpTypes
    <3>4. QED
      BY <2>1, <3>1, <3>2, <3>3 DEF ExecutorStep
  <2>2. CASE PipelineStep(j)
    BY <2>2, PipelineTypes
  <2>3. CASE ApproveForCoding(j)
    BY <2>0, <2>3, ApprovalTypes
  <2>4. QED
    BY <1>1, <2>1, <2>2, <2>3 DEF JobStep
<1>2. ASSUME NEW r \in Requests, RequestStep(r) \/ Request(r) PROVE TypeOK'
  <2>0. r \in Procs
    BY DEF Procs
  <2>1. CASE RepairStep(r) \/ ApproveForCoding(r)
    BY <2>0, <2>1, RepairTypes, ApprovalTypes
  <2>2. CASE \/ Launch(r) \/ DragPaused(r) \/ DragList(r) \/ DragCreate(r)
             \/ CancelWrite(r) \/ Request(r)
    BY <2>2, RequestTypes
  <2>3. QED
    BY <1>2, <2>1, <2>2 DEF RequestStep
<1>3. ASSUME UNCHANGED vars PROVE TypeOK'
  BY <1>3 DEF vars, TypeOK
<1>4. QED
  BY <1>1, <1>2, <1>3 DEF Next, Finished

\* Whatever requests, jobs, cancels and crashes interleave, the files of the
\* task and the locals of its jobs keep the types of TypeOK: in particular
\* every rewrite of the plan, stale or not, writes a well-formed plan.
THEOREM TypeCorrect == Spec => []TypeOK
<1>1. QED
  BY InitTypes, NextTypes, PTL DEF Spec

=============================================================================
