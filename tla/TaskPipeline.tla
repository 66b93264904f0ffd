---------------------------- MODULE TaskPipeline ----------------------------
(***************************************************************************)
(* run-pipeline: one job that plans when there is no plan, approves the    *)
(* task for coding, completes the open subtasks one step at a time and     *)
(* parks the card in review.  Its planning and implementation steps are    *)
(* the helpers of JobExecutor; "pipe.stepped" is where they come back.     *)
(***************************************************************************)
EXTENDS JobExecutor

\* Where a step's work begins: in a container, or with its builtin helper.
Dispatch(action) == IF Container THEN "resolve" ELSE Entry(action)

\* setPipelineProgress is called: it will set is_running unless the
\* pipeline is about to park or to end.
Report(j, return) ==
  /\ Go(j, "report")
  /\ loc' = [loc EXCEPT ![j].ret = return]

ReportStep(j, action) ==
  /\ Go(j, "report")
  /\ loc' = [loc EXCEPT ![j].ret = Dispatch(action), ![j].step = action]

ReportAndFail(j) ==
  /\ Go(j, "report")
  /\ loc' = [loc EXCEPT ![j].ret = "pipe.defer", ![j].err = TRUE]

ReportRead(j) ==
  /\ pc[j] = "report"
  /\ loc' = [loc EXCEPT ![j].prog = prog]
  /\ Go(j, "report.put")
  /\ UNCHANGED <<task, records>>

ReportWrite(j) ==
  /\ pc[j] = "report.put"
  /\ prog' = [loc[j].prog EXCEPT
                !.running = loc[j].ret \notin {"pipe.park", "pipe.defer"}]
  /\ Go(j, loc[j].ret)
  /\ UNCHANGED <<status, approved, plan, records, loc>>

\* pipelineCancelledOrPaused is called: the job's record, then the pause.
Check(j, return) ==
  /\ Go(j, "stop")
  /\ loc' = [loc EXCEPT ![j].ret = return]

StopIfCancelled(j) ==
  /\ pc[j] = "stop"
  /\ IF jobState[j] = "cancelled" THEN Abort(j, "pipe.defer")
     ELSE Go(j, "stop.paused") /\ UNCHANGED loc
  /\ UNCHANGED <<task, records>>

StopIfPaused(j) ==
  /\ pc[j] = "stop.paused"
  /\ IF prog.paused THEN Abort(j, "pipe.defer")
     ELSE Go(j, loc[j].ret) /\ UNCHANGED loc
  /\ UNCHANGED <<task, records>>

-----------------------------------------------------------------------------

PipeBegin(j) ==
  /\ pc[j] = "pipe"
  /\ Report(j, "pipe.read")
  /\ UNCHANGED <<task, records>>

\* Planning is a step of the pipeline only when the plan has no phase.
PipeRead(j) ==
  /\ pc[j] = "pipe.read"
  /\ IF plan = << >> THEN ReportStep(j, "run-planning")
     ELSE Go(j, "pipe.approve") /\ UNCHANGED loc
  /\ UNCHANGED <<task, records>>

\* A task that waits for its review is approved by the pipeline itself.
PipeApprove(j) ==
  /\ pc[j] = "pipe.approve"
  /\ Go(j, IF RequireReview /\ ~approved /\ status = "human_review"
           THEN "approve" ELSE "pipe.budget")
  /\ loc' = [loc EXCEPT ![j].ret = "pipe.budget"]
  /\ UNCHANGED <<task, records>>

\* Mutant: the lower limit is taken for the upper one.
BudgetMutant(p) ==
  LET wanted == Cardinality(OpenSubtasks(p)) + BudgetSlack
  IN  IF wanted > BudgetMin THEN BudgetMin ELSE wanted

\* maxSteps: the open subtasks and some slack, between two limits.
Budget(p) ==
  LET wanted == Cardinality(OpenSubtasks(p)) + BudgetSlack
      atLeast == IF wanted < BudgetMin THEN BudgetMin ELSE wanted
  IN  IF atLeast > BudgetMax THEN BudgetMax ELSE atLeast

PipeBudget(j) ==
  /\ pc[j] = "pipe.budget"
  /\ loc' = [loc EXCEPT ![j].n = Budget(plan)]
  /\ Go(j, "pipe.loop")
  /\ UNCHANGED <<task, records>>

PipeLoop(j) ==
  /\ pc[j] = "pipe.loop"
  /\ IF loc[j].n = 0 THEN Go(j, "pipe.drained") /\ UNCHANGED loc
     ELSE Check(j, "pipe.next")
  /\ UNCHANGED <<task, records>>

PipeNext(j) ==
  /\ pc[j] = "pipe.next"
  /\ IF ~Pickable(plan) THEN Go(j, "pipe.drained") /\ UNCHANGED loc
     ELSE ReportStep(j, "run-implementation")
  /\ UNCHANGED <<task, records>>

\* A step returned: a failed one ends the pipeline, planning is followed by
\* a check, an implementation step uses up one unit of the budget.
PipeStepped(j) ==
  /\ pc[j] = "pipe.stepped"
  /\ IF loc[j].err THEN Go(j, "pipe.defer") /\ UNCHANGED loc
     ELSE IF loc[j].step \in Planning THEN Check(j, "pipe.approve")
     ELSE /\ loc' = [loc EXCEPT ![j].n = @ - 1]
          /\ Go(j, "pipe.loop")
  /\ UNCHANGED <<task, records>>

PipeDrained(j) ==
  /\ pc[j] = "pipe.drained"
  /\ IF Pickable(plan) THEN ReportAndFail(j)
     ELSE Check(j, "pipe.count")
  /\ UNCHANGED <<task, records>>

PipeCount(j) ==
  /\ pc[j] = "pipe.count"
  /\ IF Positions(plan) = {} \/ ~AllDone(plan) THEN ReportAndFail(j)
     ELSE Report(j, "pipe.park")
  /\ UNCHANGED <<task, records>>

PipePark(j) ==
  /\ pc[j] = "pipe.park"
  /\ MoveTask("review")
  /\ Go(j, "report")
  /\ loc' = [loc EXCEPT ![j].ret = "pipe.defer"]
  /\ UNCHANGED <<approved, plan, prog, records>>

\* Mutant: is_running is cleared only when the pipeline succeeds.
PipeDeferMutant(j) ==
  /\ pc[j] = "pipe.defer"
  /\ IF prog.running /\ ~loc[j].err
     THEN /\ loc' = [loc EXCEPT ![j].prog = prog]
          /\ Go(j, "pipe.clear")
     ELSE Go(j, "recheck") /\ UNCHANGED loc
  /\ UNCHANGED <<task, records>>

\* The deferred function clears is_running on every way out.
PipeDefer(j) ==
  /\ pc[j] = "pipe.defer"
  /\ IF prog.running
     THEN /\ loc' = [loc EXCEPT ![j].prog = prog]
          /\ Go(j, "pipe.clear")
     ELSE Go(j, "recheck") /\ UNCHANGED loc
  /\ UNCHANGED <<task, records>>

PipeClear(j) ==
  /\ pc[j] = "pipe.clear"
  /\ prog' = [loc[j].prog EXCEPT !.running = FALSE]
  /\ Go(j, "recheck")
  /\ UNCHANGED <<status, approved, plan, records, loc>>

PipelineStep(j) ==
  \/ ReportRead(j) \/ ReportWrite(j) \/ StopIfCancelled(j) \/ StopIfPaused(j)
  \/ PipeBegin(j) \/ PipeRead(j) \/ PipeApprove(j) \/ PipeBudget(j)
  \/ PipeLoop(j) \/ PipeNext(j) \/ PipeStepped(j) \/ PipeDrained(j)
  \/ PipeCount(j) \/ PipePark(j) \/ PipeDefer(j) \/ PipeClear(j)

=============================================================================
