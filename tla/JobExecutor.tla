---------------------------- MODULE JobExecutor -----------------------------
(***************************************************************************)
(* executeJob: the goroutine that runs one job, from its "starting" write  *)
(* to its terminal write, with the artifact helpers it calls (planning,    *)
(* implementation, pause, resume, recover, mark-stuck, skip-to-phase) and  *)
(* the chaining it does afterwards.  The record it writes back is the copy *)
(* it holds, so a write of jobState overwrites whatever was there.         *)
(* Planning and implementation are also the steps of run-pipeline.         *)
(***************************************************************************)
EXTENDS TaskStore

IsPipeline(p) == op[p] = "run-pipeline"

\* Where the artifact helper of an action begins.
Entry(action) ==
  CASE action \in Planning             -> "plan"
    [] action = "run-implementation"   -> "implement"
    [] action = "run-pipeline"         -> "pipe"
    [] action \in Pausing              -> "pause"
    [] OTHER                           -> "repair"

\* What a job runs now: its own action, or the current step of the pipeline.
Running(p) == IF IsPipeline(p) THEN loc[p].step ELSE op[p]

\* Where planning and implementation return to.
AfterStep(p) == IF IsPipeline(p) THEN "pipe.stepped" ELSE "recheck"

-----------------------------------------------------------------------------
(* From the queue to the artifact helpers. *)

Start(j) ==
  /\ pc[j] = "start"
  /\ UpdateJob(j, "starting")
  /\ Go(j, "prepare")
  /\ UNCHANGED <<task, op, loc>>

\* The task or job workspace is cloned, which may fail.
Prepare(j) ==
  /\ pc[j] = "prepare"
  /\ Go(j, "check") \/ (Faults /\ Go(j, "fail"))
  /\ UNCHANGED <<task, records, loc>>

\* GetJob: a job cancelled by now ends here.
CheckCancelled(j) ==
  /\ pc[j] = "check"
  /\ IF jobState[j] = "cancelled" THEN Leave(j)
     ELSE Go(j, IF Container /\ ~IsPipeline(j) THEN "spawn" ELSE "run")
          /\ UNCHANGED loc
  /\ UNCHANGED <<task, records>>

Spawn(j) ==
  /\ pc[j] = "spawn"
  /\ UpdateJob(j, "running")
  /\ Go(j, "resolve")
  /\ UNCHANGED <<task, op, loc>>

\* Where a container run returns to: the outer job, or the pipeline's step.
AfterContainer(j) == IF IsPipeline(j) THEN Entry(loc[j].step) ELSE "run"

\* The model is resolved; an agent's run then reads its own record to merge
\* the resolution into it.  A failure falls back to the builtin helper.
Resolve(j) ==
  /\ pc[j] = "resolve"
  /\ \/ /\ Running(j) \in Agents
        /\ loc' = [loc EXCEPT ![j].seen = jobState[j]]
        /\ Go(j, "record")
     \/ /\ Running(j) \notin Agents
        /\ Go(j, "container")
        /\ UNCHANGED loc
     \/ /\ Faults
        /\ Go(j, AfterContainer(j))
        /\ loc' = [loc EXCEPT ![j].model = FALSE]
  /\ UNCHANGED <<task, records>>

\* recordJobResolution writes the whole record back, State included.
RecordResolution(j) ==
  /\ pc[j] = "record"
  /\ UpdateJob(j, loc[j].seen)
  /\ Go(j, "container")
  /\ UNCHANGED <<task, op, loc>>

\* The container ends, with a model's result or without one.  Only a planning
\* result changes what is persisted here: the implementation helper is the
\* same with and without a model, its notes and files are not modelled.
RunContainer(j) ==
  /\ pc[j] = "container"
  /\ \E usable \in BOOLEAN :
       /\ usable => Running(j) \in Planning
       /\ loc' = [loc EXCEPT ![j].model = usable]
  /\ Go(j, AfterContainer(j))
  /\ UNCHANGED <<task, records>>

Run(j) ==
  /\ pc[j] = "run"
  /\ UpdateJob(j, "running")
  /\ Go(j, "gate")
  /\ UNCHANGED <<task, op, loc>>

\* taskPausedBlock, then the helper of the action.
Gate(j) ==
  /\ pc[j] = "gate"
  /\ Go(j, IF op[j] \in Automation /\ prog.paused THEN "fail"
           ELSE Entry(op[j]))
  /\ UNCHANGED <<task, records, loc>>

Fail(j) ==
  /\ pc[j] = "fail"
  /\ UpdateJob(j, "failed")
  /\ Leave(j)
  /\ UNCHANGED <<task, op>>

-----------------------------------------------------------------------------
(* Planning: builtinPlanning and applyModelPlanning. *)

\* The plan to write: a model's, or the builtin one, which a follow-up
\* appends to the plan it reads.
ChoosePlan(p) ==
  /\ pc[p] = "plan"
  /\ \/ /\ loc[p].model
        /\ \E m \in ModelPlans : loc' = [loc EXCEPT ![p].plan = m]
     \/ /\ ~loc[p].model
        /\ loc' = [loc EXCEPT ![p].plan =
                     IF Running(p) = "run-followup-planning"
                     THEN WithFollowUp(plan) ELSE BuiltinPlan]
  /\ Go(p, "plan.put")
  /\ UNCHANGED <<task, records>>

PutPlanned(p) ==
  /\ pc[p] = "plan.put"
  /\ plan' = loc[p].plan
  /\ Go(p, "plan.progress")
  /\ UNCHANGED <<status, approved, prog, records, loc>>

\* Planning writes a progress record of its own, it does not read the old one.
PutFreshProgress(p) ==
  /\ pc[p] = "plan.progress"
  /\ prog' = NoProgress
  /\ Go(p, "plan.move")
  /\ UNCHANGED <<status, approved, plan, records, loc>>

MovePlanned(p) ==
  /\ pc[p] = "plan.move"
  /\ MoveTask(IF RequireReview THEN "human_review" ELSE "queue")
  /\ Go(p, AfterStep(p))
  /\ UNCHANGED <<approved, plan, prog, records, loc>>

PlanningStep(p) ==
  ChoosePlan(p) \/ PutPlanned(p) \/ PutFreshProgress(p) \/ MovePlanned(p)

-----------------------------------------------------------------------------
(* Implementation: builtinImplementationOpts completes one subtask. *)

\* Mutant: the approval is not asked for.
ImplementGateMutant(p) ==
  /\ pc[p] = "implement"
  /\ Go(p, "implement.plan")
  /\ UNCHANGED <<task, records, loc>>

ImplementGate(p) ==
  /\ pc[p] = "implement"
  /\ IF RequireReview /\ ~approved /\ status = "human_review"
     THEN Abort(p, AfterStep(p))
     ELSE Go(p, "implement.plan") /\ UNCHANGED loc
  /\ UNCHANGED <<task, records>>

ImplementReadPlan(p) ==
  /\ pc[p] = "implement.plan"
  /\ IF plan = << >> THEN Abort(p, AfterStep(p))
     ELSE /\ loc' = [loc EXCEPT ![p].plan = plan]
          /\ Go(p, "implement.start")
  /\ UNCHANGED <<task, records>>

ImplementStart(p) ==
  /\ pc[p] = "implement.start"
  /\ MoveTask("in_progress")
  /\ Go(p, IF Pickable(loc[p].plan) THEN "implement.put" ELSE "implement.idle")
  /\ UNCHANGED <<approved, plan, prog, records, loc>>

\* No subtask with an id is to be picked: the card goes to review.
ImplementNothing(p) ==
  /\ pc[p] = "implement.idle"
  /\ MoveTask("review")
  /\ Go(p, AfterStep(p))
  /\ UNCHANGED <<approved, plan, prog, records, loc>>

ImplementPutPlan(p) ==
  /\ pc[p] = "implement.put"
  /\ plan' = CompleteFirst(loc[p].plan)
  /\ loc' = [loc EXCEPT ![p].plan = CompleteFirst(loc[p].plan)]
  /\ Go(p, "implement.progress")
  /\ UNCHANGED <<status, approved, prog, records>>

ImplementReadProgress(p) ==
  /\ pc[p] = "implement.progress"
  /\ loc' = [loc EXCEPT ![p].prog = prog]
  /\ Go(p, IF AllDone(loc[p].plan) THEN "implement.finish"
           ELSE "implement.report")
  /\ UNCHANGED <<task, records>>

ImplementFinish(p) ==
  /\ pc[p] = "implement.finish"
  /\ MoveTask("review")
  /\ Go(p, "implement.report")
  /\ UNCHANGED <<approved, plan, prog, records, loc>>

ImplementPutProgress(p) ==
  /\ pc[p] = "implement.report"
  /\ prog' = [loc[p].prog EXCEPT !.running = IsPipeline(p)]
  /\ Go(p, AfterStep(p))
  /\ UNCHANGED <<status, approved, plan, records, loc>>

ImplementationStep(p) ==
  \/ ImplementGate(p) \/ ImplementReadPlan(p) \/ ImplementStart(p)
  \/ ImplementNothing(p) \/ ImplementPutPlan(p) \/ ImplementReadProgress(p)
  \/ ImplementFinish(p) \/ ImplementPutProgress(p)

-----------------------------------------------------------------------------
(* Pause and resume: one read and one write of progress.json. *)

PauseRead(j) ==
  /\ pc[j] = "pause"
  /\ IF prog.paused = (op[j] = "pause-task")
     THEN Go(j, "recheck") /\ UNCHANGED loc
     ELSE /\ loc' = [loc EXCEPT ![j].prog = prog]
          /\ Go(j, "pause.put")
  /\ UNCHANGED <<task, records>>

PauseWrite(j) ==
  /\ pc[j] = "pause.put"
  /\ prog' = [loc[j].prog EXCEPT !.paused = (op[j] = "pause-task"),
                                 !.running = FALSE]
  /\ Go(j, "recheck")
  /\ UNCHANGED <<status, approved, plan, records, loc>>

-----------------------------------------------------------------------------
(* recover-subtask, mark-stuck, skip-to-phase, and the stuck mark a cancel *)
(* request leaves: a rewrite of the plan, then of progress, then a move.   *)

\* The rewritten plan when there is something to rewrite.
RepairsTo(p, n) ==
  CASE op[p] = "recover-subtask" -> Recovered(plan)
    [] op[p] = "skip-to-phase"   -> SkippedTo(plan, n)
    [] OTHER                     -> MarkFirstStuck(plan)

Repairable(p, n) ==
  /\ plan # << >>
  /\ CASE op[p] = "recover-subtask" ->
            \E x \in Positions(plan) : StatusAt(plan, x) \in Recoverable
       [] op[p] = "skip-to-phase" -> n \in DOMAIN plan
       [] OTHER -> Pickable(plan)

\* A recover with nothing to reset succeeds, a cancel has nothing to report;
\* the other repairs fail.
RepairNothing(p) ==
  IF p \in Requests THEN Leave(p)
  ELSE IF plan # << >> /\ op[p] = "recover-subtask"
       THEN Go(p, "recheck") /\ UNCHANGED loc
       ELSE Abort(p, "recheck")

\* The target phase is the request's; n is only read by skip-to-phase.
RepairRead(p) ==
  /\ pc[p] = "repair"
  /\ \E n \in IF op[p] = "skip-to-phase" THEN 1..(Len(plan) + 1) ELSE {1} :
       IF Repairable(p, n)
       THEN /\ loc' = [loc EXCEPT ![p].plan = RepairsTo(p, n),
                                  ![p].n = n,
                                  ![p].prog = [NoProgress EXCEPT
                                                 !.stuck = FirstOpen(plan)]]
            /\ Go(p, "repair.put")
       ELSE RepairNothing(p)
  /\ UNCHANGED <<task, records>>

RepairPutPlan(p) ==
  /\ pc[p] = "repair.put"
  /\ plan' = loc[p].plan
  /\ Go(p, "repair.progress")
  /\ UNCHANGED <<status, approved, prog, records, loc>>

\* Mutant: a recovered task keeps the stuck mark.
MarkedMutant(p, current) ==
  IF op[p] = "recover-subtask" THEN [current EXCEPT !.running = FALSE]
  ELSE IF op[p] = "skip-to-phase" THEN NoProgress
  ELSE [current EXCEPT !.running = FALSE, !.stuck = loc[p].prog.stuck]

\* A stuck mark keeps the pause; recover and skip lift it and the mark.
Marked(p, current) ==
  IF op[p] \in {"recover-subtask", "skip-to-phase"}
  THEN NoProgress
  ELSE [current EXCEPT !.running = FALSE, !.stuck = loc[p].prog.stuck]

RepairReadProgress(p) ==
  /\ pc[p] = "repair.progress"
  /\ loc' = [loc EXCEPT ![p].prog = Marked(p, prog)]
  /\ Go(p, "repair.report")
  /\ UNCHANGED <<task, records>>

\* A cancel leaves the card where it is.
RepairPutProgress(p) ==
  /\ pc[p] = "repair.report"
  /\ prog' = loc[p].prog
  /\ IF p \in Requests THEN Leave(p) ELSE Go(p, "repair.move") /\ UNCHANGED loc
  /\ UNCHANGED <<status, approved, plan, records>>

\* skip-to-phase lands on the column of the target phase.
RepairMove(p) ==
  /\ pc[p] = "repair.move"
  /\ MoveTask(IF op[p] # "skip-to-phase" THEN "in_progress"
              ELSE CASE loc[p].plan[loc[p].n].kind = "review"   -> "review"
                     [] loc[p].plan[loc[p].n].kind = "planning" -> "queue"
                     [] OTHER                                  -> "in_progress")
  /\ Go(p, "recheck")
  /\ UNCHANGED <<approved, plan, prog, records, loc>>

RepairStep(p) ==
  \/ RepairRead(p) \/ RepairPutPlan(p) \/ RepairReadProgress(p)
  \/ RepairPutProgress(p) \/ RepairMove(p)

-----------------------------------------------------------------------------
(* After the helper: the second look at the record, chaining, completion. *)

\* Where a job goes that its helper did not fail.
FollowUp(j) ==
  IF op[j] = "run-implementation" THEN "coded"
  ELSE IF op[j] \in Planning THEN "planned"
  ELSE "complete"

\* Mutant: the record is not looked at a second time.
UnwatchedRecheckMutant(j) ==
  /\ pc[j] = "recheck"
  /\ Go(j, IF loc[j].err THEN "fail" ELSE FollowUp(j))
  /\ UNCHANGED <<task, records, loc>>

\* Mutant: a failed helper returns without recording the failure.
SilentRecheckMutant(j) ==
  /\ pc[j] = "recheck"
  /\ IF jobState[j] = "cancelled" \/ loc[j].err THEN Leave(j)
     ELSE Go(j, FollowUp(j)) /\ UNCHANGED loc
  /\ UNCHANGED <<task, records>>

\* The job was cancelled, its helper failed, or its follow-up begins.
Recheck(j) ==
  /\ pc[j] = "recheck"
  /\ IF jobState[j] = "cancelled" THEN Leave(j)
     ELSE Go(j, IF loc[j].err THEN "fail" ELSE FollowUp(j)) /\ UNCHANGED loc
  /\ UNCHANGED <<task, records>>

\* postImplementationJob reads the plan, then the pause.
CodedRead(j) ==
  /\ pc[j] = "coded"
  /\ loc' = [loc EXCEPT ![j].plan = plan]
  /\ Go(j, "coded.next")
  /\ UNCHANGED <<task, records>>

CodedNext(j) ==
  /\ pc[j] = "coded.next"
  /\ Go(j, IF prog.paused THEN "complete"
           ELSE IF HasPendingCoding(loc[j].plan)
                THEN IF AutoChain THEN "chain" ELSE "complete"
           ELSE IF AllCodingComplete(loc[j].plan) THEN "park"
           ELSE "complete")
  /\ UNCHANGED <<task, records, loc>>

\* parkTaskForHumanReview.
ParkCheck(j) ==
  /\ pc[j] = "park"
  /\ Go(j, IF prog.paused THEN "complete" ELSE "park.move")
  /\ UNCHANGED <<task, records, loc>>

Park(j) ==
  /\ pc[j] = "park.move"
  /\ MoveTask("review")
  /\ Go(j, "complete")
  /\ UNCHANGED <<approved, plan, prog, records, loc>>

\* postPlanningJob reads the task, then the pause.
PlannedRead(j) ==
  /\ pc[j] = "planned"
  /\ loc' = [loc EXCEPT ![j].card = status, ![j].ret = "planned.chain"]
  /\ Go(j, "planned.next")
  /\ UNCHANGED <<task, records>>

PlannedNext(j) ==
  /\ pc[j] = "planned.next"
  /\ Go(j, IF prog.paused THEN "complete"
           ELSE IF ~(RequireReview /\ loc[j].card = "human_review")
                THEN "planned.chain"
           ELSE IF Autopilot THEN "approve"
           ELSE "complete")
  /\ UNCHANGED <<task, records, loc>>

PlannedChain(j) ==
  /\ pc[j] = "planned.chain"
  /\ Go(j, IF AutoChain THEN "chain" ELSE "complete")
  /\ UNCHANGED <<task, records, loc>>

\* Mutant: the chained job is persisted but its goroutine is not launched.
ChainMutant(j) ==
  /\ pc[j] = "chain"
  /\ CreateJob("run-implementation") \/ (OutOfJobs /\ UNCHANGED records)
  /\ Go(j, "complete")
  /\ UNCHANGED <<task, loc>>

\* The next run-implementation is created and its goroutine launched.
Chain(j) ==
  /\ pc[j] = "chain"
  /\ \/ /\ CreateJob("run-implementation")
        /\ pc' = [pc EXCEPT ![j] = "complete", ![NextJob] = "start"]
     \/ /\ OutOfJobs
        /\ Go(j, "complete")
        /\ UNCHANGED records
  /\ UNCHANGED <<task, loc>>

Complete(j) ==
  /\ pc[j] = "complete"
  /\ UpdateJob(j, "completed")
  /\ Leave(j)
  /\ UNCHANGED <<task, op>>

ExecutorStep(j) ==
  \/ Start(j) \/ Prepare(j) \/ CheckCancelled(j) \/ Spawn(j) \/ Resolve(j)
  \/ RecordResolution(j) \/ RunContainer(j) \/ Run(j) \/ Gate(j) \/ Fail(j)
  \/ PlanningStep(j) \/ ImplementationStep(j)
  \/ PauseRead(j) \/ PauseWrite(j) \/ RepairStep(j)
  \/ Recheck(j) \/ CodedRead(j) \/ CodedNext(j) \/ ParkCheck(j) \/ Park(j)
  \/ PlannedRead(j) \/ PlannedNext(j) \/ PlannedChain(j) \/ Chain(j)
  \/ Complete(j)

=============================================================================
