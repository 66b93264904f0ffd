--------------------------- MODULE TaskProperties ---------------------------
(* What the automation of a task promises. *)
EXTENDS TaskAutomation, Integers

AtContainer == {"resolve", "record", "container"}
AtPlanning == {"plan", "plan.put", "plan.progress", "plan.move"}
AtImplementation ==
  {"implement", "implement.plan", "implement.start", "implement.idle",
   "implement.put", "implement.progress", "implement.finish",
   "implement.report"}
AtRepair == {"pause", "pause.put", "repair", "repair.put", "repair.progress",
             "repair.report", "repair.move"}
AtApproval == {"approve", "approve.move", "approve.mark"}
AtPipeline ==
  {"report", "report.put", "stop", "stop.paused", "pipe", "pipe.read",
   "pipe.approve", "pipe.budget", "pipe.loop", "pipe.next", "pipe.stepped",
   "pipe.drained", "pipe.count", "pipe.park", "pipe.defer", "pipe.clear"}
AtFollowUp == {"coded", "coded.next", "park", "park.move", "planned",
               "planned.next", "planned.chain", "chain"}
AtRequest == {"idle", "launch", "drag.paused", "drag.list", "drag.create",
              "cancel.put"}

Labels ==
  AtContainer \cup AtPlanning \cup AtImplementation \cup AtRepair
    \cup AtApproval \cup AtPipeline \cup AtFollowUp \cup AtRequest
    \cup {"none", "start", "prepare", "check", "spawn", "run", "gate", "fail",
          "recheck", "complete", "done", "dead"}

Locals ==
  [plan : Plans, prog : Progress, err : BOOLEAN, model : BOOLEAN,
   seen : JobStates, card : Columns, step : Actions \cup {"none"}, n : Int,
   ret : Labels, job : Jobs \cup {"none"}]

\* Every variable holds a value of the kind the code keeps there.
TypeOK ==
  /\ status \in Columns /\ approved \in BOOLEAN
  /\ plan \in Plans /\ prog \in Progress
  /\ jobState \in [Jobs -> JobStates]
  /\ op \in [Procs -> Actions \cup {"none"}]
  /\ pc \in [Procs -> Labels]
  /\ loc \in [Procs -> Locals]

\* The steps of runPipeline, its planning and implementation steps included.
InPipeline ==
  AtPipeline \cup AtPlanning \cup AtImplementation \cup AtApproval
    \cup AtContainer \cup {"dead"}

\* progress.json says is_running only while a run-pipeline job is inside
\* runPipeline, or was when the server died: however jobs, cancels and stale
\* progress writes interleave, a finished pipeline leaves no spinning card.
RunningHasPipeline ==
  prog.running => \E j \in Jobs : IsPipeline(j) /\ pc[j] \in InPipeline

\* A job goroutine that has returned left its record in a terminal state.
\* A record left active would block every later drag of the card.
FinishedJobIsTerminal ==
  \A j \in Jobs : pc[j] = "done" => jobState[j] \in Terminal

-----------------------------------------------------------------------------
(* The inductive invariant behind RunningHasPipeline and                   *)
(* FinishedJobIsTerminal: what holds of one job, what holds of one request *)
(* and the job it launches or cancels, and that repairs never report a     *)
(* running task.                                                           *)

\* A run id that is not used has no goroutine and no action, a goroutine that
\* has returned left a terminal record, and a resolution merges into a record.
JobRecorded(j) ==
  /\ jobState[j] = "none" => pc[j] = "none" /\ op[j] = "none"
  /\ pc[j] = "none" => loc[j] = Fresh
  /\ pc[j] = "done" => jobState[j] \in Terminal
  /\ pc[j] = "record" => loc[j].seen # "none"

\* Only a pipeline takes the pipeline's steps and it has no container of its
\* own; only it and a planning job approve the task.
JobPlace(j) ==
  /\ pc[j] \in AtPipeline => IsPipeline(j)
  /\ pc[j] = "spawn" => ~IsPipeline(j)
  /\ pc[j] \in AtApproval => IsPipeline(j) \/ op[j] \in Planning
  /\ pc[j] \in {"planned", "planned.next"} => op[j] \in Planning

\* Where the calls of a pipeline return to, and that its steps are an agent's.
PipelineReturns(j) ==
  IsPipeline(j) =>
    /\ pc[j] \in {"report", "report.put", "stop", "stop.paused"} \cup AtApproval =>
         loc[j].ret \in AtPipeline \cup {"resolve", "plan", "implement"}
    /\ pc[j] \in AtContainer \/ loc[j].ret = "resolve" => loc[j].step \in Agents

\* Where the approval by a planning job returns to.
PlanningReturns(j) ==
  pc[j] \in AtApproval \cup {"planned.next"} /\ ~IsPipeline(j) =>
    loc[j].ret = "planned.chain"

JobInv(j) ==
  JobRecorded(j) /\ JobPlace(j) /\ PipelineReturns(j) /\ PlanningReturns(j)

\* A job about to be launched has a record and no goroutine, one about to be
\* cancelled has a record.
RequestInv(r) ==
  /\ pc[r] = "launch" => /\ loc[r].job \in Jobs
                         /\ pc[loc[r].job] = "none"
                         /\ jobState[loc[r].job] # "none"
  /\ pc[r] = "cancel.put" => /\ loc[r].job \in Jobs
                             /\ jobState[loc[r].job] # "none"

\* No two requests launch the same job.
LaunchesOnce ==
  \A r, s \in Requests :
    pc[r] = "launch" /\ pc[s] = "launch" /\ loc[r].job = loc[s].job => r = s

\* A repair never writes is_running.
RepairStops(p) == pc[p] = "repair.report" => ~loc[p].prog.running

Inductive ==
  /\ TypeOK
  /\ \A j \in Jobs : JobInv(j)
  /\ \A r \in Requests : RequestInv(r)
  /\ LaunchesOnce
  /\ \A p \in Procs : RepairStops(p)
  /\ RunningHasPipeline

-----------------------------------------------------------------------------

\* The steps in which a job rewrites the plan or the progress of the task.
Writing ==
  {"plan", "plan.put", "plan.progress", "implement.start", "implement.put",
   "implement.progress", "implement.finish", "implement.report"}

\* boardTriggerBlocked: drags do not fan out jobs that write the same task.
OneWriter ==
  \A j, k \in Jobs : pc[j] \in Writing /\ pc[k] \in Writing => j = k

\* A job inside its helper, before executeJob looks at the record again; the
\* containers of a pipeline's steps are inside its helper too.
Working(j, label) ==
  \/ label \in AtPlanning \cup AtImplementation \cup AtRepair \cup AtPipeline
  \/ label \in AtApproval \cup AtContainer /\ IsPipeline(j)
  \/ label = "recheck"

\* The record is about to be written back as it was before it was cancelled.
WritesBack(j) == pc[j] = "record" /\ loc[j].seen # jobState[j]

\* A job cancelled while its helper works never chains the next job and never
\* reports another outcome: the record stays cancelled until it returns.  Only
\* a model resolution that overlaps the cancel undoes it (recordJobResolution).
CancelledWorkIsFinal ==
  [][\A j \in Jobs :
       jobState[j] = "cancelled" /\ Working(j, pc[j]) /\ ~WritesBack(j) =>
         /\ jobState'[j] = "cancelled"
         /\ Working(j, pc'[j]) \/ pc'[j] \in {"done", "dead"}
    ]_vars

\* Every job that was created ends, unless the server dies.
EveryJobEnds ==
  \A j \in Jobs : jobState[j] = "queued" ~>
    jobState[j] \in Terminal \/ \E p \in Procs : pc[p] = "dead"

\* A pipeline brings the card to review, unless somebody approves the task
\* while the pipeline does so itself.
PipelineParks ==
  \A j \in Jobs :
    jobState[j] = "queued" /\ IsPipeline(j) ~>
      status = "review" \/ \E r \in Requests : pc[r] \in AtApproval

-----------------------------------------------------------------------------
(* Coding, approval and review as the abstract session. *)

CodingLeft ==
  Cardinality({x \in CodingSubtasks(plan) :
                 StatusAt(plan, x) \notin {"completed", "done"}})

\* ApproveForCoding has moved the card and is about to record the approval.
CodingApproved == approved \/ \E p \in Procs : pc[p] = "approve.mark"

Session == INSTANCE CodingSession WITH
  NeedsApproval <- RequireReview,
  todo <- CodingLeft,
  approved <- CodingApproved,
  parked <- status = "review",
  planning <- \E p \in Procs : pc[p] = "plan.put"

\* Chained jobs, pipelines and approvals carry out the abstract session.
ImplementsSession == Session!SessionSpec

-----------------------------------------------------------------------------
(* The plan, the progress and the card agree. *)

\* A subtask is open but the runner finds no id to pick.
StopsShort(p) == OpenSubtasks(p) # {} /\ ~Pickable(p)

\* No coding subtask is open, or none that the runner still sees.
NoCodingToPick(p) ==
  CodingSubtasks(p) \cap OpenSubtasks(p) = {} \/ StopsShort(p)

\* A planning job or a repair is between its writes of the task's files.
Rewriting == \E p \in Procs : pc[p] \in AtPlanning \cup AtRepair

\* progress.json names a stuck subtask only while the plan has it stuck.
StuckMarkAgrees ==
  prog.stuck # NoSubtask /\ ~Rewriting =>
    prog.stuck \in Positions(plan) /\ StatusAt(plan, prog.stuck) = "stuck"

\* Finished subtasks are never undone, except by planning anew: no job
\* overwrites the plan with an older one.
NoLostWork ==
  [][(\A p \in Procs : ~(pc[p] = "plan.put" /\ pc'[p] = "plan.progress")) =>
       \A x \in Positions(plan) :
         StatusAt(plan, x) \in {"completed", "done"} =>
           StatusAt(plan', x) \in {"completed", "done"}]_vars

\* A card that waits in review has no coding subtask the runner still sees: none
\* is open, or the first open subtask has no id and the runner stops at it.
ReviewHasNoCodingToPick ==
  status = "review" /\ ~Rewriting => NoCodingToPick(plan)

-----------------------------------------------------------------------------
(* What the documentation says and the code does not always do. *)

\* docs/api.md: after a pause, automation stops until resume.  Only resume,
\* recover and skip-to-phase lift it.
PauseSticks ==
  [][prog.paused /\ ~prog'.paused =>
       \E j \in Jobs : /\ op[j] \in {"resume-task", "recover-subtask", "skip-to-phase"}
                       /\ pc[j] # pc'[j]]_vars

\* docs/configuration.md: the task is parked in review when coding is complete.
ReviewHasNoOpenCoding ==
  status = "review" /\ ~Rewriting => CodingSubtasks(plan) \cap OpenSubtasks(plan) = {}

\* job_model_config.go: the resolution is recorded without clobbering State.
ResolutionKeepsState ==
  [][\A j \in Jobs : pc[j] = "record" => jobState'[j] = jobState[j]
                                            \/ pc'[j] = "record"]_vars

=============================================================================
