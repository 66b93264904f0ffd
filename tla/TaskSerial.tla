---------------------------- MODULE TaskSerial -----------------------------
(***************************************************************************)
(* The automation when one request is served at a time, jobs are posted    *)
(* only for a quiet task and none is cancelled: what then holds of its     *)
(* goroutines, and why the plan, the progress and the card agree.  These   *)
(* are the environments and the inductive invariants of TaskSerial_proofs. *)
(***************************************************************************)
EXTENDS TaskProperties

Serial == SerialRequests /\ QuietPosts /\ "cancel" \notin Offered

\* A job that may still read or write the task.
Live(j) == pc[j] \notin {"none", "complete", "done", "dead"}

\* At most one request is served and one job is live, a job with a goroutine
\* has an active record, and a request creates a job only beside terminal ones.
Alone ==
  /\ \A r, s \in Requests : ~Answered(r) /\ ~Answered(s) => r = s
  /\ \A j, k \in Jobs : Live(j) /\ Live(k) => j = k
  /\ \A j \in Jobs : /\ pc[j] \notin {"none", "done", "dead"} => jobState[j] \in Active
                     /\ pc[j] = "record" => loc[j].seen \in Active
                     /\ pc[j] # "idle"
  /\ \A r \in Requests :
       /\ pc[r] \notin AtRepair \cup {"cancel.put"}
       /\ pc[r] = "drag.create" => ~JobIsActive
       /\ pc[r] = "launch" =>
            \A k \in Jobs : jobState[k] \in Active => k = loc[r].job

\* Where the calls of a pipeline return to, label by label.
Returns(j) ==
  /\ pc[j] \in {"report", "report.put"} =>
       loc[j].ret \in {"pipe.read", "pipe.park", "pipe.defer", "resolve", "plan",
                      "implement"}
  /\ pc[j] \in {"stop", "stop.paused"} =>
       loc[j].ret \in {"pipe.next", "pipe.count", "pipe.approve"}
  /\ pc[j] \in AtApproval => loc[j].ret \in {"pipe.budget", "planned.chain", "done"}

\* A subtask that progress.json may name as stuck.
IsStuck(x) == x \in Positions(plan) /\ StatusAt(plan, x) = "stuck"

\* Every coding subtask of the phases before n is out of the runner's reach.
ClosedBefore(n) ==
  n \in DOMAIN plan /\ \A x \in CodingSubtasks(plan) \cap OpenSubtasks(plan) : x[1] >= n

\* The plan a repair is about to write is the file's, repaired.
RepairsCurrent(j) ==
  CASE op[j] = "recover-subtask" -> loc[j].plan = Recovered(plan)
    [] op[j] = "skip-to-phase"   -> /\ loc[j].n \in DOMAIN plan
                                    /\ loc[j].plan = SkippedTo(plan, loc[j].n)
    [] OTHER -> /\ Pickable(plan)
                /\ loc[j].plan = MarkFirstStuck(plan)
                /\ loc[j].prog.stuck = FirstOpen(plan)

\* A pipeline has counted the subtasks and is about to move the card.
ParksNext(j) ==
  \/ pc[j] = "pipe.park"
  \/ pc[j] \in {"report", "report.put"} /\ loc[j].ret = "pipe.park"

\* What a job read of the plan and the progress is still what they say.
Current(j) ==
  /\ Returns(j)
  /\ pc[j] \in {"implement.start", "implement.idle", "implement.put",
               "implement.progress", "coded.next"} => loc[j].plan = plan
  /\ pc[j] \in {"implement.start", "implement.idle", "implement.put",
               "implement.progress", "implement.finish"} => plan # << >>
  /\ pc[j] = "implement.idle" => ~Pickable(plan)
  /\ pc[j] = "implement.put" => Pickable(plan)
  /\ pc[j] \in {"implement.finish", "implement.report", "report.put", "pipe.clear",
               "pause.put"} => loc[j].prog = prog
  /\ pc[j] = "implement.finish" => AllDone(plan)
  /\ ParksNext(j) => Positions(plan) # {} /\ AllDone(plan)
  /\ pc[j] \in {"park", "park.move"} => AllCodingComplete(plan)
  /\ pc[j] = "repair.put" => RepairsCurrent(j)
  /\ pc[j] \in {"repair.progress", "repair.report", "repair.move"}
       /\ op[j] = "skip-to-phase" => loc[j].plan = plan /\ ClosedBefore(loc[j].n)
  /\ pc[j] \in {"repair.progress", "repair.report"} =>
       \/ op[j] \in {"recover-subtask", "skip-to-phase"}
       \/ IsStuck(loc[j].prog.stuck)
  /\ pc[j] = "repair.report" /\ op[j] \in {"recover-subtask", "skip-to-phase"} =>
       loc[j].prog.stuck = NoSubtask

SerialInv == Inductive /\ Alone /\ \A j \in Jobs : Current(j)

\* Between the plan and the progress that goes with it.
PlanTorn == \E j \in Jobs : pc[j] \in {"plan.progress", "repair.progress", "repair.report"}

MarkInv == prog.stuck # NoSubtask => PlanTorn \/ IsStuck(prog.stuck)

\* Between the plan and the move that goes with it.
CardTorn ==
  \E j \in Jobs : pc[j] \in {"plan.progress", "plan.move", "repair.progress",
                            "repair.report", "repair.move"}

\* A job carries out what was posted, or what a drag, a chain or a pipeline
\* starts, and repairs only as a repair.
Named(j) ==
  /\ jobState[j] # "none" => op[j] \in Posted \cup {"run-planning", "run-implementation"}
  /\ pc[j] \in AtRepair \ {"pause", "pause.put"} => op[j] \in Repairs
  /\ IsPipeline(j) => loc[j].step \in {"none", "run-planning", "run-implementation"}

DragsNamed ==
  \A r \in Requests : pc[r] \in {"drag.paused", "drag.list", "drag.create"} =>
    loc[r].step \in {"run-planning", "run-implementation"}

NamedInv == DragsNamed /\ \A j \in Jobs : Named(j)

\* No coding phase comes after a review phase.
CodingFirst(p) ==
  \A i, k \in DOMAIN p : p[i].kind = "review" /\ p[k].kind = "coding" => k < i

\* Nobody drags the card to review or crashes the server, and a skip to a
\* review phase has no coding phase behind it.
ReviewEnv ==
  /\ Serial /\ "crash" \notin Offered
  /\ "drag" \in Offered => "review" \notin DragTo
  /\ "skip-to-phase" \in Posted =>
       /\ "run-followup-planning" \notin Posted
       /\ \A p \in StartPlans \cup ModelPlans : CodingFirst(p)

ReviewInv ==
  /\ status = "review" => CardTorn \/ NoCodingToPick(plan)
  /\ "skip-to-phase" \in Posted =>
       /\ CodingFirst(plan)
       /\ \A j \in Jobs : pc[j] = "plan.put" => CodingFirst(loc[j].plan)

-----------------------------------------------------------------------------
(* What holds besides when the automation carries out the session.         *)

\* No subtask was given up, and every one has an id.
Clean(p) ==
  \A x \in Positions(p) : StatusAt(p, x) \notin {"stuck", "failed"} /\ HasId(p, x)

\* Every plan names its subtasks, nothing gives one up, and the card is dragged
\* neither past its approval nor to review.
SessionEnv ==
  /\ Serial /\ "crash" \notin Offered /\ Posted \cap Repairs = {}
  /\ \A p \in StartPlans \cup ModelPlans : Clean(p)
  /\ "drag" \in Offered =>
       ~RequireReview /\ DragTo \cap {"review", "human_review"} = {}

\* Planning is a planning action's, implementation an implementation's.
Does(label, action) ==
  /\ label \in AtPlanning => action \in Planning
  /\ label \in AtImplementation => action = "run-implementation"

\* A job works at what it runs, and so will its pipeline when it has reported.
Works(j) ==
  /\ Does(pc[j], Running(j))
  /\ pc[j] \in {"report", "report.put"} => Does(loc[j].ret, loc[j].step)
  /\ pc[j] \in {"pause", "pause.put"} => op[j] \in Pausing
  /\ pc[j] = "pipe.stepped" => loc[j].step \in Agents

WorksInv ==
  /\ \A j \in Jobs : Works(j)
  /\ \A r \in Requests : pc[r] # "plan.put"

\* Past its check of the approval.
Gated(j) ==
  \/ pc[j] \in {"implement.start", "implement.idle", "implement.put",
               "implement.progress", "implement.finish", "implement.report",
               "coded", "coded.next", "park", "park.move", "pipe.budget",
               "pipe.loop", "pipe.next", "pipe.drained", "pipe.count"}
  \/ pc[j] \in {"stop", "stop.paused"} /\ loc[j].ret \in {"pipe.next", "pipe.count"}
  \/ ParksNext(j)
  \/ pc[j] = "recheck" /\ op[j] = "run-implementation" /\ ~loc[j].err
  \/ pc[j] = "pipe.stepped" /\ loc[j].step = "run-implementation" /\ ~loc[j].err

\* A planned task waits for its approval, and no coding is on its way.
Waiting ==
  /\ status # "review"
  /\ plan # << >> =>
       /\ status = "human_review" \/ \E j \in Jobs : pc[j] \in {"plan.progress", "plan.move"}
       /\ \A j \in Jobs : ~Gated(j) /\ pc[j] # "implement.plan"

NoApproval ==
  /\ status # "human_review" /\ ~approved
  /\ \A p \in Procs : pc[p] \notin {"approve.move", "approve.mark"}

SessionInv ==
  /\ Clean(plan) /\ \A j \in Jobs : pc[j] = "plan.put" => Clean(loc[j].plan)
  /\ RequireReview /\ ~CodingApproved => Waiting
  /\ ~RequireReview => NoApproval
  /\ \A j \in Jobs : pc[j] = "implement.put" => status # "review"

=============================================================================
