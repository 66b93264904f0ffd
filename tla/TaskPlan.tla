------------------------------ MODULE TaskPlan ------------------------------
(***************************************************************************)
(* The implementation plan of one task (implementation_plan.json) and the  *)
(* functions the job runner computes on it.  A plan is a sequence of       *)
(* phases; a phase has a kind, the statuses of its subtasks and which of   *)
(* them have no id: a model's plan may leave an id out, and the runner     *)
(* takes the empty id for 'nothing is open'.  Where there is an id the     *)
(* position <<phase, index>> stands for it; descriptions and acceptance    *)
(* notes are left out.                                                     *)
(***************************************************************************)
EXTENDS Naturals, Sequences, FiniteSets

PhaseKinds == {"planning", "coding", "review"}

\* The statuses a subtask is given by the runner, or by a model's plan.
Statuses == {"pending", "in_progress", "completed", "done", "stuck", "failed"}

Plans == Seq([kind : PhaseKinds, subtasks : Seq(Statuses), unnamed : SUBSET Nat])

NoSubtask == <<0, 0>>

Positions(p) == UNION {{i} \X DOMAIN p[i].subtasks : i \in DOMAIN p}

StatusAt(p, x) == p[x[1]].subtasks[x[2]]

SetStatus(p, x, s) == [p EXCEPT ![x[1]].subtasks[x[2]] = s]

\* "pending", "" and "in_progress": what the runner may still pick.
Unfinished == {"pending", "in_progress"}

OpenSubtasks(p) == {x \in Positions(p) : StatusAt(p, x) \in Unfinished}

\* Plan order: by phase, then by position inside the phase.
Precedes(x, y) == x[1] < y[1] \/ (x[1] = y[1] /\ x[2] < y[2])

\* The subtask the runner picks next, NoSubtask when none is open.
FirstOpen(p) ==
  IF OpenSubtasks(p) = {} THEN NoSubtask
  ELSE CHOOSE x \in OpenSubtasks(p) :
         \A y \in OpenSubtasks(p) \ {x} : Precedes(x, y)

HasId(p, x) == x[2] \notin p[x[1]].unnamed

\* firstPendingSubtaskID finds an id: the first open subtask has one.
Pickable(p) == FirstOpen(p) # NoSubtask /\ HasId(p, FirstOpen(p))

CompleteFirst(p) == SetStatus(p, FirstOpen(p), "completed")

MarkFirstStuck(p) == SetStatus(p, FirstOpen(p), "stuck")

\* Mutant: one finished subtask is taken for all of them.
AllDoneMutant(p) == \E x \in Positions(p) : StatusAt(p, x) \in {"completed", "done"}

\* Every subtask is completed or done, as countPlanSubtasks counts them.
AllDone(p) == \A x \in Positions(p) : StatusAt(p, x) \in {"completed", "done"}

CodingSubtasks(p) == {x \in Positions(p) : p[x[1]].kind = "coding"}

\* Anything but "completed" and "stuck" still counts as coding work.
HasPendingCoding(p) ==
  \E x \in CodingSubtasks(p) : StatusAt(p, x) \notin {"completed", "stuck"}

AllCodingComplete(p) ==
  /\ CodingSubtasks(p) # {}
  /\ \A x \in CodingSubtasks(p) : StatusAt(p, x) = "completed"

\* Rewrites the status of every subtask of phase i by f.
MapPhase(ph, f) ==
  [ph EXCEPT !.subtasks = [k \in DOMAIN ph.subtasks |-> f[ph.subtasks[k]]]]

\* Mutant: recover-subtask resets finished subtasks too.
RecoverableMutant == Statuses \ {"pending"}

Recoverable == {"stuck", "failed", "in_progress"}

\* Mutant: a recovered subtask gets a status the runner does not know.
RecoveredMutant(p) ==
  [i \in DOMAIN p |->
     MapPhase(p[i], [s \in Statuses |->
                       IF s \in Recoverable THEN "open" ELSE s])]

\* recover-subtask: stuck, failed and in-progress subtasks become pending.
Recovered(p) ==
  [i \in DOMAIN p |->
     MapPhase(p[i], [s \in Statuses |->
                       IF s \in Recoverable THEN "pending" ELSE s])]

\* skip-to-phase: everything before the target phase becomes completed.
SkippedTo(p, target) ==
  [i \in DOMAIN p |->
     IF i < target
     THEN MapPhase(p[i], [s \in Statuses |->
                            IF s = "done" THEN s ELSE "completed"])
     ELSE p[i]]

\* The plan builtinPlanning writes.
BuiltinPlan ==
  << [kind |-> "planning", subtasks |-> <<"completed">>, unnamed |-> {}],
     [kind |-> "coding", subtasks |-> <<"pending", "pending">>, unnamed |-> {}],
     [kind |-> "review", subtasks |-> <<"pending">>, unnamed |-> {}] >>

\* run-followup-planning appends one coding phase to a plan that has phases.
WithFollowUp(p) ==
  IF p = << >> THEN BuiltinPlan
  ELSE Append(p, [kind |-> "coding", subtasks |-> <<"pending">>, unnamed |-> {}])

=============================================================================
