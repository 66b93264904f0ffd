-------------------------- MODULE MCTaskAutomation --------------------------
(* Instances of TaskAutomation for TLC. *)
EXTENDS TaskSerial, TLC

\* A model's plan with one coding subtask and nothing to review.
ShortPlan ==
  << [kind |-> "coding", subtasks |-> <<"pending">>, unnamed |-> {}] >>

\* Two coding subtasks in one phase.
PairPlan ==
  << [kind |-> "coding", subtasks |-> <<"pending", "pending">>, unnamed |-> {}] >>

\* Two coding subtasks, the second without an id.
NamelessPlan ==
  << [kind |-> "coding", subtasks |-> <<"pending", "pending">>, unnamed |-> {2}] >>

\* A model may return a plan with a subtask it declares done.
DonePlan ==
  << [kind |-> "coding", subtasks |-> <<"done", "pending">>, unnamed |-> {}] >>

NoPlans == {}
ShortPlans == {ShortPlan}
SomePlans == {ShortPlan, PairPlan, NamelessPlan, DonePlan}
NamelessPlans == {NamelessPlan}

Symmetry == Permutations(Requests)

=============================================================================
