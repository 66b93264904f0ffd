--------------------------- MODULE CodingSession ----------------------------
(***************************************************************************)
(* What the automation of a task promises the people around the board:     *)
(* coding is counted down one subtask at a time, it starts only when it    *)
(* has been approved where approval is required, only a planning job may   *)
(* change the amount of work, and the card is parked in review only when   *)
(* no coding is left.                                                      *)
(***************************************************************************)
EXTENDS Naturals

CONSTANT NeedsApproval   \* the task requires review before coding

VARIABLES
  todo,        \* coding subtasks that are not completed
  approved,    \* coding has been approved
  parked,      \* the card is in review
  planning     \* a planning job is writing the plan

session == <<todo, approved, parked, planning>>

SessionInit ==
  /\ todo \in Nat
  /\ approved = FALSE /\ parked = FALSE /\ planning = FALSE

BeginPlanning ==
  /\ ~planning /\ planning' = TRUE
  /\ UNCHANGED <<todo, approved, parked>>

Replan ==
  /\ planning /\ planning' = FALSE
  /\ todo' \in Nat
  /\ UNCHANGED <<approved, parked>>

ApproveCoding ==
  /\ ~approved /\ approved' = TRUE
  /\ UNCHANGED <<todo, parked, planning>>

Code ==
  /\ NeedsApproval => approved
  /\ ~parked /\ todo > 0
  /\ todo' = todo - 1
  /\ UNCHANGED <<approved, parked, planning>>

Park ==
  /\ todo = 0
  /\ parked' = TRUE
  /\ UNCHANGED <<todo, approved, planning>>

Reopen ==
  /\ parked /\ parked' = FALSE
  /\ UNCHANGED <<todo, approved, planning>>

SessionNext ==
  BeginPlanning \/ Replan \/ ApproveCoding \/ Code \/ Park \/ Reopen

SessionSpec == SessionInit /\ [][SessionNext]_session

=============================================================================
