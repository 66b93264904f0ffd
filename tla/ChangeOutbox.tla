---------------------------- MODULE ChangeOutbox ---------------------------
(***************************************************************************)
(* What the change set of a task promises: work that was recorded waits    *)
(* until a pull request has it, and is then removed, all of it at once.    *)
(* The only other way out is to be replaced by later work on the same      *)
(* path.  Nothing is shipped that was not recorded.                        *)
(***************************************************************************)
EXTENDS FiniteSets

CONSTANTS Runs, Paths

VARIABLES waiting, shipped   \* sets of <<run, path>>

Work == Runs \X Paths

Init == waiting = {} /\ shipped = {}

Record ==
  /\ \E fresh \in (SUBSET Work) \ {{}} :
       waiting' = fresh \cup {w \in waiting : \A f \in fresh : f[2] # w[2]}
  /\ UNCHANGED shipped

Ship ==
  /\ \E sent \in (SUBSET waiting) \ {{}} : shipped' = shipped \cup sent
  /\ UNCHANGED waiting

Consume ==
  /\ waiting # {} /\ waiting \subseteq shipped
  /\ waiting' = {}
  /\ UNCHANGED shipped

Next == Record \/ Ship \/ Consume

Spec == Init /\ [][Next]_<<waiting, shipped>>

=============================================================================
