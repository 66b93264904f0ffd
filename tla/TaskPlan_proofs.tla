-------------------------- MODULE TaskPlan_proofs ---------------------------
(* Lemmas about the plan functions of TaskPlan. *)
EXTENDS TaskPlan, SequenceTheorems, FiniteSetTheorems, WellFoundedInduction, TLAPS

Phase == [kind : PhaseKinds, subtasks : Seq(Statuses), unnamed : SUBSET Nat]

\* A plan is a sequence of phases.
LEMMA PlansAreSequences == Plans = Seq(Phase)
  BY DEF Plans, Phase

\* A position is a pair of numbers from 1.
LEMMA PositionsAreNumbers ==
  ASSUME NEW p \in Plans, NEW x \in Positions(p)
  PROVE  /\ x \in Nat \X Nat
         /\ x[1] \in DOMAIN p
         /\ x[2] \in DOMAIN p[x[1]].subtasks
         /\ x # NoSubtask
<1>1. PICK i \in DOMAIN p : x \in {i} \X DOMAIN p[i].subtasks
  BY DEF Positions
<1>2. i \in Nat \ {0} /\ p[i] \in Phase
  BY PlansAreSequences
<1>3. p[i].subtasks \in Seq(Statuses)
  BY <1>2 DEF Phase
<1>4. x[1] = i /\ x[2] \in DOMAIN p[i].subtasks /\ x = <<x[1], x[2]>>
  BY <1>1
<1>5. x[2] \in Nat \ {0}
  BY <1>3, <1>4
<1>6. QED
  BY <1>2, <1>4, <1>5 DEF NoSubtask

\* A plan has finitely many subtasks, so they can be counted.
LEMMA OpenSubtasksFinite ==
  ASSUME NEW p \in Plans
  PROVE  IsFiniteSet(Positions(p)) /\ IsFiniteSet(OpenSubtasks(p))
<1> DEFINE f == [i \in DOMAIN p |-> {i} \X DOMAIN p[i].subtasks]
           S == {f[i] : i \in DOMAIN p}
<1>1. IsFiniteSet(DOMAIN p)
  <2>1. p \in Seq(Phase) /\ DOMAIN p = 1..Len(p) /\ Len(p) \in Nat
    BY PlansAreSequences
  <2>2. QED
    BY <2>1, FS_Interval
<1>2. IsFiniteSet(S)
  <2>1. f \in Surjection(DOMAIN p, S)
    BY DEF Surjection
  <2>2. QED
    BY <1>1, <2>1, FS_Surjection
<1>3. \A T \in S : IsFiniteSet(T)
  <2>1. SUFFICES ASSUME NEW i \in DOMAIN p
                 PROVE  IsFiniteSet({i} \X DOMAIN p[i].subtasks)
    OBVIOUS
  <2>0. p[i] \in Phase
    BY PlansAreSequences
  <2>2. p[i].subtasks \in Seq(Statuses)
    BY <2>0 DEF Phase
  <2>3. DOMAIN p[i].subtasks = 1..Len(p[i].subtasks) /\ Len(p[i].subtasks) \in Nat
    BY <2>2
  <2>4. IsFiniteSet(DOMAIN p[i].subtasks)
    BY <2>3, FS_Interval
  <2>5. QED
    BY <2>4, FS_Singleton, FS_Product
<1>4. Positions(p) = UNION S
  BY DEF Positions
<1>5. IsFiniteSet(Positions(p))
  BY <1>2, <1>3, <1>4, FS_UNION
<1>6. QED
  BY <1>5, FS_Subset DEF OpenSubtasks

\* Changing a function outside its domain changes nothing.
LEMMA ExceptOutside ==
  ASSUME NEW D, NEW S, NEW f \in [D -> S], NEW x, x \notin D, NEW e
  PROVE  [f EXCEPT ![x] = e] = f
  OBVIOUS

\* Whatever subtask is named, setting its status keeps a plan a plan.
LEMMA SetStatusKeepsPlans ==
  ASSUME NEW p \in Plans, NEW x, NEW s \in Statuses
  PROVE  SetStatus(p, x, s) \in Plans
<1> DEFINE phase == p[x[1]]
           done == [phase EXCEPT !.subtasks[x[2]] = s]
<1>1. SetStatus(p, x, s) = [p EXCEPT ![x[1]] = done]
  BY DEF SetStatus
<1>2. CASE x[1] \notin DOMAIN p
  <2>1. p \in [DOMAIN p -> Phase]
    BY PlansAreSequences
  <2>2. [p EXCEPT ![x[1]] = done] = p
    BY <1>2, <2>1, ExceptOutside
  <2>3. QED
    BY <1>1, <2>2
<1>3. CASE x[1] \in DOMAIN p
  <2>1. phase \in Phase
    BY <1>3, PlansAreSequences
  <2>2. [phase.subtasks EXCEPT ![x[2]] = s] \in Seq(Statuses)
    <3>1. phase.subtasks \in Seq(Statuses)
      BY <2>1 DEF Phase
    <3>2. CASE x[2] \in DOMAIN phase.subtasks
      BY <3>1, <3>2, ExceptSeq
    <3>3. CASE x[2] \notin DOMAIN phase.subtasks
      <4>1. phase.subtasks \in [DOMAIN phase.subtasks -> Statuses]
        BY <3>1
      <4>2. [phase.subtasks EXCEPT ![x[2]] = s] = phase.subtasks
        BY <3>3, <4>1, ExceptOutside
      <4>3. QED
        BY <3>1, <4>2
    <3>4. QED
      BY <3>2, <3>3
  <2>3. done \in Phase
    BY <2>1, <2>2 DEF Phase
  <2>4. [p EXCEPT ![x[1]] = done] \in Seq(Phase)
    BY <1>3, <2>3, PlansAreSequences, ExceptSeq
  <2>5. QED
    BY <1>1, <2>4, PlansAreSequences
<1>4. QED
  BY <1>2, <1>3

\* Rewriting the statuses of a phase gives a phase.
LEMMA MapPhaseKeepsPhases ==
  ASSUME NEW ph \in Phase, NEW f \in [Statuses -> Statuses]
  PROVE  MapPhase(ph, f) \in Phase
<1> DEFINE mapped == [k \in DOMAIN ph.subtasks |-> f[ph.subtasks[k]]]
<1>1. ph.subtasks \in Seq(Statuses)
  BY DEF Phase
<1>2. DOMAIN ph.subtasks = 1..Len(ph.subtasks) /\ Len(ph.subtasks) \in Nat
  BY <1>1
<1>3. \A k \in DOMAIN ph.subtasks : f[ph.subtasks[k]] \in Statuses
  BY <1>1
<1>4. mapped \in Seq(Statuses)
  BY <1>2, <1>3
<1>5. QED
  BY <1>4 DEF MapPhase, Phase

\* recover-subtask leaves a plan.
LEMMA RecoveredIsPlan ==
  ASSUME NEW p \in Plans
  PROVE  Recovered(p) \in Plans
<1> DEFINE f == [s \in Statuses |-> IF s \in Recoverable THEN "pending" ELSE s]
<1>1. f \in [Statuses -> Statuses]
  BY DEF Statuses
<1>2. DOMAIN p = 1..Len(p) /\ Len(p) \in Nat
  BY PlansAreSequences
<1>3. \A i \in DOMAIN p : p[i] \in Phase
  BY PlansAreSequences
<1>4. \A i \in DOMAIN p : MapPhase(p[i], f) \in Phase
  BY <1>1, <1>3, MapPhaseKeepsPhases
<1>5. Recovered(p) = [i \in 1..Len(p) |-> MapPhase(p[i], f)]
  BY <1>2 DEF Recovered
<1> HIDE DEF f
<1>6. QED
  BY <1>2, <1>4, <1>5, PlansAreSequences

\* skip-to-phase leaves a plan, whatever phase it names.
LEMMA SkippedToIsPlan ==
  ASSUME NEW p \in Plans, NEW n \in Nat
  PROVE  SkippedTo(p, n) \in Plans
<1> DEFINE f == [s \in Statuses |-> IF s = "done" THEN s ELSE "completed"]
<1>1. f \in [Statuses -> Statuses]
  BY DEF Statuses
<1>2. DOMAIN p = 1..Len(p) /\ Len(p) \in Nat
  BY PlansAreSequences
<1>3. \A i \in DOMAIN p : p[i] \in Phase
  BY PlansAreSequences
<1>4. \A i \in DOMAIN p : MapPhase(p[i], f) \in Phase
  BY <1>1, <1>3, MapPhaseKeepsPhases
<1>5. SkippedTo(p, n) =
        [i \in 1..Len(p) |-> IF i < n THEN MapPhase(p[i], f) ELSE p[i]]
  BY <1>2 DEF SkippedTo
<1> HIDE DEF f
<1>6. QED
  BY <1>2, <1>3, <1>4, <1>5, PlansAreSequences

\* The builtin planner writes a plan.
LEMMA BuiltinPlanIsPlan == BuiltinPlan \in Plans
<1>1. /\ <<"completed">> \in Seq(Statuses)
      /\ <<"pending", "pending">> \in Seq(Statuses)
      /\ <<"pending">> \in Seq(Statuses)
  BY DEF Statuses
<1>2. QED
  BY <1>1, PlansAreSequences DEF BuiltinPlan, Phase, PhaseKinds

\* A follow-up appended to a plan gives a plan.
LEMMA WithFollowUpIsPlan ==
  ASSUME NEW p \in Plans
  PROVE  WithFollowUp(p) \in Plans
<1>1. <<"pending">> \in Seq(Statuses)
  BY DEF Statuses
<1>2. [kind |-> "coding", subtasks |-> <<"pending">>, unnamed |-> {}] \in Phase
  BY <1>1 DEF Phase, PhaseKinds
<1>3. QED
  BY <1>2, PlansAreSequences, BuiltinPlanIsPlan, AppendProperties
     DEF WithFollowUp

\* Every set of naturals has a least element.
LEMMA LeastExists ==
  ASSUME NEW S, S \subseteq Nat, S # {}
  PROVE  \E i \in S : \A j \in S : i <= j
<1> DEFINE Less == {ss \in Nat \X Nat : ss[1] < ss[2]}
<1>1. OpToRel(<, Nat) = Less
  BY DEF OpToRel
<1>2. IsWellFoundedOn(Less, Nat)
  BY <1>1, NatLessThanWellFounded
<1>3. PICK i \in S : \A j \in S : ~(<<j, i>> \in Less)
  BY <1>2, WFMin
<1>4. \A a, b \in Nat : <<a, b>> \in Less <=> a < b
  OBVIOUS
<1> HIDE DEF Less
<1>5. \A j \in S : ~(j < i)
  BY <1>3, <1>4
<1>6. QED
  BY <1>5

\* Plan order has a first element in every set of positions.
LEMMA FirstExists ==
  ASSUME NEW T, T \subseteq Nat \X Nat, T # {}
  PROVE  \E x \in T : \A y \in T \ {x} : Precedes(x, y)
<1> DEFINE I == {x[1] : x \in T}
<1>1. I \subseteq Nat /\ I # {}
  OBVIOUS
<1>2. PICK i \in I : \A j \in I : i <= j
  BY <1>1, LeastExists
<1> DEFINE K == {x[2] : x \in {y \in T : y[1] = i}}
<1>4. K \subseteq Nat /\ K # {}
  OBVIOUS
<1>5. PICK k \in K : \A m \in K : k <= m
  BY <1>4, LeastExists
<1>6. PICK x \in T : x[1] = i /\ x[2] = k
  OBVIOUS
<1>7. ASSUME NEW y \in T \ {x}
      PROVE  Precedes(x, y)
  <2>1. y[1] \in I /\ y \in Nat \X Nat /\ x \in Nat \X Nat
    OBVIOUS
  <2>2. i <= y[1]
    BY <1>2, <2>1
  <2>3. CASE y[1] = i
    <3>1. y[2] \in K
      BY <2>3
    <3>2. k <= y[2]
      BY <1>5, <3>1
    <3>3. y[2] # k
      BY <1>6, <2>1, <2>3
    <3>4. QED
      BY <1>6, <2>1, <2>3, <3>2, <3>3 DEF Precedes
  <2>4. CASE y[1] # i
    BY <1>6, <2>1, <2>2, <2>4 DEF Precedes
  <2>5. QED
    BY <2>3, <2>4
<1>8. QED
  BY <1>7

\* The runner's choice: an open subtask, before every other open one, or
\* NoSubtask when none is open.
LEMMA FirstOpenIsFirst ==
  ASSUME NEW p \in Plans
  PROVE  /\ FirstOpen(p) \in Nat \X Nat
         /\ OpenSubtasks(p) # {} =>
              /\ FirstOpen(p) \in OpenSubtasks(p)
              /\ \A y \in OpenSubtasks(p) \ {FirstOpen(p)} :
                   Precedes(FirstOpen(p), y)
         /\ FirstOpen(p) = NoSubtask <=> OpenSubtasks(p) = {}
<1>1. OpenSubtasks(p) \subseteq Positions(p)
  BY DEF OpenSubtasks
<1>2. \A x \in Positions(p) : x \in Nat \X Nat /\ x # NoSubtask
  BY PositionsAreNumbers
<1>3. CASE OpenSubtasks(p) = {}
  BY <1>3 DEF FirstOpen, NoSubtask
<1>4. CASE OpenSubtasks(p) # {}
  <2>1. \E x \in OpenSubtasks(p) :
          \A y \in OpenSubtasks(p) \ {x} : Precedes(x, y)
    BY <1>1, <1>2, <1>4, FirstExists
  <2>2. /\ FirstOpen(p) \in OpenSubtasks(p)
        /\ \A y \in OpenSubtasks(p) \ {FirstOpen(p)} :
             Precedes(FirstOpen(p), y)
    BY <1>4, <2>1 DEF FirstOpen
  <2>3. QED
    BY <1>1, <1>2, <1>4, <2>2
<1>5. QED
  BY <1>3, <1>4

-----------------------------------------------------------------------------
(* What the rewrites of a plan change and what they leave.                 *)

\* The same phases with as many subtasks, and the same of them without an id.
SameShape(p, q) ==
  /\ DOMAIN q = DOMAIN p
  /\ \A i \in DOMAIN p : /\ q[i].kind = p[i].kind /\ q[i].unnamed = p[i].unnamed
                         /\ DOMAIN q[i].subtasks = DOMAIN p[i].subtasks

\* Plans of the same shape have the same subtasks, coding ones included, with the
\* same ids.
LEMMA SameShapeSamePositions ==
  ASSUME NEW p, NEW q, SameShape(p, q)
  PROVE  /\ Positions(q) = Positions(p) /\ CodingSubtasks(q) = CodingSubtasks(p)
         /\ \A x \in Positions(p) : HasId(q, x) <=> HasId(p, x)
<1>1. Positions(q) = Positions(p)
  BY DEF SameShape, Positions
<1>2. ASSUME NEW x \in Positions(p) PROVE x[1] \in DOMAIN p
  BY DEF Positions
<1>3. QED
  BY <1>1, <1>2 DEF SameShape, CodingSubtasks, HasId

\* Setting the status of a subtask changes that status and nothing else.
LEMMA SetStatusChangesOne ==
  ASSUME NEW p \in Plans, NEW x \in Positions(p), NEW s
  PROVE  /\ SameShape(p, SetStatus(p, x, s))
         /\ StatusAt(SetStatus(p, x, s), x) = s
         /\ \A y \in Positions(p) \ {x} :
              StatusAt(SetStatus(p, x, s), y) = StatusAt(p, y)
<1> DEFINE done == [p[x[1]] EXCEPT !.subtasks[x[2]] = s]
           q == SetStatus(p, x, s)
<1>0. q = [p EXCEPT ![x[1]] = done]
  BY DEF SetStatus
<1>1. /\ x[1] \in DOMAIN p /\ x[2] \in DOMAIN p[x[1]].subtasks
      /\ p \in Seq(Phase) /\ p[x[1]] \in Phase /\ x = <<x[1], x[2]>>
  BY PositionsAreNumbers, PlansAreSequences
<1>2. p[x[1]].subtasks \in Seq(Statuses)
  BY <1>1 DEF Phase
<1>3. /\ done.kind = p[x[1]].kind /\ done.unnamed = p[x[1]].unnamed
      /\ done.subtasks = [p[x[1]].subtasks EXCEPT ![x[2]] = s]
  BY <1>1 DEF Phase
<1>4. /\ DOMAIN q = DOMAIN p /\ q[x[1]] = done
      /\ \A i \in DOMAIN p \ {x[1]} : q[i] = p[i]
  BY <1>0, <1>1
<1> HIDE DEF done, q
<1>5. DOMAIN done.subtasks = DOMAIN p[x[1]].subtasks
  BY <1>3
<1>6. SameShape(p, q)
  BY <1>3, <1>4, <1>5 DEF SameShape
<1>7. StatusAt(q, x) = s
  BY <1>1, <1>2, <1>3, <1>4 DEF StatusAt
<1>8. ASSUME NEW y \in Positions(p), y # x
      PROVE  StatusAt(q, y) = StatusAt(p, y)
  <2>1. /\ y[1] \in DOMAIN p /\ y[2] \in DOMAIN p[y[1]].subtasks
        /\ y = <<y[1], y[2]>>
    BY PositionsAreNumbers
  <2>2. CASE y[1] # x[1]
    BY <1>4, <2>1, <2>2 DEF StatusAt
  <2>3. CASE y[1] = x[1]
    <3>1. y[2] # x[2]
      BY <1>1, <1>8, <2>1, <2>3
    <3>2. done.subtasks[y[2]] = p[x[1]].subtasks[y[2]]
      BY <1>3, <2>1, <2>3, <3>1
    <3>3. QED
      BY <1>4, <2>3, <3>2 DEF StatusAt
  <2>4. QED
    BY <2>2, <2>3
<1>9. QED
  BY <1>6, <1>7, <1>8 DEF q

\* Rewriting the statuses of a phase leaves its kind, their number and ids.
LEMMA MapPhaseMaps ==
  ASSUME NEW ph \in Phase, NEW f
  PROVE  /\ MapPhase(ph, f).kind = ph.kind
         /\ MapPhase(ph, f).unnamed = ph.unnamed
         /\ DOMAIN MapPhase(ph, f).subtasks = DOMAIN ph.subtasks
         /\ \A k \in DOMAIN ph.subtasks :
              /\ MapPhase(ph, f).subtasks[k] = f[ph.subtasks[k]]
              /\ ph.subtasks[k] \in Statuses
<1>1. ph.subtasks \in Seq(Statuses)
  BY DEF Phase
<1>2. QED
  BY <1>1 DEF MapPhase, Phase

\* recover-subtask makes what was given up or begun pending, and no more.
LEMMA RecoveredChanges ==
  ASSUME NEW p \in Plans
  PROVE  /\ SameShape(p, Recovered(p))
         /\ \A x \in Positions(p) :
              StatusAt(Recovered(p), x) =
                IF StatusAt(p, x) \in Recoverable THEN "pending" ELSE StatusAt(p, x)
<1> DEFINE f == [s \in Statuses |-> IF s \in Recoverable THEN "pending" ELSE s]
<1>1. DOMAIN Recovered(p) = DOMAIN p
      /\ \A i \in DOMAIN p : Recovered(p)[i] = MapPhase(p[i], f)
  BY DEF Recovered
<1>2. \A i \in DOMAIN p : p[i] \in Phase
  BY PlansAreSequences
<1>3. \A s \in Statuses : f[s] = IF s \in Recoverable THEN "pending" ELSE s
  OBVIOUS
<1> HIDE DEF f
<1>4. SameShape(p, Recovered(p))
  BY <1>1, <1>2, MapPhaseMaps DEF SameShape
<1>5. ASSUME NEW x \in Positions(p)
      PROVE  StatusAt(Recovered(p), x) = f[StatusAt(p, x)] /\ StatusAt(p, x) \in Statuses
  <2>1. x[1] \in DOMAIN p /\ x[2] \in DOMAIN p[x[1]].subtasks
    BY PositionsAreNumbers
  <2>2. QED
    BY <1>1, <1>2, <2>1, MapPhaseMaps DEF StatusAt
<1>6. QED
  BY <1>3, <1>4, <1>5

\* skip-to-phase completes what comes before the phase, and no more.
LEMMA SkippedToChanges ==
  ASSUME NEW p \in Plans, NEW n
  PROVE  /\ SameShape(p, SkippedTo(p, n))
         /\ \A x \in Positions(p) :
              StatusAt(SkippedTo(p, n), x) =
                IF x[1] < n /\ StatusAt(p, x) # "done" THEN "completed"
                ELSE StatusAt(p, x)
<1> DEFINE f == [s \in Statuses |-> IF s = "done" THEN s ELSE "completed"]
<1>1. DOMAIN SkippedTo(p, n) = DOMAIN p
      /\ \A i \in DOMAIN p :
           SkippedTo(p, n)[i] = IF i < n THEN MapPhase(p[i], f) ELSE p[i]
  BY DEF SkippedTo
<1>2. \A i \in DOMAIN p : p[i] \in Phase
  BY PlansAreSequences
<1>3. \A s \in Statuses : f[s] = IF s = "done" THEN s ELSE "completed"
  OBVIOUS
<1> HIDE DEF f
<1>4. SameShape(p, SkippedTo(p, n))
  BY <1>1, <1>2, MapPhaseMaps DEF SameShape
<1>5. ASSUME NEW x \in Positions(p)
      PROVE  StatusAt(SkippedTo(p, n), x) =
               IF x[1] < n THEN f[StatusAt(p, x)] ELSE StatusAt(p, x)
  <2>1. x[1] \in DOMAIN p /\ x[2] \in DOMAIN p[x[1]].subtasks
    BY PositionsAreNumbers
  <2>2. QED
    BY <1>1, <1>2, <2>1, MapPhaseMaps DEF StatusAt
<1>6. ASSUME NEW x \in Positions(p) PROVE StatusAt(p, x) \in Statuses
  <2>1. x[1] \in DOMAIN p /\ x[2] \in DOMAIN p[x[1]].subtasks
    BY PositionsAreNumbers
  <2>2. QED
    BY <1>2, <2>1, MapPhaseMaps DEF StatusAt
<1>7. QED
  BY <1>3, <1>4, <1>5, <1>6

=============================================================================
