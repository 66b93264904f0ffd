----------------------------- MODULE GitHubSync ----------------------------
(* Everything that keeps a project and GitHub together, on one task, one
   roadmap and one peer. *)
EXTENDS IssueSync, CardSync, RoadmapSync

\* The peer numbers from one, and nothing is published to begin with.
ASSUME GitHubAssumption ==
  /\ \A t \in Tasks : t.issue \in {None, 1} /\ t.card \in {None, 1}
  /\ \A d \in Roadmaps : DOMAIN d = DOMAIN NoRoadmap /\ d.published = {}

Init ==
  /\ task \in Tasks /\ roadmap \in Roadmaps /\ mix \in Mixes
  /\ binding \in BOOLEAN
  /\ issues = [n \in (IF task.issue = None THEN {} ELSE {task.issue}) |->
                 Issue(task.title, task.state, Number(task.milestone), None)]
  /\ cards = [c \in (IF task.card = None THEN {} ELSE {task.card}) |->
                [title |-> task.title, status |-> task.status, of |-> "task"]]
  /\ history = [disturbed |-> FALSE, left |-> {}, unrecorded |-> {}, claimed |-> {}]
  /\ pc = [r \in Requests |-> "idle"]
  /\ loc = [r \in Requests |-> Fresh]

\* A full peer stops the run, not the program.
Finished ==
  /\ \A r \in Requests : ~Busy(r)
  /\ UNCHANGED vars

Next ==
  \/ \E r \in Requests : IssueStep(r) \/ CardStep(r) \/ RoadmapStep(r)
  \/ EditOnGitHub \/ Die \/ Finished

Spec == Init /\ [][Next]_vars

=============================================================================
