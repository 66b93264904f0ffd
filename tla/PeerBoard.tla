----------------------------- MODULE PeerBoard -----------------------------
(***************************************************************************)
(* What the GitHub synchronisation handlers share: one task, the project's *)
(* roadmap document, and the issues and board cards the peer keeps.  Every *)
(* handler reads a copy in one store call, asks the peer without the lock, *)
(* and writes its outcome in later store calls.                            *)
(***************************************************************************)
EXTENDS Integers, FiniteSets

CONSTANTS
  Requests,   \* HTTP requests and jobs a run of the system may make
  Mixes,      \* kinds of requests made together, and the most of them made
  Titles,     \* titles of the task
  Untitled,   \* the title of a card whose title never landed
  Columns,    \* of BoardColumns, those the run uses
  Phases,     \* names of roadmap phases, as numbers: their order
  Features,   \* ids of roadmap features, as numbers
  MaxIssues, MaxCards,   \* how many issues and cards the peer may hold
  Tasks, Roadmaps,       \* the task and the roadmap a behaviour starts with
  Patches,    \* bodies of PATCH task: some fields, with their values
  ClientDocs  \* roadmaps of a client's own making

Open == "open"
Closed == "closed"
Done == "done"
Reopened == "in_progress"   \* issueReopenColumn
Milestones == 0..1          \* of an issue: 0 is no milestone
Binds == 0..2               \* of ours: none, a number, a title or url without one
Half == 2
None == 0                   \* no issue, no card, no feature, no phase

TaskKinds == {"link", "unlink", "push", "pull", "edit", "sync", "card", "drag",
              "detach", "bind", "assign", "unassign"}
RoadmapKinds == {"publish", "discovery", "features", "competitor", "client"}

ASSUME BoardAssumption ==
  /\ \A m \in Mixes : m.kinds \subseteq TaskKinds \cup RoadmapKinds /\ m.most \in Nat
  /\ {Done, Reopened} \subseteq Columns
  /\ Untitled \notin Titles
  /\ Phases \subseteq Nat \ {0} /\ Features \subseteq Nat \ {0}
  /\ MaxIssues \in Nat /\ MaxCards \in Nat

VARIABLES
  task,      \* task.json: what the synchronisation reads and writes of it
  binding,   \* whether the registry row has a GitHub Project
  roadmap,   \* roadmap.json
  issues,    \* at the peer: the repository's issues
  cards,     \* at the peer: the items of the GitHub Project
  history,   \* overlaps and losses; cards let go; issues and claims without a record
  mix,       \* the requests that may be made
  pc, loc

vars == <<task, binding, roadmap, issues, cards, history, mix, pc, loc>>

\* The number of a bind, where it has one.
Number(bind) == IF bind = Half THEN 0 ELSE bind

\* The mirror of an issue and the links of a task: clearIssueLink, clearProjectLink.
NoIssue == [issue |-> None, state |-> "", issueTitle |-> "", issueError |-> FALSE]
NoCard == [project |-> FALSE, card |-> None, cardError |-> FALSE]

With(t, fields) ==
  [f \in DOMAIN t |-> IF f \in DOMAIN fields THEN fields[f] ELSE t[f]]

IsIssue(i) ==
  /\ DOMAIN i = {"title", "state", "milestone", "of"}
  /\ i.title \in Titles \cup {Untitled} /\ i.state \in {Open, Closed}
  /\ i.milestone \in Milestones /\ i.of \in Features \cup {None}

\* What task.json and roadmap.json may hold.
IsTask(t) ==
  /\ DOMAIN t = {"title", "status", "issue", "state", "issueTitle", "issueError",
                 "project", "card", "cardError", "milestone"}
  /\ t.title \in Titles \cup {Untitled} /\ t.status \in Columns
  /\ t.issue \in 0..MaxIssues /\ t.state \in {"", Open, Closed}
  /\ t.issueTitle \in Titles \cup {Untitled, ""}
  /\ t.card \in 0..MaxCards /\ t.milestone \in Binds
  /\ {t.issueError, t.project, t.cardError} \subseteq BOOLEAN

IsFeature(f) ==
  /\ DOMAIN f = {"phase", "milestone", "card"}
  /\ f.phase \in Phases /\ f.milestone \in Binds /\ f.card \in 0..MaxCards

IsRoadmap(d) ==
  /\ DOMAIN d = {"phases", "features", "published"}
  /\ DOMAIN d.phases \subseteq Phases /\ \A p \in DOMAIN d.phases : d.phases[p] \in Binds
  /\ DOMAIN d.features \subseteq Features /\ \A f \in DOMAIN d.features : IsFeature(d.features[f])
  /\ d.published \subseteq Features

\* PATCH sets these, none of them checked.
IsPatch(p) ==
  /\ DOMAIN p \subseteq {"title", "issue", "state", "issueTitle", "project", "card", "milestone"}
  /\ IsTask(With([title |-> Untitled, status |-> Done, issue |-> None, state |-> "",
                  issueTitle |-> "", issueError |-> FALSE, project |-> FALSE, card |-> None,
                  cardError |-> FALSE, milestone |-> 0], p))

ASSUME RequestAssumption ==
  /\ \A p \in Patches : IsPatch(p)
  /\ \A d \in ClientDocs : IsRoadmap(d)

ASSUME StartAssumption ==
  /\ \A t \in Tasks : IsTask(t) /\ (t.issue # None => t.state # "")
  /\ \A d \in Roadmaps : IsRoadmap(d)

Issue(title, state, milestone, of) ==
  [title |-> title, state |-> state, milestone |-> milestone, of |-> of]

NoRoadmap == [phases |-> [p \in {} |-> p], features |-> [f \in {} |-> f], published |-> {}]

Fresh == [op |-> "none", task |-> CHOOSE t \in Tasks : TRUE,
          number |-> None, meta |-> Issue(Untitled, Open, 0, None), adopt |-> FALSE,
          column |-> Done, card |-> None, feature |-> None, phase |-> None,
          forTask |-> FALSE, doc |-> NoRoadmap, tried |-> {}]

-----------------------------------------------------------------------------

Busy(r) == pc[r] \notin {"idle", "done", "dead"}

Go(r, label) == pc' = [pc EXCEPT ![r] = label]
Leave(r) == Go(r, "done") /\ loc' = [loc EXCEPT ![r] = Fresh]
Keep(r, fields) == loc' = [loc EXCEPT ![r] = With(@, fields)]
At(r, label) == pc[r] = label

Extend(f, x, v) == [y \in DOMAIN f \cup {x} |-> IF y = x THEN v ELSE f[y]]

Disturb(when) == history' = [history EXCEPT !.disturbed = @ \/ when]

\* Cards the task no longer names, and features whose issue no record names.
LetGo(gone) == history' = [history EXCEPT !.left = @ \cup gone]
Unrecorded(features) == history' = [history EXCEPT !.unrecorded = @ \cup features]

May(r, kind) ==
  /\ At(r, "idle") /\ kind \in mix.kinds
  /\ Cardinality({q \in Requests : pc[q] # "idle"}) < mix.most

\* A request overlaps with those that are under way.
Begin(r, kind) ==
  /\ May(r, kind)
  /\ Disturb(\E q \in Requests : Busy(q))
  /\ UNCHANGED mix

TaskOnly == UNCHANGED <<binding, roadmap, issues, cards>>
RoadmapOnly == UNCHANGED <<task, binding, issues, cards>>
PeerOnly == UNCHANGED <<task, binding, roadmap, mix>>
Stored == UNCHANGED <<history, mix>>

\* The server dies: what was under way is not taken up again.
Die ==
  /\ \E r \in Requests : Busy(r)
  /\ pc' = [r \in Requests |-> IF Busy(r) THEN "dead" ELSE pc[r]]
  /\ loc' = [r \in Requests |-> Fresh]
  /\ Disturb(TRUE)
  /\ UNCHANGED <<task, binding, roadmap, issues, cards, mix>>

=============================================================================
