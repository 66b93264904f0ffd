# OPM-API in TLA+

OPM-API (`package main`, Go) keeps projects and tasks as JSON files under
`OPM_DATA_DIR`, automates each task with jobs (plan, code, park the card in
review), collects the files the jobs produce, delivers them as a pull request,
and keeps tasks and the roadmap in step with GitHub through a peer service.
This directory models these four parts, checks them with TLC and proves their
main safety properties with TLAPS.

All line numbers below are lines of files under `src/`.

## 1. Inventory

What each component keeps, does and must get right. `PROJECT.json` lists the
same components with their source files and what is left out of each.

| Component | State it keeps | Operations | What makes it hard | What makes it correct | Module |
|---|---|---|---|---|---|
| Task plan and progress artifacts (`models.go`, `task_workspace.go`, parts of `job_runner.go`) | `implementation_plan.json`: phases and subtask statuses; `progress.json`: paused, is_running, stuck subtask | pick, complete, mark stuck, recover, skip, count | three different notions of "not finished" (`job_runner.go:389`, `:1292`, `task_workspace.go:94`), and an empty id that means "nothing open" (`:408`) | finished work is not undone; the stuck mark and the plan agree | `TaskPlan`, `TaskStore` |
| Job executor (`job_runner.go`, `model_apply.go`, `impl_session.go`) | `runs/<runId>.json`; locals of the goroutine | `executeJob` and its helpers, chaining | the goroutine writes back copies of the record, plan and progress it read earlier; cancels come at any time | a job ends; a job cancelled at work stays cancelled and chains nothing; coding waits for approval | `JobExecutor` |
| Task pipeline (`job_runner.go`, `runPipeline`) | is_running, a step budget | plan, approve, implement step by step, park | deferred cleanup on every way out, pause and cancel between steps | no card spins without a pipeline; the pipeline brings the card to review | `TaskPipeline` |
| Job requests and board triggers (`handlers.go`, `board_triggers.go`, `autopilot.go`) | none | POST jobs, cancel, approve, drag | the dedupe gate is three store calls; a create is two writes and a launch | one writer per task | `TaskAutomation` |
| Project and board store, projects directory (`store.go`, `handlers.go`, `oam_projects.go`) | `projects.json`, and per project `board.json`, spec directories, `task.json`s | ensure, delete, create, move, delete a task, put a board, append to a spec | the project is looked up before the lock (`store.go:449`); a call writes several files; ids follow the largest directory | the board and the tasks agree; an id is never given to a second living task | `ProjectStore` |
| Model resolution and runner container (`job_model_config.go`, `spawn_container.go`) | the resolution in the job record | resolve, record, run | a read-merge-write of a record others write | the merge keeps the state | in `JobExecutor` |
| Runner candidates (`cmd/opm-runner/candidates.go`) | none | the walk over the model endpoints | which failure ends the walk, and what counts as an answer | a run records files only of an answer | `RunnerWalk` |
| Change sets (`delivery_changes.go`) | `changes.json` of a task | normalise, merge, apply, clear | read and write in two sections; limits and path rules apply late, for a project linked late only at the delivery | no recorded change is lost; unsafe paths never leave | `ChangeSet`, `Delivery` |
| Delivery (`delivery.go`, `delivery_git.go`, `peer_delivery.go`) | the delivery fields of the task | clone, apply, commit, push, open a pull request, record, clear | any step may fail, or take effect and lose its answer; the request names its own branch and base | the task names a pull request that holds its files, or none; nothing is committed to the default branch | `Delivery` |
| Issue sync (`github_issue_sync.go`, `github_issue_map.go`) | the issue's mirror in the task | link, unlink, push, pull | a copy is read before the remote call and merged after it; `PATCH` sets links unchecked | a push or a pull ends with column and issue in agreement; the others link verified issues only | `IssueSync` |
| Projects sync (`github_project_sync.go`, `github_pm.go`) | the task's card and its sync error | edit, sync-task, sync-item, drag, bind, unbind | a 200 may mean that the title did not land; a drag's call is detached | one card per task; a rename lands or is an error | `CardSync` |
| Milestones, roadmap, publishing (`github_milestone_sync.go`, `roadmap_publish.go`, `roadmap_competitor.go`, `model_apply.go`) | `roadmap.json`: phases, features, what is published | discovery, features, competitor stage, client edits, assign, unassign, publish | the document is read long before all of it is written back; a client may put any other; answers get lost | a feature gets one issue; published means that there is one; bound phases stay | `RoadmapSync` |
| Prompts and results, context and project index, job tokens and egress network, clients, read-only proxies, start-up | none, or working copies only | text assembly, HTTP and docker calls | - | - | not modelled, section 9 |

How they interact. A handler creates a job through the store and launches
`executeJob` in a goroutine. The goroutine talks to the handlers and to other
goroutines only through files: the job records (a cancel is a write of the
record), the plan, `progress.json` (a pause is a write of progress) and the
card's column. The store's mutex covers one section of one call, so every
read-then-write in a handler or a goroutine can be interrupted by all others.
An implementation job ends by merging the runner's files into the change set,
which a deliver request commits, ships and clears. The peer service (ORA), git
and GitHub are called outside the lock.

The hazards of the code, each at its line, are under `hazards` in
`PROJECT.json` with the properties that would catch them, or the reason why
none can be stated.

## 2. Modules

| Module | Models | State and actions |
|---|---|---|
| `TaskPlan` | the plan of a task and the runner's pure functions on it | `Recovered`, `SkippedTo`, `CompleteFirst`, `MarkFirstStuck`, `WithFollowUp`, `Pickable`, `AllDone`, `HasPendingCoding`, `AllCodingComplete` |
| `TaskStore` | what is persisted for one task, and the store calls of the automation | variables `status`, `approved`, `plan`, `prog`, `jobState`, `op`; the program counters `pc` and locals `loc` of goroutines and handlers; `ApproveForCoding` |
| `JobExecutor` | `executeJob` with its helpers and its follow-up | one action per store call, `Start` to `Complete` |
| `TaskPipeline` | `runPipeline` | `PipeBegin` to `PipeClear`, the reports and the checks |
| `TaskAutomation` | the whole: requests, goroutines, crash | `PostJob`, `Drag*`, `Approve`, `Cancel*`, `Crash`; `Init`, `Next`, `Spec`, `FairSpec` |
| `CodingSession` | the abstract promise: work is counted down, only after approval, and the card is parked only when none is left | `SessionSpec` |
| `TaskProperties`, `MCTaskAutomation` | properties, inductive invariant, refinement mapping; instances for TLC | - |
| `TaskSerial` | the automation when requests do not overlap: the hypotheses `Serial`, `ReviewEnv`, `SessionEnv` and the invariants that hold under them | - |
| `RunnerWalk` | the runner's walk over the endpoints, as operators | `Loaded`, `Runnable`, `WalkOver`, `Answered` |
| `ChangeSet` | change sets as functions from paths to changes | `FromRunner`, `Merge`, `TooMany`, `UnsafePath`, `TooHeavy`, `Applied`, `Fits`, `ApplyTo` |
| `Delivery` | implementation runs and deliver requests of one task | `setup`, `cloned`, `session`, `changes`, `delivery`, `main`, `remote`, `pulls`; `RunStart` to `MergeWrite`, `Begin` to `Clear`, `MergePull`, `Link`, `Configure`, `Crash` |
| `ChangeOutbox` | the abstract promise: recorded work waits until it is shipped | `Record`, `Ship`, `Consume` |
| `DeliveryProperties`, `MCDelivery` | properties, refinement mapping; instances | - |
| `ProjectStore` | registry, boards, spec directories and task files | `registry`, `dirs`, `torn`; `Ensure`, `DeleteProject`, a lookup (`Ask*`) and the work (`CreateTask`, `MoveTask`, `DeleteTask`, `PutBoard`, `WriteSpec`) of each call, `Torn*` for a crash inside one |
| `ProjectStoreProperties`, `MCProjectStore` | properties; instances | - |
| `PeerBoard` | what the GitHub handlers share | `task`, `binding`, `roadmap`, `issues`, `cards`, `history`; `Begin`, `Die` |
| `IssueSync`, `CardSync`, `RoadmapSync` | issues, cards, and the roadmap with its milestones and publishing | one action per store call and per call to the peer |
| `GitHubSync` | the three together, on one task, one roadmap and one peer | `Init`, `Next`, `Spec` |
| `GitHubProperties`, `MCGitHub` | properties; instances | - |
| `*_proofs` | theorems and proofs, section 6 | - |

`TaskPlan` <- `TaskStore` <- `JobExecutor` <- `TaskPipeline` <-
`TaskAutomation` <- `TaskProperties` (instantiates `CodingSession`) <- `TaskSerial`.
`ChangeSet`, `RunnerWalk` <- `Delivery` <- `DeliveryProperties` (instantiates
`ChangeOutbox`). `PeerBoard` <- `IssueSync`, `CardSync`, `RoadmapSync` <-
`GitHubSync` <- `GitHubProperties`. `ProjectStore` <- `ProjectStoreProperties`.
The MC and proof modules extend the properties.

The four groups share no action. `ProjectStore` treats all of a task's files
but its status as one directory entry; `Delivery` and `GitHubSync` each take the
fields of one task that they alone write; `TaskAutomation` takes plan, progress,
approval and column of one task. The column is written by three of them:
`GitHubSync` has its own writers of it (a drag, a pull) and none of the jobs.

### Correspondence with the code

In all four a step is one section of the store's lock, one call to git or to
the peer, together with the local computation up to the next one. `pc[p]` names
what comes next and `loc[p]` holds what the goroutine or handler remembers.

Automation.

- `executeJob` holds a copy of its record, so `UpdateJob` overwrites the
  record's state: a cancel just before one of those writes is lost, in the model
  as in the code. `CheckCancelled` and `Recheck` are its two looks at the
  record.
- Planning and implementation are written once and used both by the jobs of
  their own and by the steps of a pipeline: `Running(p)` is the action that
  runs, `AfterStep(p)` where it returns.
- `Repair*` stands for `recover-subtask`, `mark-stuck`, `skip-to-phase` and for
  the stuck mark a cancel leaves, which all read the plan, rewrite it, rewrite
  progress and (a cancel excepted) move the card.
- `Crash` ends every goroutine and handler and keeps the files. Start-up
  (`main.go`) repairs nothing, so there is no recovery action.

Store.

- A call on a project is `Lookup`, in which the registry must know the project,
  then its work on `D(r)`, the directory, which `ensureLayoutLocked` makes again
  if the project was deleted in between.
- A crash inside a call is an action of its own per number of files written
  (`TornCreate`, `TornMove`, `TornDelete`, `TornRemove`); a removal of the project
  that stops leaves any of the directory's files (`Remains`). `torn` records the cards
  that a crash, or a client's stale board (`PutBoard`), may have left in another
  column than `task.json` says, until the card is next moved. It is a history
  variable: no guard reads it.

Delivery.

- A run walks the endpoints, normalises what it got, applies it to the session
  workspace and merges it in two steps (`MergeRead`, `MergeWrite`), as
  `PutChangeSetMerged` does. No answer, or one that is no JSON object, is
  `RunnerFallback`, which records nothing.
- While the project has no repository the session workspace is no clone
  (`~cloned`): the change set is recorded without being applied, so without a
  check of its paths. `Link` and `Configure` are what lets a later delivery have it;
  `RunStart` clones as soon as there is something to clone.
- The limits and the paths are checked in the code's order (`ApplyFault`). A diff
  may change another file than the path it is filed under, which `git add` then
  does not find or commits unchanged (`GitRefuses`, `CommitOf`).
- `Fail` is every early return of `handleTaskDeliver` that records a failure;
  `RecordFailure` keeps the branch and the files of the last delivery. Each call
  may fail, and a push or a pull request may take effect and lose its answer.
- `MergePull` is a reviewer; the paths of the pull request must be as they were
  when it was made.

GitHub.

- `Begin` starts a request and notes whether it overlaps with another.
  `history.disturbed` becomes true with an overlap, a lost answer or a crash; the
  properties that the code keeps only for requests that follow each other say
  `~history.disturbed`. `history.left` holds the cards the task was unbound from,
  those a `PATCH` replaced and those it could not be saved with;
  `history.unrecorded` the features whose issue is on no record;
  `history.claimed` those a client's document claims to be published. No guard
  reads `history`.
- `CallIssue`, `CallCard`, `CallStatus`, `CallMilestone`, `PublishNext` are calls
  to the peer, with success, refusal and, where the call changes something, an
  answer that gets lost. `CallCard` may land the card and not its title.
- `WriteTask` is `PATCH`, which sets title, links and milestone as they come
  (`Patched`); `Edited` is `PUT` of the roadmap, which stores what the client got,
  with a feature less, or any of `ClientDocs`.
- A call that saves may fail where something at the peer then lacks its record:
  `RecordCard`, `MoveByIssue`, `RecordPublished` and `WriteRoadmap`.
- `EditOnGitHub` is somebody at GitHub.

### Abstractions

- A subtask is its position `<<phase, index>>`, a phase number is its position;
  texts, acceptance notes and percentages are left out. Of the ids only their
  absence is kept (`unnamed`): the runner takes the empty id for "nothing open".
  The status `""`, which the runner treats like `pending`, is `pending`.
- `status.json`, notes and logs are left out: nothing of the automation reads
  them.
- `ImplementGate` and `PipeApprove` read the task and the approval in one step.
  The code reads them in two, but an approval is never taken back, and it is
  written after the card has left `human_review`; the outcomes are the same.
- `DragCreate` may find no run id left (`Jobs` is a bound of the instance); the
  code would create the job. The same holds for `Chain`. Which free id
  `NextJob` picks is irrelevant.
- `BudgetSlack`, `BudgetMin` and `BudgetMax` are 8, 16 and 500 in the code; the
  instances use 1, 2 and 6 so that the budget is a number the plans reach.
- Whether a container returns a usable result is free; the plan it returns is
  any of `ModelPlans`.
- The contents of a file are the set of runs whose work is in it, or `Gone`. A
  body counts two bytes and a diff one, so that both limits are reached. Of the
  entries that meet in one file, writes come first and deletions last; the code
  goes by the paths' order. A diff fits if the file it names is there as it was
  when the diff was made, and may fail to match all the same.
- `push_failed` stands for a push refused for its permission or credentials too.
  `setup` only grows: nothing unlinks a project. Pull requests into another base
  than the default one are opened and never merged here.
- A spec id is its number and its slug. The job that `POST tasks` enqueues is
  `TaskAutomation`'s and is left out of `ProjectStore`.
- In the GitHub modules a phase and its id are one; the peer is configured;
  labels, assignees and the echo of a milestone by sync-task are left out. A
  feature's issue is known by the feature it is `of`; two features of one id are
  one, as publishing skips the second. A bind is a number, or a title or url
  without one (`Half`).
- Saves that fail elsewhere are left out: the code ignores the error of those that
  record an error, and the others answer it before anything was done at the peer.
- `CallCard` always lands the column, and has a title to sync: OPM sends one with
  every call, so `nothing_to_sync` is no answer of it. `PATCH` of the description
  alone also syncs the card; it is not a step of its own.
- A features job with a vision and no phases goes through `Bootstrap` once in the
  code; in the model it may do so again.

## 3. Runs

| Run | Instance | Shows |
|---|---|---|
| `automation` | 2 job ids, 2 requests of any kind (post of every action, drag, cancel, approve, crash) that overlap freely, faults | `TypeOK`; `RunningHasPipeline`: is_running is set only while a pipeline is inside `runPipeline` (or was when the server died); `FinishedJobIsTerminal`: a goroutine that returns leaves a terminal record; `CancelledWorkIsFinal`: a job cancelled while its helper works (the containers of a pipeline's steps included) stays cancelled, does not complete and chains nothing, unless a model resolution overlaps the cancel |
| `session` | 5 job ids, 3 requests one after the other, review required, `FairSpec` | `ImplementsSession`: the automation implements `CodingSession`; `PipelineParks`: a pipeline brings the card to review unless someone approves at the same time; `EveryJobEnds` |
| `serial` | 4 job ids, 3 requests one after the other, jobs posted only to a quiet task, containers, faults and four plans of a model, one with a subtask that has no id and one with a subtask already done | `OneWriter`: the drag's gate starts no second writer; `StuckMarkAgrees`; `ReviewHasNoCodingToPick`: in review no coding is open that a job would still pick; `NoLostWork` |
| `store` | 5 requests on two projects and two repositories, 2 spec numbers, 2 titles, 2 columns, crashes, removals that stop midway | `TypeOK`; `CardsAgree`: a card is in the column its `task.json` says, and nowhere else; `NoTaskOverwritten`: a new task never takes the id of a living one |
| `delivery` | 2 runs, 2 deliveries, 4 paths of which 2 are unsafe, 3 branches, 2 bases, a project linked and a peer configured at any time, faults, crashes | `TypeOK`; `TaskPointsAtItsPull`: a task names a branch only with a pull request that holds its files; `UnsafeNeverShipped`; `BaseIsNeverPushed`: no commit on the default branch, whatever base is named; `ImplementsOutbox`: the change set implements `ChangeOutbox` |
| `github` | up to 3 requests of seven mixes of kinds, 2 titles, 2 features, 2 phases, 3 issues, 3 cards, 7 patches, 2 roadmaps of a client's own | `TypeOK`; `LinksAreVerified`: only `PATCH` links what the peer does not have; `PushAndPullAgree`: column and issue state agree; `RenameLandsOrFails`; `OneCard`; `PublishedHasAnIssue`; `RetryDoesNotDuplicate`: one issue per feature; `BoundPhasesKept` |
| `double_drag` | 2 drags that overlap | `OneWriter` is violated |
| `pause_lost` | an implementation and a pause | `PauseSticks` is violated |
| `cancel_clobbered` | a pipeline in containers and a cancel | `ResolutionKeepsState` is violated |
| `open_in_review` | a plan whose second coding subtask has no id | `ReviewHasNoOpenCoding` is violated |
| `patch_over_write` | 2 runs on one path, no faults | `ReplayMatchesSession` is violated |
| `lost_error` | an edit and a drag | `RenameNeverLooksLikeSuccess` is violated |

Why the bounds are enough.

- Automation. The automation of two tasks shares no file, so one task is
  modelled. The races of this code are between two parties, one that read and one
  that writes in between: two requests, each with a job of its own (or one that
  launches a job and one that cancels it) reach every pair of store calls.
  Chaining is a job after a job, and three to five ids let a plan of two coding
  subtasks be planned and coded to its end. The plans have one or two coding
  subtasks (first, last, the only one, the first done or the second without an
  id), the builtin plan adds a planning and a review phase, and a follow-up appends
  to it. A third request after two others is enough for pause, work, resume and for mark, recover, work. The runs with
  `SerialRequests` and `QuietPosts` say in their configuration what they assume:
  a request begins only when the previous one has answered (its job runs on), and
  a posted job finds the task quiet, because `POST jobs` has no dedupe gate
  (`handlers.go:585`).
- Store. Five requests allow ensure, create, delete or remove, and create or
  ensure again under a call that has looked its project up. Two projects and two
  repositories reach each way `EnsureProject` settles on a row: its own id, the
  row that has the repository, a new one, a blank repository filled in and another
  one kept; and a call on one project while the other is removed. Two spec
  numbers let a number be given, freed and given again, under the same title or
  another one. `NextNumber` beyond `MaxSpec` stops the instance (`Finished`),
  not the program.
- Delivery. Two runs and two deliveries reach a merge of two change sets, a
  delivery after a delivery that failed at every step, and two deliveries at
  once. The four paths are one to create, one that exists, one refused by everyone
  and one that the runner drops but the server must refuse too. The four
  endpoints are one of no kind, one without a credential, one known, and one
  known by its provider. A project may begin without a repository or peer and get
  them between a run and a delivery. `Quiet` says that a run starts only when nothing else of
  the task is at work and a delivery only when no run is; deliveries still
  overlap. Without it the outbox fails twice: two merges lose one
  (`delivery_changes.go:169`), and a clear drops work recorded during the push
  (`delivery.go:292`). Both are hazards in `PROJECT.json`.
- GitHub. A mix says which kinds of requests are made together, and how many.
  Each mix has operations that read or write one document or link, so that they
  overlap on it; three requests let a publication fail, be repeated, and meet an
  edit. Two features give publishing an order and a partial failure; two phases a
  bound and an unbound one. The patches set each kind of link to nothing and to
  something the peer may not have; the client's roadmaps drop phases, binds and
  records, and claim a feature and a bind that are not.

`session` offers no drags and no repairs. The gate of an implementation
(`job_runner.go:384`) blocks only while the card is in `human_review`, so a
person who drags the card on, or whose recover, mark-stuck or skip-to-phase moves
it, also lets coding start without an approval on record. The documents do not
say whether this is meant; the hazard's note says so.

In all passing runs deadlock is checked: the system stops only when every
process has returned (`Finished`).

### Disagreements with the documents

1. `double_drag`. `board_triggers.go:103-105` and `docs/api.md:316-318` say that
   a double drag does not fan out two jobs on one task. The gate lists the jobs
   and creates the new one in two sections of the lock (`board_triggers.go:112`):
   two drags that overlap both pass it.
2. `pause_lost`. `docs/api.md:263` says automation stops until resume. An
   implementation reads progress at `job_runner.go:418` and writes it back at
   `:443`; a pause in between disappears.
3. `cancel_clobbered`. `job_model_config.go:95-96` says the resolution is merged
   without clobbering the state. A cancel between its read and its write is
   undone.
4. `open_in_review`. `docs/configuration.md:17` says the card is parked in
   `review` when coding is complete. An implementation tells by an empty id that
   there was nothing to complete (`job_runner.go:408`), and nothing gives an id to
   a subtask whose plan, a model's, leaves it out: the card goes to review with
   that subtask open. `ReviewHasNoCodingToPick` is what does hold.
5. `patch_over_write`. `docs/changelog.md:15` says the change set merges
   incrementally. `MergeChangeSet` (`delivery_changes.go:142`) keeps one change
   per path, so a patch made on an earlier subtask's file replaces that file's
   change, and a fresh clone has nothing to patch.
6. `lost_error`. `github_project_sync.go:17-18` says a rename that did not reach
   the board never looks like success. A later drag's success clears the error
   (`github_pm.go:424`) and the card keeps the old title. `docs/api.md:91` does say
   that a success clears the error; the success of a column move says nothing of
   the title, which is what the comment is about. There are other ways to
   a card that differs without an error, which the run does not take: a pull that
   adopts the issue's title changes the task without syncing the card, and
   `syncTaskProjectItem` does not look at `status_synced`.

The models have these too, without a run of their own:

- `impl_session.go:7-8` chains the next coding subtask.
  `hasPendingCodingSubtasks` (`task_workspace.go:94`) counts `done` and `failed`
  as pending, the picker does not: each job chains another that has nothing to do
  (`CodedNext`).
- `docs/api.md:72` says of a missing feature or phase "Nothing is written". An
  unassignment that also names a task has cleared the task by then
  (`github_milestone_sync.go:125`; `SetTaskMilestone`, `NewDocs`).
- `docs/api.md:120` says the bind of a feature or phase is cleared only by
  `milestones/unassign`. An assignment without number, title and
  `createIfMissing` writes an empty bind (`github_pm.go:125`, `:135`;
  `CallMilestone`). `BoundPhasesKept` excepts the phase an assignment names.
- `github_issue_sync.go:22-24` says every failure is persisted on the task. A pull
  whose column move fails writes a log line and answers ok (`:518`;
  `MoveByIssue`). `PushAndPullAgree` excepts it.

Noted while reading:

- `docs/api.md:142`, `handlers.go:282-283` and `job_runner.go:467-469` say a
  pipeline delivers and ends in `done`; the code parks the card in `review`
  (`job_runner.go:608-613`).
- `builtinRoadmapPublish` reads the issue's number at the top of the answer; the
  peer of the tests nests it under `issue` (`github_issue_sync_test.go:349`), so
  the number recorded would be 0. The model records that an issue was published,
  not its number.
- A sync-item that names a feature and no task asks for a new card every time.
- Deleting a task never releases its session workspace: `releaseTaskWorkspace`
  has no caller. `CreateProject`, `runDeliveryFromWorkspace` and
  `peerMergePullRequest` have none either.
- `docs/changelog.md:11` says the coding subtasks of a task keep one model; a
  pipeline step clears the resolution of its copy (`job_runner.go:622`).
- The steps of a pipeline run their containers under one run id, so in one output
  directory (`spawn_container.go:95-98`) that nothing empties: a later step whose
  container exits without a `result.json` reads the one of the step before
  (`spawn_container.go:191`). The model lets a container return any result, a
  stale one too.

## 4. Fairness

`FairSpec` assumes weak fairness of each job's and each request's steps after
its arrival: the Go scheduler runs every goroutine, the mutex is handed on and
calls return. A container run ends because it has a timeout. Arrivals (`Request`)
are not fair: a request may never come. The refinements are safety properties
and need none of it; neither do the other three groups, whose properties are
about what a step or a state may be.

## 5. Abstract specifications

`CodingSession` knows how many coding subtasks are not completed, whether coding
has been approved, whether the card is parked and whether a planning job is
writing. It allows a subtask to be completed only after the approval and while
the card is not parked, the amount of work to change otherwise only by planning,
and the card to be parked only when no coding is left. `TaskProperties` maps the
plan, the approval, the column and the planning job's write to it. The approval
counts from the moment the card has left `human_review`: between the move and
the mark (`ApproveMove`, `ApproveMark`) a job may already pass the gate, which
asks for the column too.

`ChangeOutbox` knows which work, a run and a path, is waiting and which is
shipped. Work leaves only all at once and only when all of it is shipped, or
replaced by later work on its path; nothing is shipped that was not waiting at
that moment. `DeliveryProperties` maps the change set to `waiting` and the
commits of branches with a pull request to `shipped`. The refinement is checked
by the `delivery` run and proved for every instance in which `Quiet` holds.

## 6. Proofs

Every theorem holds for all values of the constants that satisfy the named
assumptions of the modules; none of them bounds the number of requests, jobs,
runs, paths, features or issues. Where the code promises something only for
requests that follow each other, the theorem has the restriction as a hypothesis
on the constants (`Quiet`, `Serial`, `ReviewEnv`, `SessionEnv`), which a run
satisfies, or the property says `~history.disturbed`.

| Module | Theorem | Says |
|---|---|---|
| `TaskAutomation_proofs` | `TypeCorrect` | `Spec => []TypeOK` |
| `TaskInvariant_proofs` | `InductiveInvariant` | `Spec => []Inductive` |
| | `RunningMarkHasPipeline` | `Spec => []RunningHasPipeline` |
| | `FinishedJobsAreTerminal` | `Spec => []FinishedJobIsTerminal` |
| | `CancelledIsFinal` | `Spec => CancelledWorkIsFinal` |
| `TaskSerial_proofs` | `OneWriterAtATime` | if `Serial`, `Spec => []OneWriter` |
| | `SerialInvariant` | if `Serial`, `Spec => []SerialInv` |
| | `FinishedWorkIsKept` | if `Serial`, `Spec => NoLostWork` |
| | `StuckMarkIsTrue` | if `Serial` without crashes, `Spec => []StuckMarkAgrees` |
| | `ReviewIsCoded` | if `ReviewEnv`, `Spec => []ReviewHasNoCodingToPick` |
| | `AutomationIsASession` | if `SessionEnv`, `Spec => ImplementsSession` |
| `TaskPlan_proofs` | `FirstOpenIsFirst` | the subtask the runner picks is open and precedes every other open one |
| `ProjectStore_proofs` | `StoreTypes` | `Spec => []TypeOK` |
| | `BoardMatchesTasks` | `Spec => []CardsAgree` |
| | `TasksKeepTheirOwner` | `Spec => NoTaskOverwritten` |
| `Delivery_proofs` | `DeliveryTypes` | `Spec => []TypeOK` |
| | `DeliveredIsThere` | `Spec => []TaskPointsAtItsPull` |
| | `ShippedIsSafe` | `Spec => []UnsafeNeverShipped` |
| | `BaseIsLeftAlone` | `Spec => []BaseIsNeverPushed` |
| `DeliveryOutbox_proofs` | `DeliveryIsAnOutbox` | if `Quiet`, `Spec => ImplementsOutbox` |
| `GitHub_proofs` | `PublishedIsThere` | `Spec => []PublishedHasAnIssue` |
| | `PublishedOnce` | `Spec => []RetryDoesNotDuplicate` |
| | `SyncTypes` | `Spec => []TypeOK` |
| | `LinksVerified` | `Spec => LinksAreVerified` |
| | `TheCardIsOne` | `Spec => []OneCard` |
| | `PushAndPullEndTogether` | `Spec => PushAndPullAgree` |
| | `RenameIsSeen` | `Spec => RenameLandsOrFails` |
| | `BoundPhasesStay` | `Spec => BoundPhasesKept` |

Automation. `TaskPlan_proofs` shows that every function on plans returns a plan
and that the first open subtask exists, by the well-ordering of its phase and
then of its index. `TypeOK` and the two invariants are not inductive: a job that
is at a step of the pipeline must be a pipeline; a helper called by a pipeline
must return into it and not into a planning job's chain; a resolution must not
write "no record" over the record; the job a request is about to launch or
cancel must have a record, no goroutine, and no second launcher; and a repair
must not carry is_running = TRUE from its read to its write. `Inductive` adds
exactly these: `JobRecorded`, `JobPlace`, `PipelineReturns`, `PlanningReturns`
(together `JobInv`) of each job, `RequestInv` and `LaunchesOnce` of requests, and
`RepairStops` of every process. Most steps change one process and leave the
actions and the other records alone: `KeptIsEnough` proves once what such a step
has to keep, and the lemmas per group of actions show it. Creating a job,
launching it, cancelling and crashing touch two processes or all, and have
lemmas of their own. `CancelledIsFinal` needs no more than `Inductive`: a job at
work is stepped by itself or by a cancel or a crash, the helpers of a cancelled
job come to `recheck` and no further, and no other process writes its record.

Automation, one request after the other. `Serial` is what the run `serial` says
in its configuration: requests do not overlap, a posted job finds the task quiet,
nobody cancels. The invariants build on each other.

- `Alone`: one request is under way and one job is live, and a request about to
  create a job sees only terminal ones. The gate of a drag and the order in which
  `Complete` writes its record and chains make this inductive; crashes and faults
  do not break it.
- `Current`: what the live job has read is still what the files say, label by
  label up to the write it is made for (`RepairsCurrent` for repairs). It is what
  fails when two parties overlap, and what `OneWriter` is for. With `Alone` and
  `Inductive` it is `SerialInv`; `FinishedWorkIsKept` follows from it and the
  lemmas of `TaskPlan_proofs` on what recover, skip, complete and follow-up leave
  alone.
- `MarkInv`: the stuck mark is the plan's, except between the two writes that
  change both. A crash there would leave it so (the hazard's note says it), hence
  no crashes.
- `NamedInv`, `ReviewInv`: a job does what it was created for, and a card in
  review has no coding subtask to pick but between the plan's write and the
  card's: none is open, or the first open subtask has no id and stops the runner.
  `ReviewEnv` excludes a person who drags the card to review, a crash between the
  two writes, and a skip over a coding phase behind a review phase.
- `WorksInv`, `SessionInv`: for the refinement. Until the approval a planned task
  waits in `human_review` and no job has passed the gate (`Waiting`); no job is
  about to complete a subtask while the card is in review. `SessionEnv` excludes
  what section 3 says of `session`: repairs, drags past the approval, given-up
  subtasks in the plans; and subtasks without an id, which let the card be parked
  with work left (`open_in_review`). A step then maps to a completion, a planning, an
  approval, a parking or a stutter (`ApprovalSimulates`, `PlanningSimulates`,
  `JobSimulates`).

`serial` satisfies `ReviewEnv`, and `session` satisfies `SessionEnv`.

Store. `CardsAgree` needs that a request that moves, deletes or logs holds a spec
id, and one that creates a known slug; `Asked` says so. The heart of
`TasksKeepTheirOwner` is `NextIsLarger`: the number `nextSpecID` returns is larger
than that of every spec directory, which rests on the maximum of a set of numbers
with a bound (`MaxIsThere`); `TypeOK` supplies that the directories of the task
files are among them. `Parts` splits the invariant into what is about the
registry, the directories and the requests, so that each action's lemma is about
the part it changes. `RemainsSound` says that what a stopped removal leaves is
sound again, with the cards of all its tasks marked.

Delivery. `HoldsOK` says what a process holds at its label: the commit has no
unsafe file and is for another branch than the default one, because the delivery
itself checked and git itself refused, whatever was recorded and whatever base was
named; and from its push on a delivery finds its own commit on its branch. With what the
task says (`RecordOK`) and what the remote has (`RemoteOK`) it is inductive: a
branch that holds a commit keeps it, and pull requests stay (`Advanced`).

Outbox. The step simulation needs three more facts: `Alone`, that under `Quiet` a
run that is at work is alone; `RunKnows`, that a run between its read and its
write of the change set has read what is there; and `DeliveryKnows`, that a
delivery's change set is the recorded one, or another delivery has shipped it all
and cleared it. Each step of a run or a delivery then maps to `Record`, `Ship`,
`Consume` or a stutter.

GitHub. `Shape` says what documents, issues and locals look like and what a
request holds at its label. Seen from the roadmap, every step of a request is one
of three (`Step`): it leaves alone what is published and whose the issues are
(`Aside`), it puts back a document it took (`Writes`), or it is the next feature's
turn (`Publishes`). `StepShape`, `StepPublished` and `StepSingle` prove the
invariants from these three; the lemmas per group of actions only place each
action in one of them. `SingleInv` says that, undisturbed, one request is under
way and every issue of a feature is known to the roadmap or to its publisher, or
is on no record (`history.unrecorded`); what is published has an issue or was
claimed by a client (`Grounded`).
`GitHubAssumption` (numbers begin at one, nothing is published to begin with)
and `StartAssumption` (the task and the roadmap a behaviour starts with are well
typed, a linked task knows its issue's state) are evaluated by the runs.

Types. `TypeInv` adds to `TypeOK` what requests hold: an answer names an issue or
a card the peer has, what is written back is a roadmap. The peer forgets nothing
(`TypedStep`), so what the others hold stays good. The task itself may name
anything, as `PATCH` does not ask; `LinksVerified` says that no other handler adds
to that.

Knowledge. The four other properties speak of requests that nothing else met.
`KnownInv` says what such a request may rely on (`Fits`): the copy of the task it
took before the call has the task's card, title or column; the card it is about
to record has the title it sent, or the task has an error; the document it took
has the roadmap's phases; and every card of the task on the board is the one the
task names, one in `history.left`, or the one about to be recorded. By
`SingleInv` the others are at rest (`OthersRest`), so one lemma per group of
actions (`IssueFits`, `CardFits`, `RoadmapFits`) shows that the step keeps it.
The action properties then look at the last step of a request (`EndsItself`,
`AtItsLabel`).

Every safety property that a passing run checks is proved. Only model-checked
are the liveness properties `PipelineParks` and `EveryJobEnds`: liveness under
fairness is outside the prover's reach. The restrictions above are part of what
is proved; the runs of section 3 that expect a violation show what happens
without them.

## 7. Mutants

Each property of a passing run has a changed definition that a plausible bug
would give (`*Mutant`, next to the definition it changes), under which the run
finds the property violated.

- Automation: the pipeline clears is_running only on success, a cancelled record
  is not looked at a second time, a failed helper returns without a record, the
  approval gate is dropped, the budget takes the wrong limit, a chained job is not
  launched, the drag's gate overlooks running jobs, a recover keeps the stuck
  mark, one finished subtask counts as all, recover resets finished subtasks, and
  a recovered subtask gets an unknown status.
- Store: the next id is the largest in use, or counts the directories; a deleted
  task's card stays.
- Delivery: the first entry of a path counts though it carries no change, a branch
  the clone has is reset, a failure records how far it got, the session's check of
  the paths is taken for enough, a run's change set replaces the recorded one.
- GitHub: a link is recorded although the issue was not found, a feature's phase
  is not looked up, an open issue says nothing about a finished task, a 200 counts
  as a rename, the card of a failed rename is forgotten, a refused feature is
  recorded, a partial failure records nothing, a discovery always replaces the
  phases.

## 8. Plan

Done: the automation of a task with its abstract session; the registry and the
board; change sets, the runner's walk and delivery with their outbox; the
synchronisation of issues, cards, milestones and roadmap; every safety property
and both refinements by proof.

Left, most important first:

1. The life of a job's token and proxy around one run (`job_tokens_client.go`,
   `job_proxy.go`): revoked and removed on every way out.
2. How a model is chosen and kept over chained jobs.
3. The ideation and changelog documents.

## 9. Not modelled

- Prompts, result decoding, runner context, project index: functions on text and
  working copies without state of their own.
- Directories of workspaces and docker: a job or a delivery sees success or
  failure (`Prepare`, `RunContainer`, `Clone`).
- Job tokens, egress network, clients of other services, discovery and GitHub
  routes: HTTP calls whose outcome is a free choice where a modelled component
  uses it. The SCM event endpoint acknowledges and stores nothing.
- The changelog and ideation actions of the executor and the handlers' writes of
  these documents: whole documents read and put back, like the roadmap's, on
  which no other state depends.
- `CreateProject`, `runDeliveryFromWorkspace`, `peerMergePullRequest` and
  `releaseTaskWorkspace`: no caller.
- The scoping of reads by organisation: it filters answers and changes nothing.
- Start-up: wiring. That it recovers no job is what `Crash` relies on.
