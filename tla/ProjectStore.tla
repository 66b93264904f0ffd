---------------------------- MODULE ProjectStore ---------------------------
(***************************************************************************)
(* The projects registry and each project's board and tasks, as files:     *)
(* projects.json, board.json, specs/<specId>/ with its task.json.  A store *)
(* call looks its project up in one section of the lock and works in       *)
(* another (withProject); inside a section it may write several files, and *)
(* the server may die between two of them.                                 *)
(***************************************************************************)
EXTENDS Integers, FiniteSets, FiniteSetsExt

CONSTANTS
  Requests,   \* HTTP requests and job steps a run of the system may make
  Ids,        \* ids of the directory's projects
  Repos,      \* owner/repo names
  Unknown,    \* a project without a repository
  Columns,    \* of BoardColumns, those the run uses
  Titles,     \* slugs of task titles
  MaxSpec,    \* largest number a spec id may get
  Kinds       \* the requests the environment makes

ASSUME StoreAssumption ==
  /\ Unknown \notin Repos
  /\ "backlog" \in Columns
  /\ MaxSpec \in Nat \ {0}
  /\ Kinds \subseteq {"ensure", "link", "remove", "create", "move", "delete",
                      "board", "log"}

VARIABLES
  registry,   \* projects.json: the repository of each registered project
  dirs,       \* projects/<id>/ for each project that has a directory
  torn,       \* spec ids whose card a crash or a stale board may have moved
  pc, loc

vars == <<registry, dirs, torn, pc, loc>>

Specs == (1..MaxSpec) \X Titles
Boards == [Columns -> SUBSET Specs]

\* A directory: its spec directories, the task.json of those that have one
\* (the request that created it, and its status), and the board.
Layout == [specs |-> {}, tasks |-> [s \in {} |-> s], board |-> [c \in Columns |-> {}]]

Fresh == [kind |-> "none", id |-> "none", spec |-> <<0, "none">>,
          column |-> "backlog", board |-> Layout.board]

Go(r, label) == pc' = [pc EXCEPT ![r] = label]
Leave(r) == Go(r, "done") /\ loc' = [loc EXCEPT ![r] = Fresh]

Override(f, g) ==
  [x \in DOMAIN f \cup DOMAIN g |-> IF x \in DOMAIN g THEN g[x] ELSE f[x]]

Without(f, x) == [y \in DOMAIN f \ {x} |-> f[y]]

-----------------------------------------------------------------------------
(* The registry: one section of the lock per call. *)

\* ensureLayoutLocked: what exists is kept.
Ensured(id) == IF id \in DOMAIN dirs THEN dirs
               ELSE Override(dirs, [i \in {id} |-> Layout])

\* The row EnsureProject settles on: the one of that id, else one that has the
\* repository, else a new one.
RowsOf(repo) == {id \in DOMAIN registry : repo # Unknown /\ registry[id] = repo}

Rows(id, repo) ==
  CASE id \in DOMAIN registry -> {id}
    [] id \notin DOMAIN registry /\ RowsOf(repo) # {} -> RowsOf(repo)
    [] OTHER -> {id}

\* A blank repository of the row is filled in; another one is kept.
Enriched(id, repo) ==
  IF id \notin DOMAIN registry THEN Override(registry, [i \in {id} |-> repo])
  ELSE IF registry[id] = Unknown THEN [registry EXCEPT ![id] = repo]
  ELSE registry

EnsureProject(r, id, repo) ==
  /\ \E row \in Rows(id, repo) :
       /\ registry' = IF row = id THEN Enriched(id, repo) ELSE registry
       /\ dirs' = Ensured(row)
  /\ UNCHANGED torn
  /\ Leave(r)

\* POST ensure takes the repository from the directory, which may know none;
\* POST projects refuses a project without one (fillProjectSCMFromOAM).
Ensure(r) ==
  /\ pc[r] = "idle"
  /\ \E id \in Ids :
       \/ "ensure" \in Kinds /\ \E repo \in Repos \cup {Unknown} : EnsureProject(r, id, repo)
       \/ "link" \in Kinds /\ \E repo \in Repos : EnsureProject(r, id, repo)

\* DELETE project: the row, then the directory.
DeleteProject(r) ==
  /\ pc[r] = "idle" /\ "remove" \in Kinds
  /\ \E id \in DOMAIN registry :
       /\ registry' = Without(registry, id)
       /\ dirs' = Without(dirs, id)
       /\ torn' = {t \in torn : t[1] # id}
  /\ Leave(r)

-----------------------------------------------------------------------------
(* A store call on a project: the lookup, without the lock of the work. *)

Lookup(r, kind) ==
  /\ pc[r] = "idle" /\ kind \in Kinds
  /\ Go(r, "locked")
  /\ UNCHANGED <<registry, dirs, torn>>

AskCreate(r) ==
  /\ Lookup(r, "create")
  /\ \E id \in DOMAIN registry, title \in Titles :
       loc' = [loc EXCEPT ![r].kind = "create", ![r].id = id, ![r].spec = <<0, title>>]

\* A task the client, or the job that works on it, knows of.
AskTask(r) ==
  \E id \in DOMAIN registry \cap DOMAIN dirs :
  \E spec \in DOMAIN dirs[id].tasks :
    \/ /\ Lookup(r, "move")
       /\ \E column \in Columns :
            loc' = [loc EXCEPT ![r] = [Fresh EXCEPT !.kind = "move", !.id = id,
                                       !.spec = spec, !.column = column]]
    \/ \E kind \in {"delete", "log"} :
         /\ Lookup(r, kind)
         /\ loc' = [loc EXCEPT ![r].kind = kind, ![r].id = id, ![r].spec = spec]

\* GET board; the client edits what it got and puts it back.
AskBoard(r) ==
  /\ Lookup(r, "board")
  /\ \E id \in DOMAIN registry \cap DOMAIN dirs :
       \E spec \in UNION {dirs[id].board[c] : c \in Columns}, column \in Columns :
         loc' = [loc EXCEPT ![r].kind = "board", ![r].id = id,
                   ![r].board = [c \in Columns |-> (dirs[id].board[c] \ {spec})
                                   \cup (IF c = column THEN {spec} ELSE {})]]

-----------------------------------------------------------------------------
(* The work, with the lock: D is the directory, made again if it is gone.  *)

D(r) == Ensured(loc[r].id)[loc[r].id]

Put(r, dir) == dirs' = Override(dirs, [i \in {loc[r].id} |-> dir])

At(r, kind) == pc[r] = "locked" /\ loc[r].kind = kind /\ UNCHANGED registry

Mark(r, specs) == torn' = torn \cup ({loc[r].id} \X specs)
Mend(r, spec) == torn' = torn \ {<<loc[r].id, spec>>}

\* The filtered board, with the card in these columns.
Placed(board, spec, columns) ==
  [c \in Columns |-> (board[c] \ {spec}) \cup (IF c \in columns THEN {spec} ELSE {})]

\* Mutant: the next number counts the spec directories.
NextNumberMutant(dir) == Cardinality(dir.specs) + 1

\* Mutant: the next number is the largest one in use.
NextNumberOffMutant(dir) == Max({0} \cup {s[1] : s \in dir.specs})

\* nextSpecID: one more than the largest number of a spec directory.
NextNumber(dir) == Max({0} \cup {s[1] : s \in dir.specs}) + 1

NewSpec(r) == <<NextNumber(D(r)), loc[r].spec[2]>>

WithTask(dir, spec, by, status) ==
  [dir EXCEPT !.specs = @ \cup {spec},
              !.tasks = Override(@, [s \in {spec} |-> [by |-> by, status |-> status]])]

CreateTask(r) ==
  /\ At(r, "create")
  /\ NextNumber(D(r)) <= MaxSpec
  /\ LET spec == NewSpec(r)
         dir == WithTask(D(r), spec, r, "backlog")
     IN  Put(r, [dir EXCEPT !.board["backlog"] = @ \cup {spec}])
  /\ UNCHANGED torn
  /\ Leave(r)

\* MoveTask: a task that is gone is an error.
MoveTask(r) ==
  /\ At(r, "move")
  /\ LET spec == loc[r].spec  column == loc[r].column IN
     IF spec \in DOMAIN D(r).tasks
     THEN /\ Put(r, [D(r) EXCEPT !.tasks[spec].status = column,
                                 !.board = Placed(@, spec, {column})])
          /\ Mend(r, spec)
     ELSE Put(r, D(r)) /\ UNCHANGED torn
  /\ Leave(r)

\* Mutant: the card of a deleted task stays on the board.
DeleteTaskMutant(r) ==
  /\ At(r, "delete")
  /\ LET spec == loc[r].spec IN
     /\ Put(r, [D(r) EXCEPT !.specs = @ \ {spec}, !.tasks = Without(@, spec)])
     /\ Mend(r, spec)
  /\ Leave(r)

DeleteTask(r) ==
  /\ At(r, "delete")
  /\ LET spec == loc[r].spec IN
     /\ Put(r, [D(r) EXCEPT !.board = Placed(@, spec, {}),
                            !.specs = @ \ {spec}, !.tasks = Without(@, spec)])
     /\ Mend(r, spec)
  /\ Leave(r)

\* PUT board: the client's board, whatever happened since it read one.
PutBoard(r) ==
  /\ At(r, "board")
  /\ Put(r, [D(r) EXCEPT !.board = loc[r].board])
  /\ Mark(r, {s \in Specs : \E c \in Columns :
                (s \in loc[r].board[c]) # (s \in D(r).board[c])})
  /\ Leave(r)

\* AppendSpecLog and PutPlan make the spec directory again if it is gone.
WriteSpec(r) ==
  /\ At(r, "log")
  /\ Put(r, [D(r) EXCEPT !.specs = @ \cup {loc[r].spec}])
  /\ UNCHANGED torn
  /\ Leave(r)

-----------------------------------------------------------------------------
(* The server dies with some of a call's files written. *)

Die == /\ pc' = [r \in Requests |-> IF pc[r] = "locked" THEN "dead" ELSE pc[r]]
       /\ loc' = [r \in Requests |-> Fresh]

\* CreateTask: the directory, then task.json, then the board.
TornCreate(r) ==
  /\ At(r, "create")
  /\ NextNumber(D(r)) <= MaxSpec
  /\ LET spec == NewSpec(r) IN
     \/ Put(r, [D(r) EXCEPT !.specs = @ \cup {spec}]) /\ UNCHANGED torn
     \/ Put(r, WithTask(D(r), spec, r, "backlog")) /\ Mark(r, {spec})
  /\ Die

\* MoveTask: task.json, then the board.
TornMove(r) ==
  /\ At(r, "move")
  /\ LET spec == loc[r].spec IN
     /\ spec \in DOMAIN D(r).tasks
     /\ Put(r, [D(r) EXCEPT !.tasks[spec].status = loc[r].column])
     /\ Mark(r, {spec})
  /\ Die

\* DeleteTask: the board, then the directory, of which task.json may go first.
TornDelete(r) ==
  /\ At(r, "delete")
  /\ LET spec == loc[r].spec IN
     \/ /\ Put(r, [D(r) EXCEPT !.board = Placed(@, spec, {})])
        /\ Mark(r, {spec})
     \/ /\ Put(r, [D(r) EXCEPT !.board = Placed(@, spec, {}), !.tasks = Without(@, spec)])
        /\ UNCHANGED torn
  /\ Die

\* What os.RemoveAll leaves of a directory when it stops: any of its files.  A
\* board that is gone is written again, without cards, by ensureLayoutLocked.
Remains(dir) ==
  {[specs |-> specs, tasks |-> [s \in tasks |-> dir.tasks[s]], board |-> board] :
     specs \in SUBSET dir.specs, tasks \in SUBSET DOMAIN dir.tasks,
     board \in {dir.board, Layout.board}}

\* DeleteProject: the row, and some of the directory.
TornRemove(r) ==
  /\ pc[r] = "idle" /\ "remove" \in Kinds
  /\ \E id \in DOMAIN registry \cap DOMAIN dirs : \E left \in Remains(dirs[id]) :
       /\ DOMAIN left.tasks \subseteq left.specs
       /\ registry' = Without(registry, id)
       /\ dirs' = [dirs EXCEPT ![id] = left]
       /\ torn' = IF left = dirs[id] THEN torn
                  ELSE torn \cup ({id} \X DOMAIN dirs[id].tasks)
  /\ pc' = [q \in Requests |-> IF q = r \/ pc[q] = "locked" THEN "dead" ELSE pc[q]]
  /\ loc' = [q \in Requests |-> Fresh]

Crash(r) == TornCreate(r) \/ TornMove(r) \/ TornDelete(r) \/ TornRemove(r)

-----------------------------------------------------------------------------

\* NewStore: an empty registry.
Init ==
  /\ registry = [id \in {} |-> id] /\ dirs = [id \in {} |-> id] /\ torn = {}
  /\ pc = [r \in Requests |-> "idle"]
  /\ loc = [r \in Requests |-> Fresh]

Ask(r) == AskCreate(r) \/ AskTask(r) \/ AskBoard(r)
Work(r) == CreateTask(r) \/ MoveTask(r) \/ DeleteTask(r) \/ PutBoard(r) \/ WriteSpec(r)

Finished ==
  /\ \A r \in Requests : pc[r] \in {"idle", "done", "dead"}
                         \/ (loc[r].kind = "create" /\ NextNumber(D(r)) > MaxSpec)
  /\ UNCHANGED vars

Next ==
  \/ \E r \in Requests : Ensure(r) \/ DeleteProject(r) \/ Ask(r) \/ Work(r) \/ Crash(r)
  \/ Finished

Spec == Init /\ [][Next]_vars

=============================================================================
