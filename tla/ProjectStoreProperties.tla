----------------------- MODULE ProjectStoreProperties -----------------------
(* What the registry, the boards and the task files must agree on. *)
EXTENDS ProjectStore

IsBoard(b) == DOMAIN b = Columns /\ \A c \in Columns : b[c] \subseteq Specs

IsTask(t) == DOMAIN t = {"by", "status"} /\ t.by \in Requests /\ t.status \in Columns

IsDirectory(d) ==
  /\ DOMAIN d = {"specs", "tasks", "board"}
  /\ d.specs \subseteq Specs
  /\ DOMAIN d.tasks \subseteq d.specs
  /\ \A s \in DOMAIN d.tasks : IsTask(d.tasks[s])
  /\ IsBoard(d.board)

IsLocal(l) ==
  /\ DOMAIN l = {"kind", "id", "spec", "column", "board"}
  /\ l.kind \in {"none", "create", "move", "delete", "board", "log"}
  /\ l.id \in Ids \cup {"none"}
  /\ l.spec \in (0..MaxSpec) \X (Titles \cup {"none"})
  /\ l.column \in Columns
  /\ IsBoard(l.board)

\* The type invariant: rows name repositories, spec ids are numbered from one,
\* a task.json is in a spec directory.
TypeOK ==
  /\ DOMAIN registry \subseteq Ids
  /\ \A id \in DOMAIN registry : registry[id] \in Repos \cup {Unknown}
  /\ DOMAIN dirs \subseteq Ids /\ \A id \in DOMAIN dirs : IsDirectory(dirs[id])
  /\ torn \subseteq Ids \X Specs
  /\ pc \in [Requests -> {"idle", "locked", "done", "dead"}]
  /\ DOMAIN loc = Requests /\ \A r \in Requests : IsLocal(loc[r])

\* The card of a task is in the column its task.json says, and only there, and
\* a card without a task is nowhere, whichever calls interleave with the removal
\* of the project or of the task; a crash between two files or a stale board may
\* break this for the cards they touched only, until the card is next moved.
CardsAgree ==
  \A id \in DOMAIN dirs, spec \in Specs :
    LET d == dirs[id] IN
    <<id, spec>> \notin torn =>
      {c \in Columns : spec \in d.board[c]} =
        (IF spec \in DOMAIN d.tasks THEN {d.tasks[spec].status} ELSE {})

\* A new task never gets the id of one that exists, so no task.json is ever
\* replaced by another task's, whatever was deleted, half created or left behind
\* by a job (nextSpecID).
NoTaskOverwritten ==
  [][\A id \in DOMAIN dirs \cap DOMAIN dirs' :
       \A s \in DOMAIN dirs[id].tasks \cap DOMAIN dirs'[id].tasks :
         dirs'[id].tasks[s].by = dirs[id].tasks[s].by]_vars

=============================================================================
