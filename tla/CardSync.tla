------------------------------ MODULE CardSync -----------------------------
(* Tasks, roadmap features and the items of a GitHub Project's board. *)
EXTENDS PeerBoard

\* The project of the task, else the one bound to the OPM project.
HasProject == task.project \/ binding

\* The card the handler knows of: a sync without a task always asks for a new one.
Known(l) == IF l.op = "feature" THEN None ELSE l.task.card

\* PATCH task: the title before the edit is read in a call of its own.
EditTask(r) ==
  /\ Begin(r, "edit")
  /\ Keep(r, [op |-> "edit", task |-> task])
  /\ Go(r, "edit.write")
  /\ UNCHANGED task /\ TaskOnly

\* UpdateTask, applyIssuePatch: fields are taken as they come, and no issue number
\* clears the link before the rest of it is set.
Patched(t, p) ==
  With(IF "issue" \in DOMAIN p /\ p.issue = None THEN With(t, NoIssue) ELSE t, p)

\* A change of the text goes to the card, if the task then has one.
WriteTask(r) ==
  /\ At(r, "edit.write")
  /\ \E p \in Patches : task' = Patched(task, p)
  /\ IF task'.title # loc[r].task.title /\ task'.card # None /\ (task'.project \/ binding)
     THEN Go(r, "card.call") /\ Keep(r, [task |-> task'])
     ELSE Leave(r)
  /\ LetGo({task.card} \ {task'.card})
  /\ UNCHANGED mix /\ TaskOnly

\* sync-task.
SyncTask(r) ==
  /\ Begin(r, "sync") /\ HasProject
  /\ Keep(r, [op |-> "sync", task |-> task])
  /\ Go(r, "card.call")
  /\ UNCHANGED task /\ TaskOnly

\* sync-item, of a task, of a feature or of both, with a title and a column of its
\* own or the task's.
SyncItem(r) ==
  /\ Begin(r, "card") /\ HasProject
  /\ \E feature \in Features \cup {None}, title \in Titles, column \in Columns :
       LET sent == [task EXCEPT !.title = title, !.status = column] IN
       \/ Keep(r, [op |-> "card", task |-> sent, feature |-> feature])
       \/ /\ binding /\ feature # None
          /\ Keep(r, [op |-> "feature", task |-> sent, feature |-> feature])
  /\ Go(r, "card.call")
  /\ UNCHANGED task /\ TaskOnly

\* Mutant: an answer is a success, whatever it says of the title.
AfterCardMutant(l, landed) ==
  CASE l.op # "feature" -> "card.record"
    [] OTHER -> IF landed THEN "doc.read" ELSE "done"

\* Where an answer sends the handler; a title that did not land is a failure.
AfterCard(l, landed) ==
  CASE l.op = "feature" -> IF landed THEN "doc.read" ELSE "done"
    [] l.op # "feature" /\ landed -> "card.record"
    [] OTHER -> "card.partial"

\* items/upsert makes a card when the task knows none, and knows the one it names or
\* refuses; the card may keep its old title; the answer may get lost.  A title is
\* always sent, so that there is something to sync.
CallCard(r) ==
  LET l == loc[r]
      c == IF Known(l) # None THEN Known(l) ELSE Cardinality(DOMAIN cards) + 1
      old == IF c \in DOMAIN cards THEN cards[c].title ELSE Untitled
  IN
  /\ At(r, "card.call")
  /\ \/ /\ Go(r, "card.fail") /\ UNCHANGED <<cards, loc, history>>
     \/ /\ c \in DOMAIN cards \/ (Known(l) = None /\ c <= MaxCards)
        /\ \E landed \in BOOLEAN :
             /\ cards' = Extend(cards, c, [title |-> IF landed THEN l.task.title ELSE old,
                                           status |-> l.task.status,
                                           of |-> IF l.op = "feature" THEN "feature" ELSE "task"])
             /\ \/ /\ Go(r, AfterCard(l, landed))
                   /\ IF l.op = "feature" /\ ~landed
                      THEN loc' = [loc EXCEPT ![r] = Fresh] ELSE Keep(r, [card |-> c])
                   /\ UNCHANGED history
                \/ Go(r, "card.fail") /\ UNCHANGED loc /\ Disturb(TRUE)
  /\ UNCHANGED issues /\ PeerOnly

\* recordProjectSyncSuccess; sync-item goes on to the feature.  A task that could
\* not be saved does not name the card it got.
RecordCard(r) ==
  /\ At(r, "card.record")
  /\ \/ /\ task' = With(task, [project |-> TRUE, card |-> loc[r].card, cardError |-> FALSE])
        /\ IF loc[r].feature # None THEN Go(r, "doc.read") /\ UNCHANGED loc ELSE Leave(r)
        /\ UNCHANGED history
     \/ UNCHANGED task /\ LetGo({loc[r].card} \ {task.card}) /\ Leave(r)
  /\ UNCHANGED mix /\ TaskOnly

\* recordProjectSyncFailure; a sync that names no task records nothing.
RecordCardFailure(r) ==
  /\ At(r, "card.fail")
  /\ task' = IF loc[r].op = "feature" THEN task ELSE [task EXCEPT !.cardError = TRUE]
  /\ TaskOnly /\ Stored
  /\ Leave(r)

\* A card whose title did not land is an error, and is kept by a second call.
RecordPartial(r) ==
  /\ At(r, "card.partial")
  /\ task' = [task EXCEPT !.cardError = TRUE]
  /\ IF loc[r].op = "card" \/ loc[r].card # loc[r].task.card
     THEN Go(r, "card.keep") /\ UNCHANGED loc ELSE Leave(r)
  /\ TaskOnly /\ Stored

\* Mutant: the card whose rename failed is forgotten.
KeepCardMutant(r) ==
  /\ At(r, "card.keep")
  /\ UNCHANGED task /\ TaskOnly /\ Stored
  /\ Leave(r)

KeepCard(r) ==
  /\ At(r, "card.keep")
  /\ task' = With(task, [project |-> TRUE, card |-> loc[r].card])
  /\ TaskOnly /\ Stored
  /\ Leave(r)

\* A drag moves the card on the board, after the response, with what it read.
DragTask(r) ==
  /\ Begin(r, "drag")
  /\ \E column \in Columns :
       /\ task' = [task EXCEPT !.status = column]
       /\ IF HasProject /\ task.card # None
          THEN Keep(r, [op |-> "drag", task |-> task']) /\ Go(r, "status.call")
          ELSE Leave(r)
  /\ TaskOnly

CallStatus(r) ==
  LET l == loc[r] IN
  /\ At(r, "status.call")
  /\ \/ Go(r, "card.fail") /\ UNCHANGED cards
     \/ /\ l.task.card \in DOMAIN cards
        /\ cards' = [cards EXCEPT ![l.task.card].status = l.task.status]
        /\ Go(r, "status.record") \/ Go(r, "card.fail")
  /\ UNCHANGED <<issues, loc, history>> /\ PeerOnly

RecordStatus(r) ==
  /\ At(r, "status.record")
  /\ task' = [task EXCEPT !.cardError = FALSE]
  /\ TaskOnly /\ Stored
  /\ Leave(r)

\* Unbinding the task leaves its card on the board.
DetachCard(r) ==
  /\ May(r, "detach")
  /\ task.card # None \/ task.project
  /\ history' = [history EXCEPT !.disturbed = @ \/ \E q \in Requests : Busy(q),
                                !.left = @ \cup {task.card}]
  /\ task' = With(task, NoCard)
  /\ UNCHANGED mix /\ TaskOnly
  /\ Leave(r)

\* Binding and unbinding the project leave the tasks' own links alone.
BindProject(r) ==
  /\ Begin(r, "bind")
  /\ binding' \in BOOLEAN \ {binding}
  /\ UNCHANGED <<task, roadmap, issues, cards>>
  /\ Leave(r)

CardStep(r) ==
  \/ EditTask(r) \/ WriteTask(r) \/ SyncTask(r) \/ SyncItem(r) \/ CallCard(r)
  \/ RecordCard(r) \/ RecordCardFailure(r) \/ RecordPartial(r) \/ KeepCard(r)
  \/ DragTask(r) \/ CallStatus(r) \/ RecordStatus(r) \/ DetachCard(r) \/ BindProject(r)

=============================================================================
