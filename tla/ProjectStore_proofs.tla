------------------------ MODULE ProjectStore_proofs ------------------------
(***************************************************************************)
(* For every set of requests, ids and titles, and every bound on spec ids: *)
(* the store keeps its types, the cards agree with the tasks, and no task  *)
(* is written over another.  Every step of the store leaves the registry's *)
(* directories alone or puts one directory that is well formed and agrees, *)
(* so most of the proof is about one directory.                            *)
(***************************************************************************)
EXTENDS ProjectStoreProperties, WellFoundedInduction, TLAPS

\* A request that waits for the lock names a project, and a title or a spec.
Asked(r) ==
  pc[r] = "locked" =>
    /\ loc[r].id \in Ids
    /\ loc[r].kind = "create" => loc[r].spec[2] \in Titles
    /\ loc[r].kind \in {"move", "delete", "log"} => loc[r].spec \in Specs

\* The inductive invariant.
IInv == TypeOK /\ CardsAgree /\ \A r \in Requests : Asked(r)

-----------------------------------------------------------------------------
(* The next number. *)

\* A set of naturals with a bound has a largest member.
LEMMA MaxIsThere ==
  ASSUME NEW N \in Nat, NEW S \in SUBSET (0..N), S # {}
  PROVE  Max(S) \in S /\ \A y \in S : Max(S) >= y
<1> DEFINE Bounds == {b \in Nat : \A y \in S : b >= y}
<1>1. Bounds \subseteq Nat /\ Bounds # {}
  <2>1. N \in Bounds
    OBVIOUS
  <2> QED BY <2>1
<1>2. PICK b \in Bounds : \A c \in Bounds : ~ (<<c, b>> \in OpToRel(<, Nat))
  <2> HIDE DEF Bounds
  <2> QED BY <1>1, NatLessThanWellFounded, WFMin
<1>3. \A c \in Bounds : c >= b
  <2> SUFFICES ASSUME NEW c \in Bounds, c < b PROVE FALSE
    OBVIOUS
  <2>1. <<c, b>> \in OpToRel(<, Nat)
    BY DEF OpToRel
  <2> QED BY <2>1, <1>2
<1>4. b \in S
  <2> SUFFICES ASSUME b \notin S PROVE FALSE
    OBVIOUS
  <2>1. PICK y \in S : TRUE
    OBVIOUS
  <2>2. b # 0
    BY <2>1
  <2>3. b - 1 \in Nat /\ \A z \in S : b - 1 >= z
    BY <2>2
  <2>4. b - 1 \in Bounds
    BY <2>3
  <2> QED BY <2>4, <1>3
<1>5. \E x \in S : \A y \in S : x >= y
  BY <1>4
<1> QED BY <1>5 DEF Max

\* A new spec id is numbered above all the spec directories.
LEMMA NextIsLarger ==
  ASSUME NEW dir, dir.specs \subseteq Specs
  PROVE  /\ NextNumber(dir) \in Nat \ {0}
         /\ \A s \in dir.specs : s[1] < NextNumber(dir)
<1> DEFINE Numbers == {0} \cup {s[1] : s \in dir.specs}
<1>1. Numbers \in SUBSET (0..MaxSpec) /\ Numbers # {}
  BY StoreAssumption DEF Specs
<1>2. Max(Numbers) \in Numbers /\ \A y \in Numbers : Max(Numbers) >= y
  <2> HIDE DEF Numbers
  <2> QED BY <1>1, MaxIsThere, StoreAssumption
<1>3. Max(Numbers) \in Nat
  BY <1>1, <1>2
<1>4. NextNumber(dir) = Max(Numbers) + 1
  BY DEF NextNumber
<1>5. \A s \in dir.specs : s[1] \in Numbers /\ s[1] \in Nat
  BY DEF Specs
<1> HIDE DEF Numbers
<1> QED BY <1>2, <1>3, <1>4, <1>5

-----------------------------------------------------------------------------
(* One directory. *)

\* The card of spec in a directory agrees with its task, unless it is torn.
Agrees(d, spec) ==
  {c \in Columns : spec \in d.board[c]} =
    (IF spec \in DOMAIN d.tasks THEN {d.tasks[spec].status} ELSE {})

Sound(d, id, t) ==
  IsDirectory(d) /\ \A spec \in Specs : <<id, spec>> \notin t => Agrees(d, spec)

\* No task of d is another request's in e.
KeepsOwners(d, e) ==
  \A s \in DOMAIN d.tasks \cap DOMAIN e.tasks : e.tasks[s].by = d.tasks[s].by

LEMMA LayoutSound ==
  ASSUME NEW id, NEW t
  PROVE  Sound(Layout, id, t)
BY DEF Sound, Layout, IsDirectory, IsBoard, Agrees

LEMMA DirectoriesSound ==
  ASSUME TypeOK, CardsAgree, NEW id \in DOMAIN dirs
  PROVE  Sound(dirs[id], id, torn)
BY DEF TypeOK, CardsAgree, Sound, Agrees

\* The directory a request works on is as sound as the others.
LEMMA WorkSound ==
  ASSUME IInv, NEW r \in Requests, pc[r] = "locked"
  PROVE  /\ loc[r].id \in Ids
         /\ Sound(D(r), loc[r].id, torn)
<1>1. loc[r].id \in Ids
  BY DEF IInv, Asked
<1>2. CASE loc[r].id \in DOMAIN dirs
  BY <1>1, <1>2, DirectoriesSound DEF D, Ensured, IInv
<1>3. CASE loc[r].id \notin DOMAIN dirs
  <2>1. D(r) = Layout
    BY <1>3 DEF D, Ensured, Override
  <2> QED BY <1>1, <2>1, LayoutSound
<1> QED BY <1>2, <1>3

LEMMA CreateSound ==
  ASSUME NEW r \in Requests, NEW id, NEW t, NEW d, NEW title \in Titles,
         Sound(d, id, t), NextNumber(d) <= MaxSpec
  PROVE  LET spec == <<NextNumber(d), title>>
             e == WithTask(d, spec, r, "backlog")
         IN  /\ spec \in Specs
             /\ Sound([d EXCEPT !.specs = @ \cup {spec}], id, t)
             /\ Sound([e EXCEPT !.board["backlog"] = @ \cup {spec}], id, t)
             /\ Sound(e, id, t \cup {<<id, spec>>})
             /\ KeepsOwners(d, e)
<1> DEFINE spec == <<NextNumber(d), title>>
           e == WithTask(d, spec, r, "backlog")
           f == [e EXCEPT !.board["backlog"] = @ \cup {spec}]
           g == [d EXCEPT !.specs = @ \cup {spec}]
<1>1. IsDirectory(d)
  BY DEF Sound
<1>2. spec \in Specs /\ spec \notin d.specs
  BY <1>1, NextIsLarger, StoreAssumption DEF IsDirectory, Specs
<1>3. spec \notin DOMAIN d.tasks
  BY <1>1, <1>2 DEF IsDirectory
<1>4. "backlog" \in Columns
  BY StoreAssumption
<1> HIDE DEF spec
<1>5. /\ DOMAIN e = {"specs", "tasks", "board"}
      /\ e.specs = d.specs \cup {spec} /\ e.board = d.board
      /\ e.tasks = Override(d.tasks, [s \in {spec} |-> [by |-> r, status |-> "backlog"]])
  BY <1>1 DEF WithTask, IsDirectory
<1> HIDE DEF e
<1>6. /\ DOMAIN e.tasks = DOMAIN d.tasks \cup {spec}
      /\ e.tasks[spec] = [by |-> r, status |-> "backlog"]
      /\ \A s \in DOMAIN d.tasks : e.tasks[s] = d.tasks[s]
  BY <1>3, <1>5 DEF Override
<1>7. \A s \in DOMAIN e.tasks : IsTask(e.tasks[s])
  BY <1>1, <1>4, <1>6 DEF IsDirectory, IsTask
<1>8. IsDirectory(e)
  BY <1>1, <1>2, <1>5, <1>6, <1>7 DEF IsDirectory
<1>9. /\ DOMAIN f = {"specs", "tasks", "board"}
      /\ f.specs = e.specs /\ f.tasks = e.tasks
      /\ f.board = [d.board EXCEPT !["backlog"] = @ \cup {spec}]
  BY <1>5
<1> HIDE DEF f
<1>10. IsBoard(f.board)
  BY <1>1, <1>2, <1>4, <1>9 DEF IsDirectory, IsBoard
<1>11. IsDirectory(f)
  BY <1>8, <1>9, <1>10 DEF IsDirectory
<1>12. Sound(g, id, t)
  BY <1>1, <1>2 DEF Sound, IsDirectory, Agrees
<1>13. ASSUME NEW s \in Specs, <<id, s>> \notin t
       PROVE  Agrees(f, s)
  <2>1. Agrees(d, s)
    BY <1>13 DEF Sound
  <2>2. DOMAIN d.board = Columns
    BY <1>1 DEF IsDirectory, IsBoard
  <2>3. CASE s = spec
    <3>1. {c \in Columns : s \in d.board[c]} = {}
      BY <2>1, <2>3, <1>3 DEF Agrees
    <3>2. \A c \in Columns : s \in f.board[c] <=> c = "backlog"
      BY <3>1, <2>2, <2>3, <1>9, <1>4
    <3>3. {c \in Columns : s \in f.board[c]} = {"backlog"}
      BY <3>2, <1>4
    <3> QED BY <3>3, <2>3, <1>6, <1>9 DEF Agrees
  <2>4. CASE s # spec
    <3>1. \A c \in Columns : s \in f.board[c] <=> s \in d.board[c]
      BY <2>2, <2>4, <1>9
    <3>2. {c \in Columns : s \in f.board[c]} = {c \in Columns : s \in d.board[c]}
      BY <3>1
    <3> QED BY <3>2, <2>1, <2>4, <1>6, <1>9 DEF Agrees
  <2> QED BY <2>3, <2>4
<1>14. Sound(f, id, t)
  BY <1>11, <1>13 DEF Sound
<1>15. Sound(e, id, t \cup {<<id, spec>>})
  <2> SUFFICES ASSUME NEW s \in Specs, <<id, s>> \notin t, s # spec
               PROVE  Agrees(e, s)
    BY <1>8 DEF Sound
  <2> QED BY <1>5, <1>6 DEF Sound, Agrees
<1>16. KeepsOwners(d, e)
  BY <1>3, <1>6 DEF KeepsOwners
<1> QED BY <1>2, <1>12, <1>14, <1>15, <1>16 DEF spec, e, f, g

\* What Placed leaves in the columns.
LEMMA PlacedCards ==
  ASSUME NEW board, IsBoard(board), NEW spec \in Specs, NEW columns
  PROVE  /\ IsBoard(Placed(board, spec, columns))
         /\ \A c \in Columns : spec \in Placed(board, spec, columns)[c] <=> c \in columns
         /\ \A c \in Columns, s \in Specs :
              s # spec => (s \in Placed(board, spec, columns)[c] <=> s \in board[c])
BY DEF Placed, IsBoard

LEMMA MoveSound ==
  ASSUME NEW id, NEW t, NEW d, Sound(d, id, t), NEW spec \in DOMAIN d.tasks,
         NEW column \in Columns
  PROVE  LET e == [d EXCEPT !.tasks[spec].status = column]
             f == [d EXCEPT !.tasks[spec].status = column,
                            !.board = Placed(@, spec, {column})]
         IN  /\ spec \in Specs
             /\ Sound(e, id, t \cup {<<id, spec>>}) /\ KeepsOwners(d, e)
             /\ Sound(f, id, t \ {<<id, spec>>}) /\ KeepsOwners(d, f)
<1> DEFINE e == [d EXCEPT !.tasks[spec].status = column]
           f == [d EXCEPT !.tasks[spec].status = column,
                          !.board = Placed(@, spec, {column})]
           tasks == [d.tasks EXCEPT ![spec].status = column]
<1>1. IsDirectory(d) /\ spec \in Specs
  BY DEF Sound, IsDirectory
<1>2. /\ DOMAIN e = {"specs", "tasks", "board"}
      /\ e.specs = d.specs /\ e.board = d.board /\ e.tasks = tasks
  BY <1>1 DEF IsDirectory
<1>3. /\ DOMAIN f = {"specs", "tasks", "board"}
      /\ f.specs = d.specs /\ f.board = Placed(d.board, spec, {column})
      /\ f.tasks = tasks
  BY <1>1 DEF IsDirectory
<1> HIDE DEF e, f
<1>4. /\ DOMAIN tasks = DOMAIN d.tasks
      /\ \A s \in DOMAIN d.tasks : IsTask(tasks[s]) /\ tasks[s].by = d.tasks[s].by
      /\ \A s \in DOMAIN d.tasks : s # spec => tasks[s] = d.tasks[s]
      /\ tasks[spec].status = column
  BY <1>1 DEF IsDirectory, IsTask
<1> HIDE DEF tasks
<1>5. IsDirectory(e) /\ KeepsOwners(d, e)
  BY <1>1, <1>2, <1>4 DEF IsDirectory, KeepsOwners
<1>6. IsDirectory(f) /\ KeepsOwners(d, f)
  BY <1>1, <1>3, <1>4, PlacedCards DEF IsDirectory, KeepsOwners
<1>7. ASSUME NEW s \in Specs, <<id, s>> \notin t, s # spec
      PROVE  Agrees(e, s) /\ Agrees(f, s)
  <2>1. Agrees(d, s)
    BY <1>7 DEF Sound
  <2>2. \A c \in Columns : s \in f.board[c] <=> s \in d.board[c]
    BY <1>1, <1>3, <1>7, PlacedCards DEF IsDirectory
  <2>3. {c \in Columns : s \in f.board[c]} = {c \in Columns : s \in d.board[c]}
    BY <2>2
  <2> QED BY <2>1, <2>3, <1>2, <1>3, <1>4, <1>7 DEF Agrees
<1>8. Agrees(f, spec)
  <2>1. \A c \in Columns : spec \in f.board[c] <=> c = column
    BY <1>1, <1>3, PlacedCards DEF IsDirectory
  <2>2. {c \in Columns : spec \in f.board[c]} = {column}
    BY <2>1
  <2> QED BY <2>2, <1>3, <1>4 DEF Agrees
<1>9. Sound(e, id, t \cup {<<id, spec>>})
  BY <1>5, <1>7 DEF Sound
<1>10. Sound(f, id, t \ {<<id, spec>>})
  BY <1>6, <1>7, <1>8 DEF Sound
<1> QED BY <1>1, <1>5, <1>6, <1>9, <1>10 DEF e, f

LEMMA DeleteSound ==
  ASSUME NEW id, NEW t, NEW d, Sound(d, id, t), NEW spec \in Specs
  PROVE  LET e == [d EXCEPT !.board = Placed(@, spec, {})]
             f == [d EXCEPT !.board = Placed(@, spec, {}),
                            !.specs = @ \ {spec}, !.tasks = Without(@, spec)]
             g == [d EXCEPT !.board = Placed(@, spec, {}), !.tasks = Without(@, spec)]
         IN  /\ Sound(e, id, t \cup {<<id, spec>>}) /\ KeepsOwners(d, e)
             /\ Sound(f, id, t \ {<<id, spec>>}) /\ KeepsOwners(d, f)
             /\ Sound(g, id, t) /\ KeepsOwners(d, g)
<1> DEFINE e == [d EXCEPT !.board = Placed(@, spec, {})]
           f == [d EXCEPT !.board = Placed(@, spec, {}),
                          !.specs = @ \ {spec}, !.tasks = Without(@, spec)]
           g == [d EXCEPT !.board = Placed(@, spec, {}), !.tasks = Without(@, spec)]
           board == Placed(d.board, spec, {})
<1>1. IsDirectory(d)
  BY DEF Sound
<1>2. /\ DOMAIN e = {"specs", "tasks", "board"}
      /\ e.specs = d.specs /\ e.board = board /\ e.tasks = d.tasks
  BY <1>1 DEF IsDirectory
<1>3. /\ DOMAIN f = {"specs", "tasks", "board"}
      /\ f.specs = d.specs \ {spec} /\ f.board = board
      /\ f.tasks = Without(d.tasks, spec)
      /\ DOMAIN g = {"specs", "tasks", "board"}
      /\ g.specs = d.specs /\ g.board = board /\ g.tasks = Without(d.tasks, spec)
  BY <1>1 DEF IsDirectory
<1>4. /\ IsBoard(board)
      /\ \A c \in Columns : spec \notin board[c]
      /\ \A c \in Columns, s \in Specs : s # spec => (s \in board[c] <=> s \in d.board[c])
  BY <1>1, PlacedCards DEF IsDirectory
<1> HIDE DEF e, f, g, board
<1>5. /\ DOMAIN f.tasks = DOMAIN d.tasks \ {spec}
      /\ \A s \in DOMAIN f.tasks : f.tasks[s] = d.tasks[s]
  BY <1>3 DEF Without
<1>6. IsDirectory(e) /\ KeepsOwners(d, e)
  BY <1>1, <1>2, <1>4 DEF IsDirectory, KeepsOwners
<1>7. IsDirectory(f) /\ KeepsOwners(d, f) /\ IsDirectory(g) /\ KeepsOwners(d, g)
  BY <1>1, <1>3, <1>4, <1>5 DEF IsDirectory, KeepsOwners
<1>8. ASSUME NEW s \in Specs, <<id, s>> \notin t, s # spec
      PROVE  Agrees(e, s) /\ Agrees(f, s) /\ Agrees(g, s)
  <2>1. Agrees(d, s)
    BY <1>8 DEF Sound
  <2>2. {c \in Columns : s \in board[c]} = {c \in Columns : s \in d.board[c]}
    BY <1>4, <1>8
  <2> QED BY <2>1, <2>2, <1>2, <1>3, <1>5, <1>8 DEF Agrees
<1>9. Agrees(f, spec) /\ Agrees(g, spec)
  <2>1. {c \in Columns : spec \in f.board[c]} = {}
    BY <1>3, <1>4
  <2> QED BY <2>1, <1>3, <1>5 DEF Agrees
<1>10. Sound(e, id, t \cup {<<id, spec>>})
  BY <1>6, <1>8 DEF Sound
<1>11. Sound(f, id, t \ {<<id, spec>>}) /\ Sound(g, id, t)
  BY <1>7, <1>8, <1>9 DEF Sound
<1> QED BY <1>6, <1>7, <1>10, <1>11 DEF e, f, g

\* What a removal that stops midway leaves is sound, but for the cards of the
\* tasks there were.
LEMMA RemainsSound ==
  ASSUME NEW id, NEW t, NEW d, Sound(d, id, t), NEW left \in Remains(d),
         DOMAIN left.tasks \subseteq left.specs
  PROVE  /\ Sound(left, id, IF left = d THEN t ELSE t \cup ({id} \X DOMAIN d.tasks))
         /\ KeepsOwners(d, left)
<1>1. PICK specs \in SUBSET d.specs, tasks \in SUBSET DOMAIN d.tasks,
           board \in {d.board, Layout.board} :
        left = [specs |-> specs, tasks |-> [s \in tasks |-> d.tasks[s]], board |-> board]
  BY DEF Remains
<1>2. /\ DOMAIN left = {"specs", "tasks", "board"}
      /\ left.specs = specs /\ left.board = board
      /\ DOMAIN left.tasks = tasks /\ \A s \in tasks : left.tasks[s] = d.tasks[s]
  BY <1>1
<1>3. IsDirectory(d) /\ IsBoard(Layout.board)
  BY DEF Sound, Layout, IsBoard
<1>4. IsDirectory(left) /\ KeepsOwners(d, left)
  BY <1>2, <1>3 DEF IsDirectory, KeepsOwners
<1>5. ASSUME NEW s \in Specs, <<id, s>> \notin t, s \notin DOMAIN d.tasks
      PROVE  Agrees(left, s)
  <2>1. {c \in Columns : s \in d.board[c]} = {}
    BY <1>5 DEF Sound, Agrees
  <2>2. \A c \in Columns : s \notin board[c]
    BY <2>1 DEF Layout
  <2> QED BY <1>2, <1>5, <2>2 DEF Agrees
<1> QED BY <1>4, <1>5 DEF Sound

-----------------------------------------------------------------------------
(* One step. *)

OwnersKept ==
  \A id \in DOMAIN dirs \cap DOMAIN dirs' :
    KeepsOwners(dirs[id], dirs'[id])

\* What the steps with the lock do to the directories: one is put, sound, with
\* the owners of its tasks, and only its own cards are torn or mended.
GoodPut(r) ==
  /\ \E dir : /\ Put(r, dir)
              /\ Sound(dir, loc[r].id, torn')
              /\ KeepsOwners(D(r), dir)
  /\ torn' \subseteq Ids \X Specs
  /\ \A id \in Ids \ {loc[r].id}, s \in Specs : <<id, s>> \in torn => <<id, s>> \in torn'

Registry ==
  DOMAIN registry \subseteq Ids /\ \A id \in DOMAIN registry : registry[id] \in Repos \cup {Unknown}

Directories ==
  /\ DOMAIN dirs \subseteq Ids
  /\ \A id \in DOMAIN dirs : Sound(dirs[id], id, torn)
  /\ torn \subseteq Ids \X Specs

Locals ==
  /\ pc \in [Requests -> {"idle", "locked", "done", "dead"}]
  /\ DOMAIN loc = Requests /\ \A r \in Requests : IsLocal(loc[r])
  /\ \A r \in Requests : Asked(r)

\* The invariant, by what its parts are about.
LEMMA Parts == IInv <=> Registry /\ Directories /\ Locals
<1>1. ASSUME IInv PROVE Registry /\ Directories /\ Locals
  BY <1>1, DirectoriesSound DEF IInv, TypeOK, Registry, Directories, Locals
<1>2. ASSUME Registry, Directories, Locals PROVE IInv
  <2>1. TypeOK
    BY <1>2 DEF TypeOK, Registry, Directories, Locals, Sound
  <2>2. CardsAgree
    BY <1>2 DEF CardsAgree, Directories, Sound, Agrees
  <2> QED BY <1>2, <2>1, <2>2 DEF IInv, Locals
<1> QED BY <1>1, <1>2

LEMMA PutKeeps ==
  ASSUME IInv, NEW r \in Requests, pc[r] = "locked", GoodPut(r)
  PROVE  Directories' /\ OwnersKept
<1> DEFINE id == loc[r].id
<1>1. PICK dir : Put(r, dir) /\ Sound(dir, id, torn') /\ KeepsOwners(D(r), dir)
  BY DEF GoodPut
<1>2. id \in Ids /\ Directories
  BY WorkSound, Parts
<1>3. /\ DOMAIN dirs' = DOMAIN dirs \cup {id}
      /\ dirs'[id] = dir
      /\ \A i \in DOMAIN dirs \ {id} : dirs'[i] = dirs[i]
  BY <1>1 DEF Put, Override
<1> HIDE DEF id
<1>4. ASSUME NEW i \in DOMAIN dirs \ {id} PROVE Sound(dirs[i], i, torn')
  BY <1>2 DEF GoodPut, Directories, Sound, id
<1>5. Directories'
  BY <1>1, <1>2, <1>3, <1>4 DEF Directories, GoodPut, Sound, IsDirectory, IsBoard, IsTask,
        Agrees
<1>6. id \in DOMAIN dirs => D(r) = dirs[id]
  BY DEF D, Ensured, id
<1>7. OwnersKept
  BY <1>1, <1>3, <1>6 DEF OwnersKept, KeepsOwners
<1> QED BY <1>5, <1>7

LEMMA LeaveKeeps ==
  ASSUME Locals, NEW r \in Requests, Leave(r)
  PROVE  Locals'
<1>1. IsLocal(Fresh)
  BY StoreAssumption DEF IsLocal, Fresh, Layout, IsBoard
<1>2. /\ pc' \in [Requests -> {"idle", "locked", "done", "dead"}] /\ pc'[r] = "done"
      /\ DOMAIN loc' = Requests /\ loc'[r] = Fresh
      /\ \A q \in Requests \ {r} : pc'[q] = pc[q] /\ loc'[q] = loc[q]
  BY DEF Leave, Go, Locals
<1>3. \A q \in Requests : Asked(q)'
  BY <1>2 DEF Locals, Asked
<1>4. \A q \in Requests : IsLocal(loc'[q])
  BY <1>1, <1>2 DEF Locals
<1> QED BY <1>2, <1>3, <1>4 DEF Locals, IsLocal, IsBoard

LEMMA DieKeeps ==
  ASSUME Locals, pc' \in [Requests -> {"idle", "done", "dead"}],
         loc' = [r \in Requests |-> Fresh]
  PROVE  Locals'
<1>1. IsLocal(Fresh)
  BY StoreAssumption DEF IsLocal, Fresh, Layout, IsBoard
<1> QED BY <1>1 DEF Locals, Asked, IsLocal, IsBoard

LEMMA DieLeaves ==
  ASSUME Locals, Die PROVE Locals'
<1>1. pc' \in [Requests -> {"idle", "done", "dead"}]
  BY DEF Locals, Die
<1> QED BY <1>1, DieKeeps DEF Die

\* A directory with no file changed, or with no directory, is as sound as before.
LEMMA KeepsItself ==
  ASSUME NEW d PROVE KeepsOwners(d, d)
BY DEF KeepsOwners

LEMMA CreateGood ==
  ASSUME IInv, NEW r \in Requests, CreateTask(r) \/ TornCreate(r)
  PROVE  GoodPut(r)
<1> DEFINE d == D(r)
           id == loc[r].id
           spec == NewSpec(r)
           e == WithTask(d, spec, r, "backlog")
           f == [e EXCEPT !.board["backlog"] = @ \cup {spec}]
           g == [d EXCEPT !.specs = @ \cup {spec}]
<1>1. At(r, "create") /\ NextNumber(d) <= MaxSpec
  BY DEF CreateTask, TornCreate
<1>2. pc[r] = "locked" /\ loc[r].spec[2] \in Titles
  BY <1>1 DEF IInv, Asked, At
<1>3. id \in Ids /\ Sound(d, id, torn) /\ torn \subseteq Ids \X Specs
  BY <1>2, WorkSound DEF IInv, TypeOK
<1>4. /\ spec \in Specs
      /\ Sound(g, id, torn)
      /\ Sound(f, id, torn)
      /\ Sound(e, id, torn \cup {<<id, spec>>})
      /\ KeepsOwners(d, e)
  <2> HIDE DEF d, id
  <2> QED BY <1>1, <1>2, <1>3, CreateSound DEF NewSpec, d
<1>5. KeepsOwners(d, f) /\ KeepsOwners(d, g)
  <2>1. DOMAIN e = {"specs", "tasks", "board"} /\ DOMAIN d = {"specs", "tasks", "board"}
    BY <1>3, <1>4 DEF Sound, IsDirectory
  <2> HIDE DEF d, e
  <2>2. f.tasks = e.tasks /\ g.tasks = d.tasks
    BY <2>1
  <2> QED BY <2>2, <1>4 DEF KeepsOwners
<1>6. \/ Put(r, f) /\ torn' = torn
      \/ Put(r, g) /\ torn' = torn
      \/ Put(r, e) /\ torn' = torn \cup {<<id, spec>>}
  BY DEF CreateTask, TornCreate, Mark
<1> HIDE DEF d, id, spec, e, f, g
<1> QED BY <1>3, <1>4, <1>5, <1>6 DEF GoodPut, d, id

LEMMA MoveGood ==
  ASSUME IInv, NEW r \in Requests, MoveTask(r) \/ TornMove(r)
  PROVE  GoodPut(r)
<1> DEFINE d == D(r)
           id == loc[r].id
           spec == loc[r].spec
           e == [d EXCEPT !.tasks[spec].status = loc[r].column]
           f == [d EXCEPT !.tasks[spec].status = loc[r].column,
                          !.board = Placed(@, spec, {loc[r].column})]
<1>1. pc[r] = "locked" /\ loc[r].column \in Columns
  BY DEF MoveTask, TornMove, At, IInv, TypeOK, IsLocal
<1>2. id \in Ids /\ Sound(d, id, torn) /\ torn \subseteq Ids \X Specs
  BY <1>1, WorkSound DEF IInv, TypeOK
<1>3. CASE spec \in DOMAIN d.tasks
  <2>1. /\ spec \in Specs
        /\ Sound(e, id, torn \cup {<<id, spec>>}) /\ KeepsOwners(d, e)
        /\ Sound(f, id, torn \ {<<id, spec>>}) /\ KeepsOwners(d, f)
    <3> HIDE DEF d, id, spec
    <3> QED BY <1>1, <1>2, <1>3, MoveSound
  <2>2. \/ Put(r, f) /\ torn' = torn \ {<<id, spec>>}
        \/ Put(r, e) /\ torn' = torn \cup {<<id, spec>>}
    BY <1>3 DEF MoveTask, TornMove, Mark, Mend
  <2> HIDE DEF d, id, spec, e, f
  <2>3. \E dir : Put(r, dir) /\ Sound(dir, id, torn') /\ KeepsOwners(d, dir)
    BY <2>1, <2>2
  <2>4. torn' \subseteq Ids \X Specs
    BY <1>2, <2>1, <2>2
  <2>5. \A i \in Ids \ {id}, s \in Specs : <<i, s>> \in torn => <<i, s>> \in torn'
    BY <2>2
  <2> QED BY <2>3, <2>4, <2>5 DEF GoodPut, d, id
<1>4. CASE spec \notin DOMAIN d.tasks
  <2>1. Put(r, d) /\ torn' = torn
    BY <1>4 DEF MoveTask, TornMove
  <2> HIDE DEF d, id
  <2> QED BY <1>2, <2>1, KeepsItself DEF GoodPut, d, id
<1> QED BY <1>3, <1>4

LEMMA DeleteGood ==
  ASSUME IInv, NEW r \in Requests, DeleteTask(r) \/ TornDelete(r)
  PROVE  GoodPut(r)
<1> DEFINE d == D(r)
           id == loc[r].id
           spec == loc[r].spec
           e == [d EXCEPT !.board = Placed(@, spec, {})]
           f == [d EXCEPT !.board = Placed(@, spec, {}),
                          !.specs = @ \ {spec}, !.tasks = Without(@, spec)]
           g == [d EXCEPT !.board = Placed(@, spec, {}), !.tasks = Without(@, spec)]
<1>1. pc[r] = "locked" /\ spec \in Specs
  BY DEF DeleteTask, TornDelete, At, IInv, Asked
<1>2. id \in Ids /\ Sound(d, id, torn) /\ torn \subseteq Ids \X Specs
  BY <1>1, WorkSound DEF IInv, TypeOK
<1>3. /\ Sound(e, id, torn \cup {<<id, spec>>}) /\ KeepsOwners(d, e)
      /\ Sound(f, id, torn \ {<<id, spec>>}) /\ KeepsOwners(d, f)
      /\ Sound(g, id, torn) /\ KeepsOwners(d, g)
  <2> HIDE DEF d, id, spec
  <2> QED BY <1>1, <1>2, DeleteSound
<1>4. \/ Put(r, f) /\ torn' = torn \ {<<id, spec>>}
      \/ Put(r, e) /\ torn' = torn \cup {<<id, spec>>}
      \/ Put(r, g) /\ torn' = torn
  BY DEF DeleteTask, TornDelete, Mark, Mend
<1> HIDE DEF d, id, spec, e, f, g
<1>5. \E dir : Put(r, dir) /\ Sound(dir, id, torn') /\ KeepsOwners(d, dir)
  BY <1>3, <1>4
<1>6. torn' \subseteq Ids \X Specs
  BY <1>1, <1>2, <1>4
<1>7. \A i \in Ids \ {id}, s \in Specs : <<i, s>> \in torn => <<i, s>> \in torn'
  BY <1>4
<1> QED BY <1>5, <1>6, <1>7 DEF GoodPut, d, id

LEMMA BoardGood ==
  ASSUME IInv, NEW r \in Requests, PutBoard(r)
  PROVE  GoodPut(r)
<1> DEFINE d == D(r)
           id == loc[r].id
           e == [d EXCEPT !.board = loc[r].board]
           moved == {s \in Specs : \E c \in Columns : (s \in loc[r].board[c]) # (s \in d.board[c])}
<1>1. pc[r] = "locked" /\ IsBoard(loc[r].board)
  BY DEF PutBoard, At, IInv, TypeOK, IsLocal
<1>2. id \in Ids /\ Sound(d, id, torn) /\ torn \subseteq Ids \X Specs
  BY <1>1, WorkSound DEF IInv, TypeOK
<1>3. Put(r, e) /\ torn' = torn \cup ({id} \X moved)
  BY DEF PutBoard, Mark
<1> HIDE DEF d
<1>4. /\ DOMAIN e = {"specs", "tasks", "board"}
      /\ e.specs = d.specs /\ e.tasks = d.tasks /\ e.board = loc[r].board
  BY <1>2 DEF Sound, IsDirectory
<1> HIDE DEF e, id
<1>5. IsDirectory(e)
  BY <1>1, <1>2, <1>4 DEF Sound, IsDirectory
<1>6. ASSUME NEW s \in Specs, <<id, s>> \notin torn'
      PROVE  Agrees(e, s)
  <2>1. Agrees(d, s)
    BY <1>2, <1>3, <1>6 DEF Sound
  <2>2. s \notin moved
    BY <1>3, <1>6
  <2>3. \A c \in Columns : s \in e.board[c] <=> s \in d.board[c]
    BY <2>2, <1>4
  <2>4. {c \in Columns : s \in e.board[c]} = {c \in Columns : s \in d.board[c]}
    BY <2>3
  <2> QED BY <2>1, <2>4, <1>4 DEF Agrees
<1>7. Sound(e, id, torn') /\ KeepsOwners(d, e)
  BY <1>4, <1>5, <1>6 DEF Sound, KeepsOwners
<1>8. moved \subseteq Specs
  OBVIOUS
<1> HIDE DEF moved
<1> QED BY <1>2, <1>3, <1>7, <1>8 DEF GoodPut, d, id

LEMMA WriteGood ==
  ASSUME IInv, NEW r \in Requests, WriteSpec(r)
  PROVE  GoodPut(r)
<1> DEFINE d == D(r)
           id == loc[r].id
           e == [d EXCEPT !.specs = @ \cup {loc[r].spec}]
<1>1. pc[r] = "locked" /\ loc[r].spec \in Specs
  BY DEF WriteSpec, At, IInv, Asked
<1>2. id \in Ids /\ Sound(d, id, torn) /\ torn \subseteq Ids \X Specs
  BY <1>1, WorkSound DEF IInv, TypeOK
<1>3. Put(r, e) /\ torn' = torn
  BY DEF WriteSpec
<1> HIDE DEF d
<1>4. /\ DOMAIN e = {"specs", "tasks", "board"}
      /\ e.specs = d.specs \cup {loc[r].spec} /\ e.tasks = d.tasks /\ e.board = d.board
  BY <1>2 DEF Sound, IsDirectory
<1> HIDE DEF e, id
<1>5. Sound(e, id, torn) /\ KeepsOwners(d, e)
  BY <1>1, <1>2, <1>4 DEF Sound, IsDirectory, Agrees, KeepsOwners
<1> QED BY <1>2, <1>3, <1>5 DEF GoodPut, d, id

-----------------------------------------------------------------------------
(* The steps of a request. *)

\* What makes a directory keeps those there are.
LEMMA EnsureKeeps ==
  ASSUME IInv, NEW id \in Ids, dirs' = Ensured(id), torn' = torn
  PROVE  Directories' /\ OwnersKept
<1>1. Directories
  BY Parts
<1>2. /\ DOMAIN dirs' = DOMAIN dirs \cup {id}
      /\ \A i \in DOMAIN dirs : dirs'[i] = dirs[i]
      /\ id \notin DOMAIN dirs => dirs'[id] = Layout
  BY DEF Ensured, Override
<1>3. \A i \in DOMAIN dirs' : Sound(dirs'[i], i, torn)
  BY <1>1, <1>2, LayoutSound DEF Directories
<1>4. Directories'
  BY <1>1, <1>2, <1>3 DEF Directories, Sound, IsDirectory, IsBoard, IsTask, Agrees
<1>5. OwnersKept
  BY <1>2, KeepsItself DEF OwnersKept
<1> QED BY <1>4, <1>5

LEMMA EnsureStep ==
  ASSUME IInv, NEW r \in Requests, Ensure(r)
  PROVE  IInv' /\ OwnersKept
<1>1. PICK id \in Ids, repo \in Repos \cup {Unknown} : EnsureProject(r, id, repo)
  BY DEF Ensure
<1>2. Registry /\ Locals
  BY Parts
<1>3. PICK row \in Rows(id, repo) :
        /\ registry' = IF row = id THEN Enriched(id, repo) ELSE registry
        /\ dirs' = Ensured(row)
  BY <1>1 DEF EnsureProject
<1>4. row \in Ids
  BY <1>2, <1>3 DEF Rows, RowsOf, Registry
<1>5. Directories' /\ OwnersKept
  BY <1>1, <1>3, <1>4, EnsureKeeps DEF EnsureProject
<1>6. Registry'
  BY <1>2, <1>3 DEF Registry, Enriched, Override
<1>7. Locals'
  BY <1>1, <1>2, LeaveKeeps DEF EnsureProject
<1> QED BY <1>5, <1>6, <1>7, Parts, PTL

LEMMA DeleteProjectStep ==
  ASSUME IInv, NEW r \in Requests, DeleteProject(r)
  PROVE  IInv' /\ OwnersKept
<1>1. Registry /\ Directories /\ Locals
  BY Parts
<1>2. PICK id \in DOMAIN registry :
        /\ registry' = Without(registry, id)
        /\ dirs' = Without(dirs, id)
        /\ torn' = {t \in torn : t[1] # id}
  BY DEF DeleteProject
<1>3. /\ DOMAIN dirs' = DOMAIN dirs \ {id}
      /\ \A i \in DOMAIN dirs' : dirs'[i] = dirs[i]
  BY <1>2 DEF Without
<1>4. \A i \in DOMAIN dirs' : Sound(dirs'[i], i, torn')
  BY <1>1, <1>2, <1>3 DEF Directories, Sound
<1>5. Directories'
  BY <1>1, <1>2, <1>3, <1>4 DEF Directories, Sound, IsDirectory, IsBoard, IsTask, Agrees
<1>6. OwnersKept
  BY <1>3, KeepsItself DEF OwnersKept
<1>7. Registry'
  BY <1>1, <1>2 DEF Registry, Without
<1>8. Locals'
  BY <1>1, LeaveKeeps DEF DeleteProject
<1> QED BY <1>5, <1>6, <1>7, <1>8, Parts, PTL

LEMMA LookupStep ==
  ASSUME IInv, NEW r \in Requests, Ask(r)
  PROVE  IInv' /\ OwnersKept
<1>1. Registry /\ Directories /\ Locals
  BY Parts
<1>2. /\ UNCHANGED <<registry, dirs, torn>>
      /\ pc' = [pc EXCEPT ![r] = "locked"]
  BY DEF Ask, AskCreate, AskTask, AskBoard, Lookup, Go
<1>3. Registry' /\ Directories' /\ OwnersKept
  BY <1>1, <1>2, KeepsItself
     DEF Registry, Directories, OwnersKept, Sound, IsDirectory, IsBoard, IsTask, Agrees
<1>4. IsLocal(loc[r]) /\ IsLocal(Fresh)
  BY <1>1, StoreAssumption DEF Locals, IsLocal, Fresh, Layout, IsBoard
<1>5. /\ DOMAIN loc' = Requests /\ \A q \in Requests \ {r} : loc'[q] = loc[q]
      /\ IsLocal(loc'[r])
      /\ loc'[r].id \in Ids
      /\ loc'[r].kind = "create" => loc'[r].spec[2] \in Titles
      /\ loc'[r].kind \in {"move", "delete", "log"} => loc'[r].spec \in Specs
  <2>1. CASE AskCreate(r)
    <3>1. PICK id \in DOMAIN registry, title \in Titles :
            loc' = [loc EXCEPT ![r].kind = "create", ![r].id = id, ![r].spec = <<0, title>>]
      BY <2>1 DEF AskCreate
    <3>2. id \in Ids
      BY <1>1 DEF Registry
    <3> QED BY <1>1, <1>4, <3>1, <3>2, StoreAssumption DEF Locals, IsLocal
  <2>2. CASE AskTask(r)
    <3> DEFINE Moves(id, spec) ==
                 \E column \in Columns :
                   loc' = [loc EXCEPT ![r] = [Fresh EXCEPT !.kind = "move", !.id = id,
                                              !.spec = spec, !.column = column]]
               Names(id, spec) ==
                 \E kind \in {"delete", "log"} :
                   loc' = [loc EXCEPT ![r].kind = kind, ![r].id = id, ![r].spec = spec]
    <3>1. \E id \in DOMAIN registry \cap DOMAIN dirs :
             \E spec \in DOMAIN dirs[id].tasks : Moves(id, spec) \/ Names(id, spec)
      BY <2>2 DEF AskTask
    <3>2. PICK id \in DOMAIN registry \cap DOMAIN dirs :
             \E spec \in DOMAIN dirs[id].tasks : Moves(id, spec) \/ Names(id, spec)
      <4> HIDE DEF Moves, Names
      <4> QED BY <3>1
    <3>3. PICK spec \in DOMAIN dirs[id].tasks : Moves(id, spec) \/ Names(id, spec)
      <4> HIDE DEF Moves, Names
      <4> QED BY <3>2
    <3>4. id \in Ids /\ spec \in Specs
      BY <1>1 DEF Directories, Sound, IsDirectory
    <3>5. spec \in (0..MaxSpec) \X (Titles \cup {"none"})
      BY <3>4, StoreAssumption DEF Specs
    <3>6. CASE Moves(id, spec)
      <4> HIDE DEF Specs
      <4> QED BY <1>1, <1>4, <3>4, <3>5, <3>6 DEF Locals, IsLocal
    <3>7. CASE Names(id, spec)
      <4> HIDE DEF Specs
      <4> QED BY <1>1, <1>4, <3>4, <3>5, <3>7 DEF Locals, IsLocal
    <3> QED BY <3>3, <3>6, <3>7
  <2>3. CASE AskBoard(r)
    <3> DEFINE Board(id, spec, column) ==
                 [c \in Columns |-> (dirs[id].board[c] \ {spec})
                                      \cup (IF c = column THEN {spec} ELSE {})]
    <3>1. PICK id \in DOMAIN registry \cap DOMAIN dirs :
            \E spec \in UNION {dirs[id].board[c] : c \in Columns}, column \in Columns :
              loc' = [loc EXCEPT ![r].kind = "board", ![r].id = id,
                                 ![r].board = Board(id, spec, column)]
      BY <2>3 DEF AskBoard
    <3>2. id \in Ids /\ IsBoard(dirs[id].board)
      BY <1>1 DEF Directories, Sound, IsDirectory
    <3>3. ASSUME NEW spec \in UNION {dirs[id].board[c] : c \in Columns}, NEW column
          PROVE  IsBoard(Board(id, spec, column))
      BY <3>2 DEF IsBoard
    <3>4. PICK board : /\ IsBoard(board)
                       /\ loc' = [loc EXCEPT ![r].kind = "board", ![r].id = id,
                                             ![r].board = board]
      <4> HIDE DEF Board
      <4> QED BY <3>1, <3>3
    <3> HIDE DEF Board
    <3> QED BY <1>1, <1>4, <3>2, <3>4 DEF Locals, IsLocal
  <2> QED BY <2>1, <2>2, <2>3 DEF Ask
<1>6. \A q \in Requests : Asked(q)'
  BY <1>1, <1>2, <1>5 DEF Locals, Asked
<1>7. pc' \in [Requests -> {"idle", "locked", "done", "dead"}]
  BY <1>1, <1>2 DEF Locals
<1>8. Locals'
  <2>1. \A q \in Requests : IsLocal(loc'[q])
    BY <1>1, <1>5 DEF Locals
  <2> QED BY <1>5, <1>6, <1>7, <2>1 DEF Locals, IsLocal, IsBoard
<1> QED BY <1>3, <1>8, Parts, PTL

\* With the lock: the work, or as much of it as a crash leaves.
LEMMA WorkStep ==
  ASSUME IInv, NEW r \in Requests,
         Work(r) \/ TornCreate(r) \/ TornMove(r) \/ TornDelete(r)
  PROVE  IInv' /\ OwnersKept
<1>1. Registry /\ Locals
  BY Parts
<1>2. GoodPut(r)
  BY CreateGood, MoveGood, DeleteGood, BoardGood, WriteGood DEF Work
<1>3. pc[r] = "locked" /\ registry' = registry /\ (Leave(r) \/ Die)
  BY DEF Work, CreateTask, MoveTask, DeleteTask, PutBoard, WriteSpec,
         TornCreate, TornMove, TornDelete, At
<1>4. Directories' /\ OwnersKept
  BY <1>2, <1>3, PutKeeps
<1>5. Registry'
  BY <1>1, <1>3 DEF Registry
<1>6. Locals'
  BY <1>1, <1>3, LeaveKeeps, DieLeaves
<1> QED BY <1>4, <1>5, <1>6, Parts, PTL

LEMMA TornRemoveStep ==
  ASSUME IInv, NEW r \in Requests, TornRemove(r)
  PROVE  IInv' /\ OwnersKept
<1>1. Registry /\ Directories /\ Locals
  BY Parts
<1>0. PICK id \in DOMAIN registry \cap DOMAIN dirs : \E left \in Remains(dirs[id]) :
        /\ DOMAIN left.tasks \subseteq left.specs
        /\ registry' = Without(registry, id)
        /\ dirs' = [dirs EXCEPT ![id] = left]
        /\ torn' = IF left = dirs[id] THEN torn
                   ELSE torn \cup ({id} \X DOMAIN dirs[id].tasks)
  BY DEF TornRemove
<1>2. PICK left \in Remains(dirs[id]) :
        /\ DOMAIN left.tasks \subseteq left.specs
        /\ registry' = Without(registry, id)
        /\ dirs' = [dirs EXCEPT ![id] = left]
        /\ torn' = IF left = dirs[id] THEN torn
                   ELSE torn \cup ({id} \X DOMAIN dirs[id].tasks)
  BY <1>0
<1>3. Directories' /\ OwnersKept /\ Registry'
  <2>1. Sound(dirs[id], id, torn) /\ id \in Ids
    BY <1>1 DEF Directories
  <2>2. Sound(left, id, torn') /\ KeepsOwners(dirs[id], left)
    BY <1>2, <2>1, RemainsSound
  <2>3. torn \subseteq torn' /\ torn' \subseteq Ids \X Specs
    BY <1>1, <1>2, <2>1 DEF Directories, Sound, IsDirectory
  <2>4. /\ DOMAIN dirs' = DOMAIN dirs /\ dirs'[id] = left
        /\ \A i \in DOMAIN dirs \ {id} : dirs'[i] = dirs[i]
    BY <1>2
  <2>5. \A i \in DOMAIN dirs \ {id} : Sound(dirs[i], i, torn')
    BY <1>1, <2>3 DEF Directories, Sound
  <2>6. \A i \in DOMAIN dirs' : Sound(dirs'[i], i, torn')
    BY <2>2, <2>4, <2>5
  <2>7. Directories'
    BY <1>1, <2>3, <2>4, <2>6 DEF Directories, Sound, IsDirectory, IsBoard, IsTask, Agrees
  <2>8. OwnersKept
    BY <2>2, <2>4, KeepsItself DEF OwnersKept
  <2> QED BY <1>1, <1>2, <2>7, <2>8 DEF Registry, Without
<1>4. pc' \in [Requests -> {"idle", "done", "dead"}]
  BY <1>1 DEF TornRemove, Locals
<1>5. Locals'
  BY <1>1, <1>4, DieKeeps DEF TornRemove
<1> QED BY <1>3, <1>5, Parts, PTL

-----------------------------------------------------------------------------

LEMMA InitInv == Init => IInv
<1> SUFFICES ASSUME Init PROVE IInv
  OBVIOUS
<1>1. Registry /\ Directories
  BY DEF Init, Registry, Directories
<1>2. IsLocal(Fresh)
  BY StoreAssumption DEF IsLocal, Fresh, Layout, IsBoard
<1>3. Locals
  BY <1>2 DEF Init, Locals, Asked
<1> QED BY <1>1, <1>3, Parts

\* A step changes nothing, or keeps the invariant and the owners of the tasks.
LEMMA StepInv == IInv /\ [Next]_vars => IInv' /\ OwnersKept
<1> SUFFICES ASSUME IInv, [Next]_vars PROVE IInv' /\ OwnersKept
  OBVIOUS
<1>1. ASSUME NEW r \in Requests, Ensure(r) PROVE IInv' /\ OwnersKept
  BY <1>1, EnsureStep
<1>2. ASSUME NEW r \in Requests, DeleteProject(r) PROVE IInv' /\ OwnersKept
  BY <1>2, DeleteProjectStep
<1>3. ASSUME NEW r \in Requests, Ask(r) PROVE IInv' /\ OwnersKept
  BY <1>3, LookupStep
<1>4. ASSUME NEW r \in Requests, Work(r) PROVE IInv' /\ OwnersKept
  BY <1>4, WorkStep
<1>5. ASSUME NEW r \in Requests, Crash(r) PROVE IInv' /\ OwnersKept
  BY <1>5, WorkStep, TornRemoveStep DEF Crash
<1>6. CASE UNCHANGED vars
  <2>1. Registry /\ Directories /\ Locals
    BY Parts
  <2>2. Registry' /\ Directories' /\ Locals'
    BY <1>6, <2>1 DEF vars, Registry, Directories, Locals, Sound, IsDirectory, IsBoard,
                      IsTask, IsLocal, Asked, Agrees
  <2>3. OwnersKept
    BY <1>6, KeepsItself DEF vars, OwnersKept
  <2> QED BY <2>2, <2>3, Parts, PTL
<1> QED BY <1>1, <1>2, <1>3, <1>4, <1>5, <1>6 DEF Next, Finished

\* The store keeps its types, for every number of requests, of ids and of specs
\* (store.go: the registry, the directories and what a request holds).
THEOREM StoreTypes == Spec => []TypeOK
<1>1. IInv => TypeOK
  BY DEF IInv
<1> QED BY <1>1, InitInv, StepInv, PTL DEF Spec

\* The card of every task is in its column and nowhere else, except where a
\* crash or a stale board touched it (CreateTask, MoveTask, DeleteTask, PutBoard).
THEOREM BoardMatchesTasks == Spec => []CardsAgree
<1>1. IInv => CardsAgree
  BY DEF IInv
<1> QED BY <1>1, InitInv, StepInv, PTL DEF Spec

\* nextSpecID never gives a new task the directory of another (CreateTask), in
\* no interleaving with deletions, half created tasks and writes to logs.
THEOREM TasksKeepTheirOwner == Spec => NoTaskOverwritten
<1>1. IInv /\ [Next]_vars =>
        [\A id \in DOMAIN dirs \cap DOMAIN dirs' :
           \A s \in DOMAIN dirs[id].tasks \cap DOMAIN dirs'[id].tasks :
             dirs'[id].tasks[s].by = dirs[id].tasks[s].by]_vars
  BY StepInv DEF OwnersKept, KeepsOwners
<1> QED BY <1>1, InitInv, StepInv, PTL DEF Spec, NoTaskOverwritten

=============================================================================
