CONSTANTS
  Requests = {r1, r2, r3, r4, r5}
  Ids = {"p", "q"}
  Repos = {"acme/x", "acme/y"}
  Unknown = "none"
  Columns = {"backlog", "queue"}
  Titles = {"fix", "add"}
  MaxSpec = 2
  Kinds = {"ensure", "link", "remove", "create", "move", "delete", "board", "log"}
SPECIFICATION Spec
SYMMETRY Symmetry
INVARIANTS TypeOK CardsAgree
PROPERTIES NoTaskOverwritten
