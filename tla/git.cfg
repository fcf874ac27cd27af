SPECIFICATION NumberedSpec
CONSTANTS
  Paths = {"one", "two", "protected"}
  Contents = {0, 1}
  Worktrees = {"task", "left", "right"}
  Base <- Seed
  Scopes <- AssignmentScopes
  Calls = {1, 2, 3, 4}
PROPERTIES
  CommitsAreScoped
  CommitsAreWhole
CHECK_DEADLOCK FALSE
