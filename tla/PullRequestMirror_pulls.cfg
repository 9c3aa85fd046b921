SPECIFICATION Spec
CONSTANTS
  p1 = p1
  Prs = {p1}
  Commented = {p1}
  Unreadable = {}
  Hooks = {"lifecycle", "check_suite"}
  Ops = {"push", "lifecycle", "synchronize", "check_suite", "review", "comment", "crash"}
  Outcomes = {"failure"}
  Decisions = {"approved"}
  Verbs = {"ignore", "unignore"}
  Touched = {{"workflow"}}
  MaxOps = 3
INVARIANT CommandsObeyed
PROPERTIES Converges HeadIsScanned
CHECK_DEADLOCK FALSE
