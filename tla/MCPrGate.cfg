SPECIFICATION Spec
CONSTANTS
  Files = {"main.tf", "go.mod", "go.sum"}
  Lockfiles = {"go.mod", "go.sum"}
  Manifest = "go.mod"
  Iac = {"main.tf"}
  Contents = {"ok", "bad", "worse", "muted"}
  Unsafe = {"bad", "worse", "muted"}
  Muted = {"muted"}
  PRs = {p1, p2}
  Initial <- MCInitial
  Pushed <- MCPushed
  MaxEvents = 2
  MaxVersions = 3
INVARIANTS SuccessIsEarned
PROPERTIES ImplementsProtectedBranch ChecksConclude
CHECK_DEADLOCK FALSE
