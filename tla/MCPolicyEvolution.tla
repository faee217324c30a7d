-------------------------- MODULE MCPolicyEvolution --------------------------
(***************************************************************************)
(* Small inputs for PolicyEvolution: findings on both sides of each floor  *)
(* and of each rule filter, rules of every action, with and without a      *)
(* threshold, a file pattern and a pattern that does not compile.          *)
(***************************************************************************)
EXTENDS PolicyEvolution

MCNames == {"app", "infra"}

F(scanner, severity, mount, name) ==
  [scanner |-> scanner, severity |-> severity, path |-> <<mount, name>>]

MCReports ==
  { F("gitleaks", "LOW", "/src/", "app"),
    F("semgrep", "MEDIUM", "/src/", "app"),
    F("semgrep", "HIGH", "./", "infra"),
    F("semgrep", "CRITICAL", "", "app"),
    F("checkov", "MEDIUM", "/", "infra"),
    F("checkov", "MEDIUM", "/src/./", "infra") }

R(scanner, severity, patterns, threshold, action) ==
  [scanner |-> scanner, severity |-> severity, patterns |-> patterns,
   threshold |-> threshold, action |-> action]

InfraGlob  == [compiles |-> TRUE, matches |-> {<<"", "infra">>}]
BrokenGlob == [compiles |-> FALSE, matches |-> {}]

MCRules ==
  { R("semgrep", Unset, {}, 0, "PASS"),
    R("semgrep", Unset, {}, 2, "BLOCK"),
    R(Unset, "MEDIUM", {}, 2, "REVIEW"),
    R(Unset, "CRITICAL", {}, 1, "PASS"),
    R("checkov", Unset, {InfraGlob}, 1, "MANUAL_REVIEW"),
    R("checkov", "MEDIUM", {InfraGlob, BrokenGlob}, 1, "PASS"),
    R(Unset, Unset, {}, 1, "PASS") }

MCPolicies ==
  { DefaultPolicy,
    [named |-> TRUE, rules |-> <<>>],
    [named |-> FALSE, rules |-> <<R("semgrep", Unset, {}, 0, "PASS")>>],
    [named |-> TRUE, rules |-> <<R(Unset, "LOW", {}, 0, "PASS")>>] }
=============================================================================
