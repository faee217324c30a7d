--------------------------- MODULE ScannerReports ---------------------------
(***************************************************************************)
(* From what a scanner container did to what its adapter reports           *)
(* (cli/internal/orchestrator: scanners.go, semgrep_run.go, container.go,  *)
(* parsers.go), and the choice of the scanners for a target (Scope).       *)
(***************************************************************************)
EXTENDS Policy

HistoryTools == {"gitleaks-history", "trufflehog-history"}
Tools        == {"gitleaks", "semgrep", "trivy", "checkov"} \cup HistoryTools

\* The name an adapter writes into its findings.
Source(tool) ==
  CASE tool = "gitleaks-history"   -> "gitleaks"
    [] tool = "trufflehog-history" -> "trufflehog"
    [] OTHER                       -> tool

(***************************************************************************)
(* What a container did.  exit: never started (a precondition of the       *)
(* adapter failed: no usable Trivy database, no directory for the Semgrep  *)
(* rules, no runtime), exit status 0, 1 or other, killed by its context.   *)
(* shape: the output is not JSON of the expected type ("malformed"), is    *)
(* but lacks what the parser insists on or lists analysis errors           *)
(* ("incomplete"), or is a report ("complete") with these items.           *)
(***************************************************************************)
Exits  == {"unstarted", "zero", "one", "other", "killed"}
Shapes == {"malformed", "incomplete", "complete"}
Levels == Severities \cup {"ERROR", "WARNING", "none"}
Item   == [level : Levels, path : Path]

Outcome == [exit : Exits, shape : Shapes, items : Seq(Item)]

\* Secrets are CRITICAL whatever the tool says; Trivy's word is taken as it is
\* (a word no rule knows counts as UNKNOWN).
SeverityOf(tool, level) ==
  CASE Source(tool) \in {"gitleaks", "trufflehog"} -> "CRITICAL"
    [] tool = "semgrep" /\ level = "ERROR"         -> "CRITICAL"
    [] tool = "semgrep" /\ level = "WARNING"       -> "HIGH"
    [] tool = "checkov" /\ level \in {"CRITICAL", "HIGH"} -> level
    [] tool = "trivy"   -> IF level \in Severities THEN level ELSE "UNKNOWN"
    [] OTHER            -> "MEDIUM"

Parsed(tool, items) ==
  [k \in DOMAIN items |-> [scanner  |-> Source(tool),
                           severity |-> SeverityOf(tool, items[k].level),
                           path     |-> items[k].path]]

(***************************************************************************)
(* Exit status 1 is Gitleaks' way to say that it found leaks; it is        *)
(* believed only with a well-formed report that lists some, and never when *)
(* the context is already over.                                            *)
(***************************************************************************)
LeaksExit(tool, out, ctxDone) ==
  /\ Source(tool) = "gitleaks"
  /\ out.exit = "one"
  /\ out.shape = "complete"
  /\ out.items # <<>>
  /\ ~ctxDone

\* Mutant: any well-formed report is believed, whatever the exit status.
AcceptedByShape(tool, out, ctxDone) == out.shape = "complete"

Accepted(tool, out, ctxDone) ==
  /\ out.shape = "complete"
  /\ out.exit = "zero" \/ LeaksExit(tool, out, ctxDone)

\* The (findings, err) pair of run<Tool>: no findings go with an error.
RunTool(tool, out, ctxDone) ==
  IF Accepted(tool, out, ctxDone)
  THEN [ok |-> TRUE, findings |-> Parsed(tool, out.items)]
  ELSE [ok |-> FALSE, findings |-> <<>>]

-----------------------------------------------------------------------------

(***************************************************************************)
(* Scope of the local adapter.  A target is what the walk of the tree      *)
(* finds out about it.                                                     *)
(***************************************************************************)
Target == [history : BOOLEAN, lockfile : BOOLEAN, infra : BOOLEAN]

ScopeOf(target) ==
  IF target.history THEN HistoryTools
  ELSE {"gitleaks", "semgrep"}
         \cup (IF target.lockfile THEN {"trivy"} ELSE {})
         \cup (IF target.infra THEN {"checkov"} ELSE {})
=============================================================================
