--------------------------- MODULE FailClosedGate ---------------------------
(***************************************************************************)
(* What a local scan promises, without phases, goroutines or channels: the *)
(* containers do what they do, and then the process exits once, with 0 or  *)
(* 2 only if every scanner the target calls for ended with a report that   *)
(* can be believed and the policy says so of all the findings together.    *)
(* It may always fail closed with 1.                                       *)
(***************************************************************************)
EXTENDS ScannerReports

CONSTANTS OutcomesOf, NoOutcome

VARIABLES
  policy,    \* the policy in force
  target,    \* what the tree of the target calls for
  outcome,   \* what the container of each tool did
  exitCode   \* -1 until the process exits

gateVars == <<policy, target, outcome, exitCode>>

Findings(t) == IF t \in ScopeOf(target) THEN Parsed(t, outcome[t].items) ELSE <<>>

\* All findings, tool by tool in a fixed order.
AllFindings ==
  Findings("gitleaks") \o Findings("semgrep") \o Findings("trivy") \o Findings("checkov")
    \o Findings("gitleaks-history") \o Findings("trufflehog-history")

Verdict ==
  IF \E t \in ScopeOf(target) : outcome[t] = NoOutcome \/ ~Accepted(t, outcome[t], FALSE)
  THEN "block"
  ELSE Evaluate(policy, AllFindings)

Init ==
  /\ target \in Target
  /\ outcome = [t \in Tools |-> NoOutcome]
  /\ exitCode = -1

Observe(t, out) ==
  /\ exitCode = -1
  /\ outcome[t] = NoOutcome
  /\ outcome' = [outcome EXCEPT ![t] = out]
  /\ UNCHANGED <<policy, target, exitCode>>

Exit(code) ==
  /\ exitCode = -1
  /\ code = 0 => Verdict = "pass"
  /\ code = 2 => Verdict = "review"
  /\ exitCode' = code
  /\ UNCHANGED <<policy, target, outcome>>

Next ==
  \/ \E t \in Tools : \E out \in OutcomesOf[t] : Observe(t, out)
  \/ \E code \in 0 .. 2 : Exit(code)

Spec == Init /\ [][Next]_gateVars
=============================================================================
