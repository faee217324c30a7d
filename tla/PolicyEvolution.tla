--------------------------- MODULE PolicyEvolution ---------------------------
(***************************************************************************)
(* The inputs of one gate as they grow.  The collector appends findings in *)
(* the order the scanners happen to finish (adapter_local.go, Run) and     *)
(* LoadPolicy reads a policy to which its owners add rules.  The decision  *)
(* is the engine's answer for the inputs reached so far.                   *)
(***************************************************************************)
EXTENDS Policy, SequencesExt

CONSTANTS
  Reports,      \* the findings that may be reported
  Rules,        \* the rules that may be added
  Policies,     \* the policies to start from
  MaxFindings,  \* bound on the length of a report
  MaxRules      \* bound on the number of rules

ASSUME ReportsAssumption  == Reports \subseteq Finding
ASSUME RulesAssumption    == Rules \subseteq Rule
ASSUME PoliciesAssumption == Policies \subseteq PolicySet

VARIABLES
  policy,       \* the policy in force
  findings      \* allFindings, in arrival order

vars == <<policy, findings>>

TypeOK ==
  /\ policy \in PolicySet
  /\ findings \in Seq(Finding)

Init ==
  /\ policy \in Policies
  /\ findings = <<>>

Report(f) ==
  /\ Len(findings) < MaxFindings
  /\ findings' = Append(findings, f)
  /\ UNCHANGED policy

AddRule(r) ==
  /\ Len(policy.rules) < MaxRules
  /\ policy' = [policy EXCEPT !.rules = Append(@, r)]
  /\ UNCHANGED findings

Next ==
  \/ \E f \in Reports : Report(f)
  \/ \E r \in Rules : AddRule(r)

Spec == Init /\ [][Next]_vars

-----------------------------------------------------------------------------

(***************************************************************************)
(* The mandatory floors cannot be relaxed by any policy: not by a PASS     *)
(* rule, not by a threshold, not by a file pattern (policy.go:180).        *)
(***************************************************************************)
FloorsHold ==
  \A k \in DOMAIN findings :
    /\ BlockFloor(findings[k])  => Evaluate(policy, findings) = "block"
    /\ ReviewFloor(findings[k]) => Evaluate(policy, findings) # "pass"

(***************************************************************************)
(* One more finding never relaxes the decision: no rule, PASS and count    *)
(* thresholds included, lets a longer report through where a shorter one   *)
(* was stopped.                                                            *)
(***************************************************************************)
FindingsNeverRelax ==
  [][policy' = policy =>
       Rank(Evaluate(policy', findings')) >= Rank(Evaluate(policy, findings))]_vars

(***************************************************************************)
(* One more rule never relaxes the decision of a valid policy: rules add   *)
(* up instead of overriding one another, whatever their order.             *)
(***************************************************************************)
RulesNeverRelax ==
  [][/\ findings' = findings
     /\ Validate(policy)
     => Rank(Evaluate(policy', findings')) >= Rank(Evaluate(policy, findings))]_vars

(***************************************************************************)
(* Scanners finish in any order, so the decision may not depend on the     *)
(* order of the findings, nor on the order of the rules.                   *)
(***************************************************************************)
OrderIrrelevant ==
  /\ \A i \in DOMAIN findings :
       Evaluate(policy, <<findings[i]>> \o RemoveAt(findings, i)) = Evaluate(policy, findings)
  /\ Evaluate([policy EXCEPT !.rules = Reverse(@)], findings) = Evaluate(policy, findings)

=============================================================================
