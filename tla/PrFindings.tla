----------------------------- MODULE PrFindings -----------------------------
(***************************************************************************)
(* What scripts/ci/pr-gate.py says of a proposed merge: it scans the tree  *)
(* of the base and that of the merge with one binary, policy and database, *)
(* turns the findings of each into identities and passes a merge whose     *)
(* identities the base has already.                                        *)
(*                                                                         *)
(* The scanners are external.  They object to the content of a file, or,   *)
(* for a dependency, to what the lockfiles hold together, and then name    *)
(* the manifest.  Checkov obeys a directive in the file it looks at.       *)
(***************************************************************************)
EXTENDS ScanClients

CONSTANTS
  Files,      \* the paths of the repository
  Lockfiles,  \* those that go into the dependency context
  Manifest,   \* the one that dependency findings name
  Iac,        \* Terraform sources and Dockerfiles
  Contents,   \* what a file may hold, "absent" for one that does not exist
  Unsafe,     \* contents that a scanner objects to
  Muted       \* those of them with a Checkov suppression directive

ASSUME PrFindingsAssumption ==
  /\ Manifest \in Lockfiles
  /\ Lockfiles \subseteq Files
  /\ Iac \subseteq Files \ Lockfiles
  /\ Muted \subseteq Unsafe
  /\ Unsafe \subseteq Contents

Tree    == [Files -> Contents]
Finding == [scanner : {"source", "trivy"}, file : Files]

\* The files whose contents a finding comes from.
Reads(f) == IF f.scanner = "trivy" THEN Lockfiles ELSE {f.file}

\* What is wrong with a tree, whether or not it is reported.
Present(tree) ==
  {f \in Finding :
     \/ f.scanner = "trivy" /\ f.file = Manifest /\ \E l \in Lockfiles : tree[l] \in Unsafe
     \/ f.scanner = "source" /\ f.file \notin Lockfiles /\ tree[f.file] \in Unsafe}

\* The same, each with what it comes from: what a merge must not add to.
Flaws(tree) ==
  {[finding |-> f, inputs |-> [x \in Reads(f) |-> tree[x]]] : f \in Present(tree)}

\* What the scanners list.
Reported(tree) ==
  {f \in Present(tree) : ~(f.file \in Iac /\ tree[f.file] \in Muted)}

-----------------------------------------------------------------------------

Verdicts == {"pass", "review", "block"}

\* A report on standard output, the exit status and the listed findings.
Outcome(report, code, listed) ==
  [json |-> TRUE, report |-> report, code |-> code, listed |-> listed]

NotJson == [json |-> FALSE, report |-> JsonReport("failed", "", TRUE, FALSE), code |-> -1, listed |-> {}]

Decided(d, tree) == JsonReport("completed", d, FALSE, Reported(tree) # {})
Failed(listed)   == JsonReport("failed", "block", TRUE, listed # {})

\* What a `kuro scan --json --ci` of a tree leaves behind: a complete scan with
\* any decision of the policy, a failed one that lists whatever it has, or
\* output that is not JSON; -1 is a scan that was killed or ran out of time.
Outcomes(tree) ==
  {Outcome(Decided(d, tree), ExitCode(d, FALSE), Reported(tree)) : d \in Verdicts}
    \cup {Outcome(Decided(d, tree), -1, Reported(tree)) : d \in Verdicts}
    \cup {Outcome(Failed(l), ExitCode("block", TRUE), l) : l \in SUBSET Reported(tree)}
    \cup {Outcome(Failed(l), -1, l) : l \in SUBSET Reported(tree)}
    \cup {NotJson}

\* expected, in scan.
Expected == [pass |-> 0, review |-> 2, block |-> 1]

\* scan returns the findings of a report that is complete and agrees with the
\* exit status, and raises for any other.
scan(outcome) ==
  /\ outcome.json
  /\ outcome.report.status = "completed"
  /\ ~outcome.report.error
  /\ outcome.report.decision \in Verdicts
  /\ outcome.code = Expected[outcome.report.decision]

\* Mutant: a dependency finding is bound to its own manifest only.
identityWithoutContext(f, tree) ==
  [finding |-> f, digest |-> tree[f.file], context |-> <<>>]

\* An element of the result of identities: the finding, the digest of its whole
\* file and, for a dependency, of all lockfiles.
identity(f, tree) ==
  [finding  |-> f,
   digest   |-> tree[f.file],
   context  |-> IF f.scanner = "trivy" THEN [l \in Lockfiles |-> tree[l]] ELSE <<>>]

identities(findings, tree) == {identity(f, tree) : f \in findings}

\* A changed source brings a suppression directive.
Suppresses(base, candidate) ==
  \E f \in Iac : candidate[f] # base[f] /\ candidate[f] \in Muted

\* The state in the result of evaluate and main.
evaluate(base, candidate, before, after) ==
  IF Suppresses(base, candidate) \/ ~scan(before) \/ ~scan(after) THEN "error"
  ELSE IF identities(after.listed, candidate) \subseteq identities(before.listed, base)
       THEN "pass" ELSE "block"

\* The states that two scans, each with its outcome, may lead to.
Results(base, candidate) ==
  {evaluate(base, candidate, scans.before, scans.after) :
      scans \in [before : Outcomes(base), after : Outcomes(candidate)]}
=============================================================================
