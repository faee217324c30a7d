------------------------------- MODULE Policy -------------------------------
(***************************************************************************)
(* The policy engine of the scan gate                                      *)
(* (cli/internal/orchestrator/policy.go): which rules a policy may hold,   *)
(* which findings a rule matches and the decision Policy.Evaluate draws    *)
(* from a slice of findings.                                               *)
(*                                                                         *)
(* Letter case is abstracted: the code compares scanners, severities and   *)
(* actions case-insensitively, so each is the upper- or lower-case member  *)
(* of its set.  A glob is whether compilePolicyGlob accepts it and the     *)
(* set of trimmed paths its expression matches.                            *)
(***************************************************************************)
EXTENDS Integers, Sequences, FiniteSets

CONSTANT Names  \* file paths below the directory a tool was pointed at

Unset == "any"    \* an empty scanner or severity filter: matches everything

Scanners   == {"gitleaks", "semgrep", "trivy", "checkov", "trufflehog"}
Severities == {"CRITICAL", "HIGH", "MEDIUM", "LOW", "INFO", "UNKNOWN"}
Actions    == {"BLOCK", "REVIEW", "MANUAL_REVIEW", "PASS"}
Decisions  == {"pass", "review", "block"}

(***************************************************************************)
(* A path is the mount prefix the tool printed and the name below it.      *)
(* ruleMatches strips "/src/" and then "./"; any other prefix stays, and   *)
(* a glob, which never starts with a slash, then has to match it too.      *)
(***************************************************************************)
Mounts   == {"", "./", "/src/", "/src/./", "/"}
Path     == Mounts \X Names

\* compiles: compilePolicyGlob accepts the pattern; matches: the trimmed paths
\* its expression matches.
Glob == [compiles : BOOLEAN, matches : SUBSET Path]

Trim(path) ==
  IF path[1] \in {"./", "/src/", "/src/./"} THEN <<"", path[2]>> ELSE path

Finding == [scanner : Scanners, severity : Severities, path : Path]

Rule == [ scanner   : Scanners \cup {Unset, "unsupported"},
          severity  : Severities \cup {Unset, "unsupported"},
          patterns  : SUBSET Glob,
          threshold : Int,
          action    : Actions \cup {"unsupported"} ]

\* named: both the name and the version of the policy are present.
PolicySet == [named : BOOLEAN, rules : Seq(Rule)]

-----------------------------------------------------------------------------

RuleValid(r) ==
  /\ r.scanner # Unset \/ r.severity # Unset \/ r.patterns # {}
  /\ r.threshold >= 0
  /\ r.action \in Actions
  /\ r.scanner \in Scanners \cup {Unset}
  /\ r.severity \in Severities \cup {Unset}
  /\ \A glob \in r.patterns : glob.compiles

Validate(p) ==
  /\ p.named
  /\ p.rules # <<>>
  /\ \A i \in DOMAIN p.rules : RuleValid(p.rules[i])

\* A pattern that fails to compile is skipped; the others are tried in turn.
ruleMatches(r, f) ==
  /\ r.scanner \in {Unset, f.scanner}
  /\ r.severity \in {Unset, f.severity}
  /\ \/ r.patterns = {}
     \/ \E glob \in r.patterns : glob.compiles /\ Trim(f.path) \in glob.matches

Matching(r, findings) == {k \in DOMAIN findings : ruleMatches(r, findings[k])}

\* An absent threshold (0 in the decoded rule) means one finding.
Threshold(r) == IF r.threshold = 0 THEN 1 ELSE r.threshold

\* Mutant: the threshold compared with = instead of >=.
FiresExactly(r, findings) == Cardinality(Matching(r, findings)) = Threshold(r)

Fires(r, findings) == Cardinality(Matching(r, findings)) >= Threshold(r)

(***************************************************************************)
(* The floors: whatever the rules say, a CRITICAL finding and a secret     *)
(* block, a HIGH finding asks for review.                                  *)
(***************************************************************************)
BlockFloor(f)  == f.severity = "CRITICAL" \/ f.scanner \in {"gitleaks", "trufflehog"}
ReviewFloor(f) == f.severity = "HIGH"

\* Mutants: the first rule that fires decides; the last one does.
FirstRuleSays(p, findings, actions) ==
  \E i \in DOMAIN p.rules :
    /\ p.rules[i].action \in actions /\ Fires(p.rules[i], findings)
    /\ \A j \in 1 .. i - 1 : ~Fires(p.rules[j], findings)

LastRuleSays(p, findings, actions) ==
  \E i \in DOMAIN p.rules :
    /\ p.rules[i].action \in actions /\ Fires(p.rules[i], findings)
    /\ \A j \in i + 1 .. Len(p.rules) : ~Fires(p.rules[j], findings)

RuleSays(p, findings, actions) ==
  \E i \in DOMAIN p.rules : p.rules[i].action \in actions /\ Fires(p.rules[i], findings)

Blocked(p, findings) ==
  \/ RuleSays(p, findings, {"BLOCK"})
  \/ \E k \in DOMAIN findings : BlockFloor(findings[k])

Review(p, findings) ==
  \/ RuleSays(p, findings, {"REVIEW", "MANUAL_REVIEW"})
  \/ \E k \in DOMAIN findings : ReviewFloor(findings[k])

\* Mutant: a PASS rule that fires waives everything but the BLOCK rules.
EvaluatePassWins(p, findings) ==
  IF ~Validate(p) \/ RuleSays(p, findings, {"BLOCK"}) THEN "block"
  ELSE IF RuleSays(p, findings, {"PASS"}) THEN "pass"
  ELSE IF Blocked(p, findings) THEN "block"
  ELSE IF Review(p, findings) THEN "review"
  ELSE "pass"

Evaluate(p, findings) ==
  IF ~Validate(p) \/ Blocked(p, findings) THEN "block"
  ELSE IF Review(p, findings) THEN "review"
  ELSE "pass"

-----------------------------------------------------------------------------

\* The order of strictness of the three decisions.
Rank(decision) ==
  CASE decision = "pass" -> 0 [] decision = "review" -> 1 [] decision = "block" -> 2

\* The rules of the policy embedded in the binary (rules/default-policy.json).
AnyFile(scanner, severity, action) ==
  [scanner |-> scanner, severity |-> severity, patterns |-> {}, threshold |-> 0,
   action |-> action]

DefaultPolicy ==
  [ named |-> TRUE,
    rules |-> << AnyFile("gitleaks", Unset, "BLOCK"),
                 AnyFile("trufflehog", Unset, "BLOCK"),
                 AnyFile(Unset, "CRITICAL", "BLOCK"),
                 [AnyFile(Unset, "HIGH", "MANUAL_REVIEW") EXCEPT !.threshold = 1],
                 AnyFile("checkov", Unset, "BLOCK"),
                 AnyFile("trivy", Unset, "BLOCK") >> ]
=============================================================================
