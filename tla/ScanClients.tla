----------------------------- MODULE ScanClients -----------------------------
(***************************************************************************)
(* How the git proxy reads a scan verdict, from the JSON report and exit   *)
(* status of `kuro scan --json` (services/git-proxy/server/local_scan.go)  *)
(* or from an HTTP response (config_client.go, defaultKuroClient), and how *)
(* the CLI writes them (cli/cmd/scan.go, decision_exit.go).                *)
(***************************************************************************)
EXTENDS Integers

Statuses      == {"running", "failed", "completed"}
DecisionWords == {"pass", "review", "block", "other", ""}

\* error: the "error" member is a non-empty string; found: findings are listed.
Report == [error : BOOLEAN, status : Statuses, decision : DecisionWords, found : BOOLEAN]

\* What a scan client returns: (blocked, findings, err) without the findings.
Reply == [blocked : BOOLEAN, err : BOOLEAN]

Approve == [blocked |-> FALSE, err |-> FALSE]
Deny    == [blocked |-> TRUE, err |-> FALSE]
Fail    == [blocked |-> FALSE, err |-> TRUE]

-----------------------------------------------------------------------------

\* decisionExitCode and the error branch of scanOutput: 0 pass, 2 review, 1 else.
ExitCode(decision, err) ==
  CASE ~err /\ decision = "pass"   -> 0
    [] ~err /\ decision = "review" -> 2
    [] OTHER                       -> 1

\* printJSON.
JsonReport(status, decision, err, found) ==
  [error |-> err, status |-> status, decision |-> decision, found |-> found]

-----------------------------------------------------------------------------

\* Mutant: the status and the error of the report are not looked at.
parseDecisionOnly(report) ==
  CASE report.decision = "pass"                -> Approve
    [] report.decision \in {"block", "review"} -> Deny
    [] OTHER                                   -> Fail

\* An unknown decision that comes with findings blocks.
parseScanJSON(report) ==
  IF report.error \/ report.status = "failed"                      THEN Fail
  ELSE IF report.decision = "pass"                                 THEN Approve
  ELSE IF report.decision \in {"block", "review"} \/ report.found  THEN Deny
  ELSE Fail

(***************************************************************************)
(* localCLIClient.Scan.  stdout: the reports the output may be read as, {} *)
(* when it is empty or not JSON; code: the exit status, -1 for a process   *)
(* that could not start or was killed, by the 30 minute deadline for one.  *)
(* Exit statuses 1 and 2 are believed only when the report blocks.         *)
(***************************************************************************)
LocalScan(stdout, code) ==
  IF stdout = {} THEN Fail
  ELSE LET reply == parseScanJSON(CHOOSE r \in stdout : TRUE)
       IN  IF code # 0 /\ ~(code \in {1, 2} /\ reply.blocked) THEN Fail ELSE reply

(***************************************************************************)
(* defaultKuroClient.Scan.  answered: a response arrived within the client *)
(* timeout and its body decodes; class: its status; blocked: its decision  *)
(* is the word BLOCKED.                                                    *)
(***************************************************************************)
RemoteScan(resp) ==
  CASE resp.answered /\ resp.class = "2xx" -> [blocked |-> resp.blocked, err |-> FALSE]
    [] resp.answered /\ resp.class = "403" -> Deny
    [] OTHER                               -> Fail
=============================================================================
