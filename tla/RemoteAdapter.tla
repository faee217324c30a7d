---------------------------- MODULE RemoteAdapter ----------------------------
(***************************************************************************)
(* The adapter of `kuro scan` for remote targets (adapter_remote.go,       *)
(* client.go): the scan is triggered on the server, its status is polled   *)
(* until it is terminal, and the findings the server lists go through the  *)
(* local policy engine.  The server is external: it runs the scan at its   *)
(* own pace, and any request to it may fail.  ScanSession runs the adapter *)
(* in its process.                                                         *)
(*                                                                         *)
(* Time is counted in units of the five seconds between two polls.         *)
(***************************************************************************)
EXTENDS Policy, ScanClients

CONSTANTS
  policy,       \* the policy of the orchestrator
  Reports,      \* the lists of findings the server may come to
  HttpTimeout,  \* of one request: 30 seconds
  Grace,        \* how long failed polls are retried: 30 seconds
  Limit,        \* after which polling stops: 30 minutes
  ScanBudget    \* the deadline of the context of RunScan: 35 minutes

\* The budget has room for the trigger, a poll at the very limit, the sleep after
\* it and one more request.
ASSUME RemoteAssumption ==
  /\ policy \in PolicySet /\ Validate(policy)
  /\ Reports \subseteq Seq(Finding)
  /\ {HttpTimeout, Grace, Limit, ScanBudget} \subseteq Nat
  /\ \A bound \in {Grace, Limit} : HttpTimeout + bound + 1 + HttpTimeout <= ScanBudget

VARIABLES
  phase,      \* of the adapter: trigger, run, end
  clock,      \* time since the process started
  started,    \* when Run was called
  server,     \* the scan on the server
  listed,     \* top_findings of the scan on the server
  decision,   \* ScanResult.Decision
  runErr      \* Orchestrator.Run returned an error

clientVars == <<phase, clock, started, decision, runErr>>
serverVars == <<server, listed>>
remoteVars == <<clientVars, serverVars>>

isTerminal(status) == status \in {"completed", "failed", "blocked"}

RemoteTypeOK ==
  /\ phase \in {"trigger", "run", "end"}
  /\ {clock, started} \subseteq Nat
  /\ server \in {"none", "queued", "running", "completed", "failed", "blocked"}
  /\ listed \in Seq(Finding)
  /\ decision \in DecisionWords
  /\ runErr \in BOOLEAN

RemoteInit ==
  /\ phase = "trigger"
  /\ clock = 0
  /\ started = 0
  /\ server = "none"
  /\ listed = <<>>
  /\ decision = ""
  /\ runErr = FALSE

-----------------------------------------------------------------------------

\* The server works through the scan; a scan that failed may list findings.
ServerStep ==
  /\ \/ server = "queued" /\ server' = "running" /\ UNCHANGED listed
     \/ /\ server = "running"
        /\ server' \in {"completed", "failed", "blocked"}
        /\ listed' \in Reports
  /\ UNCHANGED clientVars

\* Run returns an error: the scan failed.
FailRun ==
  /\ phase' = "end"
  /\ decision' = "block"
  /\ runErr' = TRUE

\* Run returns findings, and the policy decides.
Finish(findings) ==
  /\ phase' = "end"
  /\ decision' = Evaluate(policy, findings)
  /\ UNCHANGED runErr

\* Fetch.  A request that fails may have reached the server all the same.
TriggerScan ==
  /\ phase = "trigger"
  /\ \E d \in 0 .. HttpTimeout : clock' = clock + d
  /\ server' \in {"none", "queued"}
  /\ \/ server' = "queued" /\ phase' = "run" /\ UNCHANGED <<decision, runErr>>
     \/ FailRun
  /\ started' = clock'
  /\ UNCHANGED listed

\* The iteration ends with the sleep.
SleepAfter(d) ==
  /\ clock' = clock + d + 1
  /\ UNCHANGED <<phase, decision, runErr>>

\* Mutant: an answer that could not be read counts as a scan without findings.
PollFailsAsClean ==
  /\ phase = "run"
  /\ \E d \in 0 .. HttpTimeout :
       IF clock + d - started < Grace THEN SleepAfter(d)
       ELSE Finish(<<>>) /\ clock' = clock + d
  /\ UNCHANGED <<started, serverVars>>

\* No response, a status other than 2xx or a body that is not JSON: tolerated
\* only shortly after Run was called.
PollFails ==
  /\ phase = "run"
  /\ \E d \in 0 .. HttpTimeout :
       IF clock + d - started < Grace THEN SleepAfter(d)
       ELSE FailRun /\ clock' = clock + d
  /\ UNCHANGED <<started, serverVars>>

\* Mutant: only failed polls are ever given up on.
PollRunningForever ==
  /\ phase = "run"
  /\ ~isTerminal(server)
  /\ \E d \in 0 .. HttpTimeout : SleepAfter(d)
  /\ UNCHANGED <<started, serverVars>>

\* The scan is not finished yet.
PollRunning ==
  /\ phase = "run"
  /\ ~isTerminal(server)
  /\ \E d \in 0 .. HttpTimeout :
       IF clock + d - started > Limit THEN FailRun /\ clock' = clock + d
       ELSE SleepAfter(d)
  /\ UNCHANGED <<started, serverVars>>

\* The scan is over: convertFindings takes the listed findings, nothing else.
PollTerminal ==
  /\ phase = "run"
  /\ isTerminal(server)
  /\ \E d \in 0 .. HttpTimeout : clock' = clock + d
  /\ Finish(listed)
  /\ UNCHANGED <<started, serverVars>>

Poll == PollFails \/ PollRunning \/ PollTerminal

RemoteNext == TriggerScan \/ Poll \/ ServerStep

\* The server owes no progress.
RemoteSpec == RemoteInit /\ [][RemoteNext]_remoteVars

-----------------------------------------------------------------------------

(***************************************************************************)
(* Run does not look at its context, and yet never outlives the deadline   *)
(* of the scan: the poll limit, the last sleep and the last request all    *)
(* fit (adapter_remote.go:45-63, scan.go:137).                             *)
(***************************************************************************)
StaysWithinBudget == clock <= ScanBudget

(***************************************************************************)
(* No silent pass on a scan that failed (README.md:39).                    *)
(***************************************************************************)
FailedScanNeverPasses ==
  phase = "end" /\ server = "failed" => ExitCode(decision, runErr) # 0
=============================================================================
