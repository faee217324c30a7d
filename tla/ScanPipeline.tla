---------------------------- MODULE ScanPipeline ----------------------------
(***************************************************************************)
(* One `kuro scan` of a local target, from RunScan to the exit status      *)
(* (cli/cmd/scan.go, cli/internal/orchestrator/orchestrator.go): the six   *)
(* phases of Orchestrator.Run around the concurrent fleet of ScanFleet,    *)
(* the policy decision, the cache commit and the report.  The terminal UI  *)
(* is only where a cancellation comes from: waiting for it to close, and   *)
(* the events it is sent, are left out.                                    *)
(***************************************************************************)
EXTENDS ScanFleet, ScanClients

CONSTANTS
  Targets,   \* the targets a scan may be pointed at
  Policies   \* the policies that may be configured

ASSUME TargetsAssumption  == Targets \subseteq Target
ASSUME PoliciesAssumption == Policies \subseteq PolicySet

VARIABLES
  phase,       \* the phase of Orchestrator.Run in progress
  policy,      \* the policy of the orchestrator
  target,      \* the target
  noCache,     \* the file cache is switched off
  status,      \* ScanResult.Status
  decision,    \* ScanResult.Decision, "" until it is set
  runErr,      \* Orchestrator.Run returned an error
  cacheSaved,  \* the tree was committed to the file cache
  exitCode     \* the exit status of the process, -1 while it runs

pipeVars == <<phase, policy, target, noCache, status, decision, runErr, cacheSaved, exitCode>>
vars     == <<fleetVars, pipeVars>>

Phases == {"start", "fetch", "scope", "scan", "analyze", "decide", "report", "end"}

PipelineTypeOK ==
  /\ TypeOK
  /\ phase \in Phases
  /\ policy \in PolicySet
  /\ target \in Target
  /\ noCache \in BOOLEAN
  /\ status \in Statuses
  /\ decision \in DecisionWords
  /\ runErr \in BOOLEAN
  /\ cacheSaved \in BOOLEAN
  /\ exitCode \in -1 .. 2

PipelineInit ==
  /\ Init
  /\ phase = "start"
  /\ policy \in Policies
  /\ target \in Targets
  /\ noCache \in BOOLEAN
  /\ status = "running"
  /\ decision = ""
  /\ runErr = FALSE
  /\ cacheSaved = FALSE
  /\ exitCode = -1

-----------------------------------------------------------------------------

\* The early returns of Run: a failed scan, a blocking decision, an error.
FailRun ==
  /\ phase' = "end"
  /\ status' = "failed"
  /\ decision' = "block"
  /\ runErr' = TRUE
  /\ UNCHANGED <<policy, target, noCache, cacheSaved, exitCode>>

GoOn(next) ==
  /\ phase' = next
  /\ UNCHANGED <<policy, target, noCache, status, decision, runErr, cacheSaved, exitCode>>

\* A policy that did not load or validate ends the run before it starts.
Start ==
  /\ phase = "start"
  /\ IF Validate(policy) THEN GoOn("fetch") ELSE FailRun
  /\ UNCHANGED fleetVars

\* The path is missing, or is not a directory, or is ready.
Fetch ==
  /\ phase = "fetch"
  /\ FailRun \/ GoOn("scope")
  /\ UNCHANGED fleetVars

\* The walk of the tree fails, at the latest when it sees a canceled context;
\* history mode does not walk.
ScopeFails ==
  /\ phase = "scope"
  /\ fleet = "idle"
  /\ ~target.history
  /\ FailRun
  /\ UNCHANGED fleetVars

Scope ==
  /\ phase = "scope"
  /\ target.history \/ ~canceled
  /\ Launch(ScopeOf(target))
  /\ GoOn("scan")

\* The containers and the collector.
Scan ==
  /\ phase = "scan"
  /\ FleetStep
  /\ UNCHANGED pipeVars

\* Mutant: a fleet that failed is analyzed all the same.
ScanEndsLeniently ==
  /\ phase = "scan"
  /\ fleet \in {"ok", "failed"}
  /\ GoOn("analyze")
  /\ UNCHANGED fleetVars

ScanEnds ==
  /\ phase = "scan"
  /\ \/ fleet = "failed" /\ FailRun
     \/ fleet = "ok" /\ GoOn("analyze")
  /\ UNCHANGED fleetVars

\* Mutant: the cache is committed before the decision is known.
AnalyzeCommitsFirst ==
  /\ phase = "analyze"
  /\ decision' = Evaluate(policy, allFindings)
  /\ cacheSaved' = (~noCache /\ ~target.history)
  /\ phase' = "decide"
  /\ UNCHANGED <<fleetVars, policy, target, noCache, status, runErr, exitCode>>

\* The policy decides; a clean pass is committed to the file cache, if that can
\* be opened and written.
Analyze ==
  /\ phase = "analyze"
  /\ decision' = Evaluate(policy, allFindings)
  /\ cacheSaved' \in {FALSE, decision' = "pass" /\ ~noCache /\ ~target.history}
  /\ phase' = "decide"
  /\ UNCHANGED <<fleetVars, policy, target, noCache, status, runErr, exitCode>>

Decide == phase = "decide" /\ GoOn("report") /\ UNCHANGED fleetVars

FinishRun ==
  /\ phase = "report"
  /\ phase' = "end"
  /\ status' = "completed"
  /\ UNCHANGED <<fleetVars, policy, target, noCache, decision, runErr, cacheSaved, exitCode>>

\* scanOutput prints the result and the process exits.
ScanOutput ==
  /\ phase = "end"
  /\ exitCode = -1
  /\ exitCode' = ExitCode(decision, runErr)
  /\ UNCHANGED <<fleetVars, phase, policy, target, noCache, status, decision, runErr, cacheSaved>>

\* Ctrl-C outside the scan phase.
CancelEarlyOrLate ==
  /\ phase # "scan"
  /\ exitCode = -1
  /\ ~canceled
  /\ canceled' = TRUE
  /\ UNCHANGED <<fleet, scanners, pc, sem, results, timings, scanErrors, allFindings, now, began,
                 outcome, pipeVars>>

\* Goroutines whose result was collected may still be handing back their slot.
LateRelease ==
  /\ phase # "scan"
  /\ exitCode = -1
  /\ \E t \in Tools : Release(t)
  /\ UNCHANGED pipeVars

Step == Start \/ Fetch \/ ScopeFails \/ Scope \/ ScanEnds \/ Analyze \/ Decide \/ FinishRun
          \/ ScanOutput

PipelineNext == Step \/ Scan \/ CancelEarlyOrLate \/ LateRelease

(***************************************************************************)
(* The process is scheduled, and so are the goroutines of the fleet under  *)
(* the fairness of ScanFleet.                                              *)
(***************************************************************************)
PipelineFairness ==
  /\ WF_vars(Step)
  /\ \A t \in Tools :
       /\ WF_vars(phase = "scan" /\ (Acquire(t) \/ GiveUp(t)) /\ UNCHANGED pipeVars)
       /\ WF_vars(phase = "scan" /\ scanCtxDone(t) /\ Finish(t) /\ UNCHANGED pipeVars)
       /\ WF_vars(phase = "scan" /\ Release(t) /\ UNCHANGED pipeVars)
  /\ WF_vars(phase = "scan" /\ Collect /\ UNCHANGED pipeVars)
  /\ WF_vars(phase = "scan" /\ Return /\ UNCHANGED pipeVars)
  /\ WF_vars(phase = "scan" /\ Tick /\ UNCHANGED pipeVars)

PipelineSpec == PipelineInit /\ [][PipelineNext]_vars /\ PipelineFairness

-----------------------------------------------------------------------------

Gate == INSTANCE FailClosedGate

(***************************************************************************)
(* The pipeline is a fail-closed gate: whatever the interleaving, the      *)
(* order of arrival, the timeouts and the cancellation, the process exits  *)
(* 0 or 2 only if every scanner of the scope ended with a report that can  *)
(* be believed and the policy says so of all the findings together.        *)
(***************************************************************************)
ImplementsGate == Gate!Spec

(***************************************************************************)
(* The git proxy, which reads the JSON report and the exit status, never   *)
(* comes to another verdict than the process: it approves exactly on exit  *)
(* 0, and a scan that failed is an error to it, not a decision.            *)
(***************************************************************************)
ProxyReadsTheVerdict ==
  exitCode # -1 =>
    LET report == JsonReport(status, decision, runErr, ~runErr /\ allFindings # <<>>)
        reply  == LocalScan({report}, exitCode)
    IN  /\ reply = Approve <=> exitCode = 0
        /\ reply = Fail <=> runErr

(***************************************************************************)
(* Only a tree that passed is recorded as scanned, and only by a scan that *)
(* read all of it: never by a history scan, never when the scan failed.    *)
(***************************************************************************)
OnlyPassesAreCached ==
  cacheSaved => /\ decision = "pass" /\ ~runErr
                /\ scanners = ScopeOf(target) /\ ~target.history
                /\ \A t \in scanners : Accepted(t, outcome[t], FALSE)

\* A scan ends with an exit status, however its containers behave.
ScanEndsEventually == <>(exitCode # -1)
=============================================================================
