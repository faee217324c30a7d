---------------------------- MODULE ScanSession ----------------------------
(***************************************************************************)
(* The process of `kuro scan` with its terminal UI (cli/cmd/scan.go): the  *)
(* session of TuiSession, whose phases are done by an adapter.  The remote *)
(* one is RemoteAdapter, request by request; of the local one only the     *)
(* outcome is kept (ScanPipeline has the rest).                            *)
(***************************************************************************)
EXTENDS RemoteAdapter, SequencesExt

VARIABLES
  adapter,   \* the one that RunScan chose
  exitCode,  \* the exit status of the process, -1 while it runs
  orch, sent, eventsCh, closed, ctx, main, ui, waiter, msg, phases, logLines

UI == INSTANCE TuiSession

processVars == <<adapter, exitCode>>
sessionVars == <<orch, sent, eventsCh, closed, ctx, main, ui, waiter, msg, phases, logLines>>
vars        == <<remoteVars, processVars, sessionVars>>

TypeOK ==
  /\ RemoteTypeOK
  /\ UI!TypeOK
  /\ adapter \in {"local", "remote"}
  /\ exitCode \in -1 .. 2

Init ==
  /\ RemoteInit
  /\ UI!Init
  /\ adapter \in {"local", "remote"}
  /\ exitCode = -1

-----------------------------------------------------------------------------

During(p) == UI!Underway /\ Last(sent).phase = p

\* Mutant: an adapter that fails ends the scan without a report.
SettleSilently ==
  IF runErr' THEN orch' = "failed" /\ UNCHANGED <<sent, eventsCh, closed, ctx, main, ui, waiter, msg, phases, logLines>>
             ELSE UI!EndPhase

\* The orchestrator reports how the call of the adapter ended.
Settle == IF runErr' THEN UI!FailPhase ELSE UI!EndPhase

\* The policy did not load.
RefusePolicy ==
  /\ sent = <<>>
  /\ FailRun
  /\ UI!FailPhase
  /\ UNCHANGED <<clock, started, serverVars, processVars>>

BeginPhase == UI!BeginPhase /\ UNCHANGED <<remoteVars, processVars>>

RemoteFetch ==
  /\ adapter = "remote"
  /\ During("fetch")
  /\ TriggerScan
  /\ Settle
  /\ UNCHANGED processVars

\* The remote adapter names no scanners: the phase is reported as skipped.
RemoteScope ==
  /\ adapter = "remote"
  /\ During("scope")
  /\ UI!EndPhase
  /\ Last(sent').status = "skip"
  /\ UNCHANGED <<remoteVars, processVars>>

\* A poll that is not the last one is no step of the session.
RemoteRun ==
  /\ adapter = "remote"
  /\ During("scan")
  /\ Poll
  /\ IF phase' = "end" THEN Settle ELSE UNCHANGED sessionVars
  /\ UNCHANGED processVars

\* The local adapter fetches, scopes and scans.
LocalFails ==
  /\ adapter = "local"
  /\ \E p \in {"fetch", "scope", "scan"} : During(p)
  /\ FailRun
  /\ UI!FailPhase
  /\ UNCHANGED <<clock, started, serverVars, processVars>>

LocalPrepares ==
  /\ adapter = "local"
  /\ During("fetch") \/ During("scope")
  /\ UI!EndPhase
  /\ Last(sent').status = "done"
  /\ UNCHANGED <<remoteVars, processVars>>

LocalRun ==
  /\ adapter = "local"
  /\ During("scan")
  /\ \E d \in {"pass", "review", "block"} : decision' = d
  /\ phase' = "end"
  /\ UI!EndPhase
  /\ UNCHANGED <<clock, started, runErr, serverVars, processVars>>

Conclude ==
  /\ \E p \in {"analyze", "decide", "report"} : During(p)
  /\ UI!EndPhase
  /\ UNCHANGED <<remoteVars, processVars>>

CloseEvents == UI!CloseEvents /\ UNCHANGED <<remoteVars, processVars>>

\* scanOutput, and the end of the process.
Exit ==
  /\ UI!Exit
  /\ exitCode' = ExitCode(decision, runErr)
  /\ UNCHANGED <<remoteVars, adapter>>

\* The deadline of the context.  The clock of a remote scan says when.
Expire ==
  /\ UI!Expire
  /\ adapter = "remote" /\ orch = "running" => clock >= ScanBudget
  /\ UNCHANGED <<remoteVars, processVars>>

Server == ServerStep /\ adapter = "remote" /\ UNCHANGED <<processVars, sessionVars>>

Remote == RemoteFetch \/ RemoteScope \/ RemoteRun
Local  == LocalPrepares \/ LocalRun \/ LocalFails

Orchestrator == RefusePolicy \/ BeginPhase \/ Remote \/ Local \/ Conclude \/ CloseEvents \/ Exit
Program      == UI!Program /\ UNCHANGED <<remoteVars, processVars>>
CtrlC        == UI!CtrlC /\ UNCHANGED <<remoteVars, processVars>>

Next == Orchestrator \/ Program \/ Server \/ CtrlC \/ Expire

(***************************************************************************)
(* Goroutines are scheduled and requests time out.  The server owes no     *)
(* progress and the user no key.                                           *)
(***************************************************************************)
Spec == Init /\ [][Next]_vars /\ WF_vars(Orchestrator) /\ WF_vars(Program)

-----------------------------------------------------------------------------

\* No report of a phase is lost on its way to the screen, whichever adapter works
\* (orchestrator.go:253-266).
NoReportLost == UI!NoReportLost

\* The screen is left on its own only when every phase is shown as finished, the
\* skipped scope of a remote scan included (model.go:105-112, 193-196).
LeavesWhenAllIsShown == UI!LeavesWhenAllIsShown

\* Ctrl-C and a completed scan end the process, also when the server never comes
\* to an end (scan.go:155-167, adapter_remote.go:59-61).
SessionEnds == UI!SessionEnds

(***************************************************************************)
(* The process is a session whose scan ends by itself: that TuiSession may *)
(* assume so of the remote adapter follows from its limits alone, also     *)
(* after Ctrl-C, which the adapter does not notice                         *)
(* (adapter_remote.go:45-63, scan.go:155-159).                             *)
(***************************************************************************)
ImplementsTuiSession == UI!Spec

(***************************************************************************)
(* Exit status 0 of a remote scan takes a scan that the server brought to  *)
(* an end and that lists nothing the policy objects to; lost, late and     *)
(* failed requests, Ctrl-C and the deadline never lead there               *)
(* (adapter_remote.go:46-57, scan.go:165-167).                             *)
(***************************************************************************)
PassTakesAFinishedScan ==
  adapter = "remote" /\ exitCode = 0 => /\ isTerminal(server)
                                        /\ Evaluate(policy, listed) = "pass"
=============================================================================
