----------------------------- MODULE TuiSession -----------------------------
(***************************************************************************)
(* `kuro scan` with its terminal UI: the goroutine of RunScan that runs    *)
(* the orchestrator and reports its phases into a buffered channel, the    *)
(* Bubble Tea program that shows them, the command of the program that     *)
(* waits for the next event, and the context the two share                 *)
(* (cli/cmd/scan.go, cli/internal/tui, orchestrator.go:reportPhase).       *)
(***************************************************************************)
EXTENDS Sequences, SequencesExt, Naturals

Phases == <<"fetch", "scope", "scan", "analyze", "decide", "report">>
Phase  == ToSet(Phases)
Event  == [phase : Phase, status : {"running", "done", "skip", "fail"}]

\* What the waiting command hands to the program: an event, or nil.
Nil   == [phase |-> "report", status |-> "nil"]
NoMsg == [phase |-> "report", status |-> "none"]

\* The room in eventsCh.
EventCap == 64

VARIABLES
  orch,      \* Orchestrator.Run: running, or how it ended
  sent,      \* the phase reports it has made
  eventsCh,  \* the channel of events
  closed,    \* the channel is closed
  ctx,       \* the shared context: live, or why it is over
  main,      \* RunScan: scanning, waiting for the UI, exited
  ui,        \* the program: starting, up, gone (its Run returned)
  waiter,    \* the command waitForEvent is blocked
  msg,       \* the message it has for the program
  phases,    \* Model.phases: the last status of each phase
  logLines   \* Model.logLines

scanVars == <<orch, sent, eventsCh, closed, main>>
uiVars   == <<ui, waiter, msg, phases, logLines>>
vars     == <<scanVars, ctx, uiVars>>

TypeOK ==
  /\ orch \in {"running", "completed", "failed"}
  /\ sent \in Seq(Event)
  /\ eventsCh \in Seq(Event)
  /\ closed \in BOOLEAN
  /\ ctx \in {"live", "interrupted", "expired"}
  /\ main \in {"scanning", "waiting", "exited"}
  /\ ui \in {"starting", "up", "gone"}
  /\ waiter \in BOOLEAN
  /\ msg \in Event \cup {Nil, NoMsg}
  /\ phases \in [Phase -> {"pending", "running", "done", "skip", "fail"}]
  /\ logLines \in Seq(Event)

Init ==
  /\ orch = "running"
  /\ sent = <<>>
  /\ eventsCh = <<>>
  /\ closed = FALSE
  /\ ctx = "live"
  /\ main = "scanning"
  /\ ui = "starting"
  /\ waiter = FALSE
  /\ msg = NoMsg
  /\ phases = [p \in Phase |-> "pending"]
  /\ logLines = <<>>

-----------------------------------------------------------------------------

\* Mutant: a channel without a buffer.
OfferToReader(e) == eventsCh' = IF waiter /\ eventsCh = <<>> THEN <<e>> ELSE eventsCh

\* The send of reportPhase, which drops the event rather than block the scan.
Offer(e) == eventsCh' = IF Len(eventsCh) < EventCap THEN Append(eventsCh, e) ELSE eventsCh

ReportPhase(phase, status) ==
  LET e == [phase |-> phase, status |-> status]
  IN  sent' = Append(sent, e) /\ Offer(e)

\* The phase that was last reported as begun, 0 when none was.
Current  == IF sent = <<>> THEN 0 ELSE CHOOSE k \in DOMAIN Phases : Phases[k] = Last(sent).phase
Underway == sent # <<>> /\ Last(sent).status = "running"

BeginPhase ==
  /\ orch = "running"
  /\ ~Underway
  /\ ReportPhase(Phases[Current + 1], "running")
  /\ UNCHANGED <<orch, closed, main, ctx, uiVars>>

\* Only Scope has an outcome that is reported as a skip.
EndPhase ==
  /\ orch = "running"
  /\ Underway
  /\ \/ ReportPhase(Phases[Current], "done")
     \/ Phases[Current] = "scope" /\ ReportPhase("scope", "skip")
  /\ orch' = IF Phases[Current] = "report" THEN "completed" ELSE "running"
  /\ UNCHANGED <<closed, main, ctx, uiVars>>

\* Fetch, Scope and Scan can fail.  A policy that did not load fails the scan
\* before any phase, without a report.
FailPhase ==
  /\ orch = "running"
  /\ \/ /\ Underway
        /\ Phases[Current] \in {"fetch", "scope", "scan"}
        /\ ReportPhase(Phases[Current], "fail")
     \/ /\ sent = <<>>
        /\ UNCHANGED <<sent, eventsCh>>
  /\ orch' = "failed"
  /\ UNCHANGED <<closed, main, ctx, uiVars>>

\* RunScan closes the channel and waits for the UI.
CloseEvents ==
  /\ main = "scanning"
  /\ orch # "running"
  /\ closed' = TRUE
  /\ main' = "waiting"
  /\ UNCHANGED <<orch, sent, eventsCh, ctx, uiVars>>

\* <-tuiDone, the output, and the end of the process.
Exit ==
  /\ main = "waiting"
  /\ ui = "gone"
  /\ main' = "exited"
  /\ UNCHANGED <<orch, sent, eventsCh, closed, ctx, uiVars>>

-----------------------------------------------------------------------------

\* The program starts and runs the command of Init, or has no terminal.
StartUI ==
  /\ ui = "starting"
  /\ \/ ui' = "up" /\ waiter' = TRUE
     \/ ui' = "gone" /\ UNCHANGED waiter
  /\ UNCHANGED <<scanVars, ctx, msg, phases, logLines>>

\* waitForEvent.  When several cases of its select are ready, any may be taken.
ReceiveEvent ==
  /\ waiter
  /\ eventsCh # <<>>
  /\ msg' = Head(eventsCh)
  /\ eventsCh' = Tail(eventsCh)
  /\ waiter' = FALSE
  /\ UNCHANGED <<orch, sent, closed, main, ctx, ui, phases, logLines>>

\* Mutant: a receive that takes the zero value of a closed channel for an event.
ReceiveZero ==
  /\ waiter
  /\ (closed /\ eventsCh = <<>>) \/ ctx # "live"
  /\ msg' = [phase |-> "", status |-> ""]
  /\ waiter' = FALSE
  /\ UNCHANGED <<scanVars, ctx, ui, phases, logLines>>

ReceiveNothing ==
  /\ waiter
  /\ (closed /\ eventsCh = <<>>) \/ ctx # "live"
  /\ msg' = Nil
  /\ waiter' = FALSE
  /\ UNCHANGED <<scanVars, ctx, ui, phases, logLines>>

\* Mutant: the program quits at the end of a phase of any name.
QuitsAtAnyEnd(e) == e.status = "done"

QuitsAt(e) == e.phase = "report" /\ e.status = "done"

\* Update with an event: shown, and the next one is waited for unless it was the
\* last one of a scan that completed.
UpdateEvent ==
  /\ ui = "up"
  /\ msg \in Event
  /\ phases' = [phases EXCEPT ![msg.phase] = msg.status]
  /\ logLines' = Append(logLines, msg)
  /\ ui' = IF QuitsAt(msg) THEN "gone" ELSE "up"
  /\ waiter' = ~QuitsAt(msg)
  /\ msg' = NoMsg
  /\ UNCHANGED <<scanVars, ctx>>

\* The event loop of Bubble Tea skips a nil message: the case of Update for it,
\* which would quit, is not reached.
SkipNil ==
  /\ ui = "up"
  /\ msg = Nil
  /\ msg' = NoMsg
  /\ UNCHANGED <<scanVars, ctx, ui, waiter, phases, logLines>>

\* Mutant: Ctrl-C stops the scan and leaves the program up.
CtrlCKeepsUI ==
  /\ ui = "up"
  /\ ctx' = IF ctx = "live" THEN "interrupted" ELSE ctx
  /\ UNCHANGED <<scanVars, ui, waiter, msg, phases, logLines>>

\* Ctrl-C cancels the context and quits the program.
CtrlC ==
  /\ ui = "up"
  /\ ctx' = IF ctx = "live" THEN "interrupted" ELSE ctx
  /\ ui' = "gone"
  /\ UNCHANGED <<scanVars, waiter, msg, phases, logLines>>

\* The 35 minutes of RunScan are over.
Expire ==
  /\ ctx = "live"
  /\ main # "exited"
  /\ ctx' = "expired"
  /\ UNCHANGED <<scanVars, uiVars>>

Orchestrator == BeginPhase \/ EndPhase \/ FailPhase \/ CloseEvents \/ Exit
Program      == StartUI \/ ReceiveEvent \/ ReceiveNothing \/ UpdateEvent \/ SkipNil

Next == Orchestrator \/ Program \/ CtrlC \/ Expire

(***************************************************************************)
(* Goroutines are scheduled.  The scan ends by itself (ScanPipeline), the  *)
(* user owes the program no key.                                           *)
(***************************************************************************)
Fairness == WF_vars(Orchestrator) /\ WF_vars(Program)

Spec == Init /\ [][Next]_vars /\ Fairness

-----------------------------------------------------------------------------

(***************************************************************************)
(* No report of a phase is dropped, repeated or reordered on its way to    *)
(* the screen, although reportPhase drops what does not fit                *)
(* (orchestrator.go:253-266): what was reported is what was shown, what is *)
(* on its way, and what is in the channel.                                 *)
(***************************************************************************)
NoReportLost ==
  sent = logLines \o (IF msg \in Event THEN <<msg>> ELSE <<>>) \o eventsCh

(***************************************************************************)
(* A UI that came up leaves the screen, while the context is live, only    *)
(* when the scan has completed and every phase is shown as finished        *)
(* (model.go:105-112, 193-196).                                            *)
(***************************************************************************)
LeavesWhenAllIsShown ==
  (ui = "gone" /\ logLines # <<>> /\ ctx = "live") =>
    /\ orch = "completed"
    /\ \A p \in Phase : phases[p] \in {"done", "skip"}

(***************************************************************************)
(* Ctrl-C and the end of a scan that completed both end the process,       *)
(* unless the context expires on the way and the waiting command takes     *)
(* that for the end.  Of a scan that failed the same cannot be said: the   *)
(* UI then stays up until Ctrl-C, and RunScan waits (scan.go:158-159).     *)
(***************************************************************************)
SessionEnds ==
  orch = "completed" \/ ctx = "interrupted" ~> main = "exited" \/ ctx = "expired"
=============================================================================
