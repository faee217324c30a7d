------------------------- MODULE ScanSessionProofs -------------------------
(***************************************************************************)
(* The process of `kuro scan` for every policy, every list of findings and *)
(* every timeout that fits the budget: what the screen shows, the deadline *)
(* of a remote scan and what exit status 0 takes.                          *)
(***************************************************************************)
EXTENDS ScanSession, SequenceTheorems, TLAPS

\* The steps of a session, without their fairness.
SessionSteps == UI!Init /\ [][UI!Next]_sessionVars

(***************************************************************************)
(* Every step of the process is a step of the session, or changes nothing  *)
(* of it, as a poll that is not the last one does.                         *)
(***************************************************************************)
LEMMA StepIsSessionStep == [Next]_vars => [UI!Next]_sessionVars
<1> SUFFICES ASSUME [Next]_vars PROVE [UI!Next]_sessionVars
  OBVIOUS
<1>1. CASE RefusePolicy
  BY <1>1, Zenon DEF RefusePolicy, UI!Next, UI!Orchestrator
<1>2. CASE BeginPhase
  BY <1>2, Zenon DEF BeginPhase, UI!Next, UI!Orchestrator
<1>3. CASE RemoteFetch
  BY <1>3, Zenon DEF RemoteFetch, Settle, UI!Next, UI!Orchestrator
<1>4. CASE RemoteScope
  BY <1>4, Zenon DEF RemoteScope, UI!Next, UI!Orchestrator
<1>5. CASE RemoteRun
  BY <1>5, Zenon DEF RemoteRun, Settle, UI!Next, UI!Orchestrator
<1>6. CASE Local
  BY <1>6, Zenon DEF Local, LocalPrepares, LocalRun, LocalFails, UI!Next, UI!Orchestrator
<1>7. CASE Conclude
  BY <1>7, Zenon DEF Conclude, UI!Next, UI!Orchestrator
<1>8. CASE CloseEvents \/ Exit \/ Program \/ CtrlC \/ Expire
  BY <1>8, Zenon DEF CloseEvents, Exit, Program, CtrlC, Expire, UI!Next, UI!Orchestrator
<1>9. CASE Server
  BY <1>9, Zenon DEF Server
<1>10. CASE UNCHANGED vars
  BY <1>10 DEF vars
<1> QED BY <1>1, <1>2, <1>3, <1>4, <1>5, <1>6, <1>7, <1>8, <1>9, <1>10, Zenon
    DEF Next, Orchestrator, Remote

(***************************************************************************)
(* The process does nothing that a session may not do: the part of         *)
(* ImplementsTuiSession that is no fairness, for every policy and timeout  *)
(* (scan.go:137-170).                                                      *)
(***************************************************************************)
THEOREM ProcessIsASession == Spec => SessionSteps
<1>1. Init => UI!Init
  BY DEF Init
<1> QED BY <1>1, StepIsSessionStep, PTL DEF Spec, SessionSteps

-----------------------------------------------------------------------------

SessionTypes ==
  /\ orch \in {"running", "completed", "failed"}
  /\ sent \in Seq(UI!Event)
  /\ eventsCh \in Seq(UI!Event)
  /\ logLines \in Seq(UI!Event)
  /\ msg \in UI!Event \cup {UI!Nil, UI!NoMsg}
  /\ phases \in [UI!Phase -> {"pending", "running", "done", "skip", "fail"}]
  /\ main \in {"scanning", "waiting", "exited"}
  /\ ui \in {"starting", "up", "gone"}
  /\ ctx \in {"live", "interrupted", "expired"}

\* The reports come in pairs, one pair for each phase.
InPairs ==
  /\ Len(sent) \in 0 .. 12
  /\ \A k \in 1 .. 6 :
       /\ 2 * k - 1 <= Len(sent) => sent[2 * k - 1] = [phase |-> UI!Phases[k], status |-> "running"]
       /\ 2 * k <= Len(sent) => /\ sent[2 * k].phase = UI!Phases[k]
                                /\ \/ sent[2 * k].status \in {"done", "skip"}
                                   \/ sent[2 * k].status = "fail" /\ orch = "failed"
  /\ orch = "running" => Len(sent) < 12
  /\ orch = "failed" => Len(sent) <= 6

\* What is shown of a phase is what was reported of it last.
ShownAsLogged ==
  \A k \in 1 .. 6 : phases[UI!Phases[k]] =
    IF Len(logLines) < 2 * k - 1 THEN "pending"
    ELSE IF Len(logLines) = 2 * k - 1 THEN "running"
    ELSE logLines[2 * k].status

\* The UI starts with an empty log and leaves at the last report.
GoneAtTheEnd ==
  /\ ui = "starting" => logLines = <<>>
  /\ ui = "gone" /\ logLines # <<>> /\ ctx = "live" => Len(logLines) = 12

\* A command that waits has no message yet, and there is one command at a time.
OneCommand ==
  /\ waiter \in BOOLEAN
  /\ waiter => msg = UI!NoMsg /\ ui # "starting"
  /\ ui = "starting" => msg = UI!NoMsg

SessionInv ==
  SessionTypes /\ InPairs /\ UI!NoReportLost /\ ShownAsLogged /\ GoneAtTheEnd /\ OneCommand

LEMMA PhaseNames ==
  /\ DOMAIN UI!Phases = 1 .. 6
  /\ UI!Phase = {"fetch", "scope", "scan", "analyze", "decide", "report"}
  /\ UI!Phases[1] = "fetch" /\ UI!Phases[2] = "scope" /\ UI!Phases[3] = "scan"
  /\ UI!Phases[4] = "analyze" /\ UI!Phases[5] = "decide" /\ UI!Phases[6] = "report"
<1>1. UI!Phase = {UI!Phases[k] : k \in DOMAIN UI!Phases}
  BY Zenon DEF UI!Phase, UI!ToSet
<1>2. DOMAIN UI!Phases = 1 .. 6
  BY DEF UI!Phases
<1>3. /\ UI!Phases[1] = "fetch" /\ UI!Phases[2] = "scope" /\ UI!Phases[3] = "scan"
      /\ UI!Phases[4] = "analyze" /\ UI!Phases[5] = "decide" /\ UI!Phases[6] = "report"
  BY DEF UI!Phases
<1>4. UI!Phase = {"fetch", "scope", "scan", "analyze", "decide", "report"}
  BY <1>1, <1>2, <1>3
<1> QED BY <1>2, <1>3, <1>4, Zenon

LEMMA PhaseIndex ==
  ASSUME NEW k \in 1 .. 6
  PROVE  UI!Phases[k] \in UI!Phase /\ \A j \in 1 .. 6 : UI!Phases[j] = UI!Phases[k] => j = k
BY PhaseNames

\* The last report says which phase it is, and whether that is underway.
LEMMA Position ==
  ASSUME SessionTypes, InPairs, sent # <<>>
  PROVE  \E k \in 1 .. 6 : /\ UI!Current = k
                           /\ \/ Len(sent) = 2 * k - 1 /\ UI!Underway
                              \/ Len(sent) = 2 * k /\ ~UI!Underway
<1>1. Len(sent) \in 1 .. 12 /\ UI!Last(sent) = sent[Len(sent)]
  BY DEF SessionTypes, InPairs, UI!Last
<1>2. PICK k \in 1 .. 6 : Len(sent) = 2 * k - 1 \/ Len(sent) = 2 * k
  <2> DEFINE n == Len(sent)
             k == (n + 1) \div 2
  <2>1. n \in 1 .. 12
    BY <1>1
  <2> HIDE DEF n
  <2>2. k \in 1 .. 6 /\ (n = 2 * k - 1 \/ n = 2 * k)
    BY <2>1
  <2>3. \E j \in 1 .. 6 : n = 2 * j - 1 \/ n = 2 * j
    BY <2>2, Zenon
  <2> QED BY <2>3 DEF n
<1>3. UI!Last(sent).phase = UI!Phases[k]
  <2>1. CASE Len(sent) = 2 * k - 1
    BY <1>1, <2>1 DEF InPairs
  <2>2. CASE Len(sent) = 2 * k
    <3>1. sent[2 * k].phase = UI!Phases[k]
      BY <1>1, <2>2 DEF InPairs
    <3> QED BY <1>1, <2>2, <3>1
  <2> QED BY <1>2, <2>1, <2>2
<1>4. UI!Current = k
  <2>1. UI!Current = CHOOSE j \in 1 .. 6 : UI!Phases[j] = UI!Phases[k]
    BY <1>3, PhaseNames, Zenon DEF UI!Current
  <2> QED BY <2>1, PhaseIndex
<1>5. CASE Len(sent) = 2 * k - 1
  <2>1. UI!Last(sent).status = "running"
    BY <1>1, <1>5 DEF InPairs
  <2> QED BY <1>4, <1>5, <2>1 DEF UI!Underway
<1>6. CASE Len(sent) = 2 * k
  <2>1. UI!Last(sent).status # "running"
    BY <1>1, <1>6 DEF InPairs
  <2> QED BY <1>4, <1>6, <2>1 DEF UI!Underway
<1> QED BY <1>2, <1>5, <1>6

-----------------------------------------------------------------------------

\* What left the channel: shown, or on its way.
Left == logLines \o (IF msg \in UI!Event THEN <<msg>> ELSE <<>>)

LEMMA LeftType ==
  ASSUME SessionTypes
  PROVE  /\ Left \in Seq(UI!Event)
         /\ UI!NoReportLost <=> sent = Left \o eventsCh
         /\ UI!NoReportLost => Len(sent) = Len(Left) + Len(eventsCh)
<1>1. Left \in Seq(UI!Event)
  BY DEF SessionTypes, Left
<1>2. UI!NoReportLost <=> sent = Left \o eventsCh
  BY Zenon DEF UI!NoReportLost, Left
<1> QED BY <1>1, <1>2 DEF SessionTypes

(***************************************************************************)
(* The channel has room for every report of a scan, so that the send of    *)
(* reportPhase never drops one (orchestrator.go:253-266, scan.go:141).     *)
(***************************************************************************)
LEMMA NothingIsDropped ==
  ASSUME SessionTypes, InPairs, UI!NoReportLost, NEW e \in UI!Event,
         sent' = Append(sent, e), UI!Offer(e), UNCHANGED <<msg, logLines>>
  PROVE  /\ eventsCh' \in Seq(UI!Event) /\ sent' \in Seq(UI!Event)
         /\ UI!NoReportLost'
<1>1. Len(eventsCh) < UI!EventCap
  <2>1. Len(Left) \in Nat /\ Len(eventsCh) \in Nat
    BY LeftType DEF SessionTypes
  <2>2. Len(sent) = Len(Left) + Len(eventsCh) /\ Len(sent) \in 0 .. 12
    BY LeftType DEF InPairs
  <2> QED BY <2>1, <2>2 DEF UI!EventCap
<1>2. eventsCh' = Append(eventsCh, e)
  BY <1>1 DEF UI!Offer
<1>3. eventsCh' \in Seq(UI!Event) /\ sent' \in Seq(UI!Event)
  BY <1>2 DEF SessionTypes
<1>4. Left' = Left
  BY DEF Left
<1>5. sent' = Left \o eventsCh'
  <2>1. Left \in Seq(UI!Event) /\ eventsCh \in Seq(UI!Event) /\ sent = Left \o eventsCh
    BY LeftType DEF SessionTypes
  <2>2. Left \o eventsCh \in Seq(UI!Event)
    BY <2>1, ConcatProperties, Zenon
  <2>3. <<e>> \in Seq(UI!Event)
    OBVIOUS
  <2>4. Append(Left \o eventsCh, e) = (Left \o eventsCh) \o <<e>>
    BY <2>2, AppendIsConcat, Zenon
  <2>5. Append(eventsCh, e) = eventsCh \o <<e>>
    BY <2>1, AppendIsConcat, Zenon
  <2>6. (Left \o eventsCh) \o <<e>> = Left \o (eventsCh \o <<e>>)
    BY <2>1, <2>3, ConcatAssociative
  <2> QED BY <1>2, <2>1, <2>4, <2>5, <2>6, Zenon
<1>6. UI!NoReportLost'
  BY <1>4, <1>5 DEF UI!NoReportLost, Left
<1> QED BY <1>3, <1>6

LEMMA BeginPreserves ==
  ASSUME SessionInv, UI!BeginPhase
  PROVE  SessionInv'
<1> USE DEF SessionInv
<1>1. PICK k \in 0 .. 5 : UI!Current = k /\ Len(sent) = 2 * k
  <2>1. CASE sent = <<>>
    <3>1. UI!Current = 0 /\ Len(sent) = 2 * 0
      BY <2>1 DEF UI!Current
    <3> QED BY <3>1
  <2>2. CASE sent # <<>>
    <3>1. ~UI!Underway /\ Len(sent) < 12
      BY DEF UI!BeginPhase, InPairs
    <3>2. PICK k \in 1 .. 6 : UI!Current = k /\ Len(sent) = 2 * k
      BY <2>2, <3>1, Position, Zenon
    <3> QED BY <3>1, <3>2
  <2> QED BY <2>1, <2>2
<1> DEFINE e == [phase |-> UI!Phases[k + 1], status |-> "running"]
<1>2. e \in UI!Event /\ k + 1 \in 1 .. 6
  BY PhaseIndex DEF UI!Event
<1>3. /\ sent' = Append(sent, e) /\ UI!Offer(e)
      /\ UNCHANGED <<orch, main, ctx, ui, waiter, msg, phases, logLines>>
  BY <1>1 DEF UI!BeginPhase, UI!ReportPhase, UI!uiVars
<1>4. eventsCh' \in Seq(UI!Event) /\ sent' \in Seq(UI!Event) /\ UI!NoReportLost'
  BY <1>2, <1>3, NothingIsDropped
<1>5. SessionTypes'
  BY <1>3, <1>4 DEF SessionTypes
<1>6. InPairs'
  <2>1. Len(sent') = 2 * k + 1 /\ sent'[2 * k + 1] = e /\ \A i \in 1 .. 2 * k : sent'[i] = sent[i]
    BY <1>1, <1>3 DEF SessionTypes
  <2>2. ASSUME NEW j \in 1 .. 6, 2 * j - 1 <= Len(sent')
        PROVE  sent'[2 * j - 1] = [phase |-> UI!Phases[j], status |-> "running"]
    <3>1. CASE j = k + 1
      BY <2>1, <3>1
    <3>2. CASE j # k + 1
      <4>1. 2 * j - 1 <= 2 * k + 1
        BY <2>1, <2>2, Zenon
      <4>2. j <= k
        BY <3>2, <4>1
      <4>3. 2 * j - 1 \in 1 .. 2 * k /\ 2 * j - 1 <= Len(sent)
        BY <1>1, <4>2
      <4> QED BY <2>1, <4>3 DEF InPairs
    <3> QED BY <3>1, <3>2
  <2>3. ASSUME NEW j \in 1 .. 6, 2 * j <= Len(sent')
        PROVE  /\ sent'[2 * j].phase = UI!Phases[j]
               /\ \/ sent'[2 * j].status \in {"done", "skip"}
                  \/ sent'[2 * j].status = "fail" /\ orch' = "failed"
    <3>1. 2 * j \in 1 .. 2 * k /\ 2 * j <= Len(sent)
      BY <1>1, <2>1, <2>3
    <3> QED BY <1>3, <2>1, <3>1 DEF InPairs
  <2>4. orch' = "running"
    BY <1>3 DEF UI!BeginPhase
  <2> QED BY <2>1, <2>2, <2>3, <2>4 DEF InPairs
<1>7. ShownAsLogged' /\ GoneAtTheEnd' /\ OneCommand'
  BY <1>3 DEF ShownAsLogged, GoneAtTheEnd, OneCommand
<1> QED BY <1>4, <1>5, <1>6, <1>7

\* The second report of a phase, whichever way the phase ended.
LEMMA ReportPreserves ==
  ASSUME SessionInv, orch = "running",
         NEW k \in 1 .. 6, Len(sent) = 2 * k - 1,
         NEW st \in {"done", "skip", "fail"},
         sent' = Append(sent, [phase |-> UI!Phases[k], status |-> st]),
         UI!Offer([phase |-> UI!Phases[k], status |-> st]),
         UNCHANGED <<main, ctx, ui, waiter, msg, phases, logLines>>,
         IF st = "fail" THEN orch' = "failed" /\ k \in 1 .. 3
                        ELSE orch' = IF k = 6 THEN "completed" ELSE "running"
  PROVE  SessionInv'
<1> USE DEF SessionInv
<1> DEFINE e == [phase |-> UI!Phases[k], status |-> st]
<1>1. e \in UI!Event
  BY PhaseIndex DEF UI!Event
<1>2. eventsCh' \in Seq(UI!Event) /\ sent' \in Seq(UI!Event) /\ UI!NoReportLost'
  BY <1>1, NothingIsDropped
<1>3. SessionTypes'
  BY <1>2 DEF SessionTypes
<1>4. InPairs'
  <2>1. Len(sent') = 2 * k /\ sent'[2 * k] = e /\ \A i \in 1 .. 2 * k - 1 : sent'[i] = sent[i]
    BY DEF SessionTypes
  <2>2. ASSUME NEW j \in 1 .. 6, 2 * j - 1 <= Len(sent')
        PROVE  sent'[2 * j - 1] = [phase |-> UI!Phases[j], status |-> "running"]
    <3>1. 2 * j - 1 \in 1 .. 2 * k - 1 /\ 2 * j - 1 <= Len(sent)
      BY <2>1, <2>2
    <3> QED BY <2>1, <3>1 DEF InPairs
  <2>3. ASSUME NEW j \in 1 .. 6, 2 * j <= Len(sent')
        PROVE  /\ sent'[2 * j].phase = UI!Phases[j]
               /\ \/ sent'[2 * j].status \in {"done", "skip"}
                  \/ sent'[2 * j].status = "fail" /\ orch' = "failed"
    <3>1. CASE j = k
      BY <2>1, <3>1
    <3>2. CASE j # k
      <4>1. 2 * j <= 2 * k
        BY <2>1, <2>3, Zenon
      <4>2. 2 * j \in 1 .. 2 * k - 1 /\ 2 * j <= Len(sent)
        BY <3>2, <4>1
      <4>3. sent[2 * j].phase = UI!Phases[j] /\ sent[2 * j].status \in {"done", "skip"}
        BY <4>2 DEF InPairs
      <4> QED BY <2>1, <4>2, <4>3
    <3> QED BY <3>1, <3>2
  <2>4. Len(sent') \in 0 .. 12 /\ (orch' = "running" => Len(sent') < 12)
                               /\ (orch' = "failed" => Len(sent') <= 6)
    BY <2>1
  <2> QED BY <2>2, <2>3, <2>4 DEF InPairs
<1>5. ShownAsLogged' /\ GoneAtTheEnd' /\ OneCommand'
  BY DEF ShownAsLogged, GoneAtTheEnd, OneCommand
<1> QED BY <1>2, <1>3, <1>4, <1>5

LEMMA EndPreserves ==
  ASSUME SessionInv, UI!EndPhase
  PROVE  SessionInv'
<1>1. orch = "running" /\ UI!Underway /\ sent # <<>>
  BY DEF UI!EndPhase, UI!Underway
<1>2. PICK k \in 1 .. 6 : UI!Current = k /\ Len(sent) = 2 * k - 1
  BY <1>1, Position, Zenon DEF SessionInv
<1>3. PICK st \in {"done", "skip"} : /\ sent' = Append(sent, [phase |-> UI!Phases[k], status |-> st])
                                     /\ UI!Offer([phase |-> UI!Phases[k], status |-> st])
  BY <1>2 DEF UI!EndPhase, UI!ReportPhase
<1>4. /\ UNCHANGED <<main, ctx, ui, waiter, msg, phases, logLines>>
      /\ orch' = IF k = 6 THEN "completed" ELSE "running"
  BY <1>2, PhaseIndex, PhaseNames DEF UI!EndPhase, UI!uiVars
<1> QED BY <1>1, <1>2, <1>3, <1>4, ReportPreserves

LEMMA FailPreserves ==
  ASSUME SessionInv, UI!FailPhase
  PROVE  SessionInv'
<1>1. orch = "running" /\ orch' = "failed" /\ UNCHANGED <<main, ctx, ui, waiter, msg, phases, logLines>>
  BY DEF UI!FailPhase, UI!uiVars
<1>2. CASE sent = <<>> /\ UNCHANGED <<sent, eventsCh>>
  <2>1. SessionTypes' /\ InPairs'
    BY <1>1, <1>2 DEF SessionInv, SessionTypes, InPairs
  <2>2. UI!NoReportLost' /\ ShownAsLogged' /\ GoneAtTheEnd' /\ OneCommand'
    BY <1>1, <1>2 DEF SessionInv, UI!NoReportLost, ShownAsLogged, GoneAtTheEnd, OneCommand
  <2> QED BY <2>1, <2>2 DEF SessionInv
<1>3. CASE /\ UI!Underway /\ UI!Phases[UI!Current] \in {"fetch", "scope", "scan"}
           /\ UI!ReportPhase(UI!Phases[UI!Current], "fail")
  <2>1. sent # <<>>
    BY <1>3 DEF UI!Underway
  <2>2. PICK k \in 1 .. 6 : UI!Current = k /\ Len(sent) = 2 * k - 1
    BY <1>3, <2>1, Position, Zenon DEF SessionInv
  <2>3. k \in 1 .. 3
    BY <1>3, <2>2, PhaseNames
  <2>4. /\ sent' = Append(sent, [phase |-> UI!Phases[k], status |-> "fail"])
        /\ UI!Offer([phase |-> UI!Phases[k], status |-> "fail"])
    BY <1>3, <2>2 DEF UI!ReportPhase
  <2> QED BY <1>1, <2>2, <2>3, <2>4, ReportPreserves
<1> QED BY <1>2, <1>3 DEF UI!FailPhase

-----------------------------------------------------------------------------

\* The waiting command takes the oldest event, or finds that there will be none.
LEMMA ReceivePreserves ==
  ASSUME SessionInv, UI!ReceiveEvent \/ UI!ReceiveNothing
  PROVE  SessionInv'
<1>1. UI!Nil \notin UI!Event /\ UI!NoMsg \notin UI!Event
  BY DEF UI!Nil, UI!NoMsg, UI!Event
<1>2. msg = UI!NoMsg
  BY DEF UI!ReceiveEvent, UI!ReceiveNothing, SessionInv, OneCommand
<1>3. CASE UI!ReceiveEvent
  <2>1. /\ eventsCh # <<>> /\ msg' = Head(eventsCh) /\ eventsCh' = Tail(eventsCh)
        /\ waiter' = FALSE /\ ui # "starting"
        /\ UNCHANGED <<orch, sent, main, ctx, ui, phases, logLines>>
    BY <1>3 DEF UI!ReceiveEvent, SessionInv, OneCommand
  <2>2. SessionTypes' /\ msg' \in UI!Event
    BY <2>1 DEF SessionInv, SessionTypes
  <2>3. eventsCh = <<msg'>> \o eventsCh'
    BY <2>1 DEF SessionInv, SessionTypes
  <2>4. sent = logLines \o eventsCh
    BY <1>1, <1>2 DEF SessionInv, SessionTypes, UI!NoReportLost
  <2>5. sent' = logLines' \o <<msg'>> \o eventsCh'
    BY <2>1, <2>2, <2>3, <2>4 DEF SessionInv, SessionTypes
  <2>6. UI!NoReportLost'
    BY <2>2, <2>5 DEF UI!NoReportLost
  <2>7. InPairs' /\ ShownAsLogged' /\ GoneAtTheEnd' /\ OneCommand'
    BY <2>1 DEF SessionInv, InPairs, ShownAsLogged, GoneAtTheEnd, OneCommand
  <2> QED BY <2>2, <2>6, <2>7 DEF SessionInv
<1>4. CASE UI!ReceiveNothing
  <2>1. /\ msg' = UI!Nil /\ waiter' = FALSE /\ ui # "starting"
        /\ UNCHANGED <<orch, sent, eventsCh, main, ctx, ui, phases, logLines>>
    BY <1>4 DEF UI!ReceiveNothing, UI!scanVars, SessionInv, OneCommand
  <2>2. SessionTypes' /\ InPairs' /\ ShownAsLogged' /\ GoneAtTheEnd' /\ OneCommand'
    BY <2>1 DEF SessionInv, SessionTypes, InPairs, ShownAsLogged, GoneAtTheEnd, OneCommand
  <2>3. UI!NoReportLost'
    BY <1>1, <1>2, <2>1 DEF SessionInv, UI!NoReportLost
  <2> QED BY <2>2, <2>3 DEF SessionInv
<1> QED BY <1>3, <1>4

\* The program shows an event; after the last one it leaves.
LEMMA UpdatePreserves ==
  ASSUME SessionInv, UI!UpdateEvent
  PROVE  SessionInv'
<1> DEFINE n == Len(logLines) + 1
<1>1. UI!Nil \notin UI!Event /\ UI!NoMsg \notin UI!Event
  BY DEF UI!Nil, UI!NoMsg, UI!Event
<1>2. /\ msg \in UI!Event /\ ui = "up"
      /\ phases' = [phases EXCEPT ![msg.phase] = msg.status]
      /\ logLines' = Append(logLines, msg)
      /\ ui' = IF UI!QuitsAt(msg) THEN "gone" ELSE "up"
      /\ waiter' = ~UI!QuitsAt(msg)
      /\ msg' = UI!NoMsg
      /\ UNCHANGED <<orch, sent, eventsCh, main, ctx>>
  BY DEF UI!UpdateEvent, UI!scanVars
<1>3. sent = logLines \o <<msg>> \o eventsCh /\ logLines \in Seq(UI!Event)
      /\ sent \in Seq(UI!Event) /\ eventsCh \in Seq(UI!Event)
  BY <1>2 DEF SessionInv, SessionTypes, UI!NoReportLost
<1>4. n \in 1 .. Len(sent) /\ sent[n] = msg /\ Len(sent) \in 0 .. 12
  BY <1>2, <1>3 DEF SessionInv, InPairs
<1>5. SessionTypes' /\ InPairs' /\ OneCommand'
  <2>1. SessionTypes'
    BY <1>2 DEF SessionInv, SessionTypes, UI!Event
  <2>2. InPairs'
    BY <1>2 DEF SessionInv, InPairs
  <2>3. OneCommand'
    BY <1>2 DEF OneCommand, UI!QuitsAt
  <2> QED BY <2>1, <2>2, <2>3
<1>6. UI!NoReportLost'
  <2>1. sent' = logLines' \o <<>> \o eventsCh'
    BY <1>2, <1>3
  <2> QED BY <1>1, <1>2, <2>1 DEF UI!NoReportLost
<1>7. PICK k \in 1 .. 6 : n = 2 * k - 1 \/ n = 2 * k
  <2> DEFINE i == (n + 1) \div 2
  <2>1. i \in 1 .. 6 /\ (n = 2 * i - 1 \/ n = 2 * i)
    BY <1>4
  <2> QED BY <2>1, Zenon
<1>8. /\ msg.phase = UI!Phases[k]
      /\ n = 2 * k - 1 => msg.status = "running"
      /\ n = 2 * k => msg.status \in {"done", "skip", "fail"}
  <2>1. CASE n = 2 * k - 1
    BY <1>4, <2>1 DEF SessionInv, InPairs
  <2>2. CASE n = 2 * k
    BY <1>4, <2>2 DEF SessionInv, InPairs
  <2> QED BY <1>7, <2>1, <2>2
<1>9. Len(logLines') = n /\ logLines'[n] = msg /\ \A i \in 1 .. n - 1 : logLines'[i] = logLines[i]
  BY <1>2, <1>3
<1>10. ShownAsLogged'
  <2> SUFFICES ASSUME NEW j \in 1 .. 6
               PROVE  phases'[UI!Phases[j]] =
                        IF n < 2 * j - 1 THEN "pending"
                        ELSE IF n = 2 * j - 1 THEN "running"
                        ELSE logLines'[2 * j].status
    BY <1>9 DEF ShownAsLogged
  <2>1. CASE j = k
    <3>1. phases'[UI!Phases[k]] = msg.status
      BY <1>2, <1>8, PhaseIndex DEF SessionInv, SessionTypes
    <3> QED BY <1>7, <1>8, <1>9, <2>1, <3>1
  <2>2. CASE j # k
    <3>1. phases'[UI!Phases[j]] = phases[UI!Phases[j]]
      BY <1>2, <1>8, <2>2, PhaseIndex DEF SessionInv, SessionTypes
    <3>2. phases[UI!Phases[j]] =
            IF n - 1 < 2 * j - 1 THEN "pending"
            ELSE IF n - 1 = 2 * j - 1 THEN "running"
            ELSE logLines[2 * j].status
      BY DEF SessionInv, ShownAsLogged
    <3>3. CASE n < 2 * j - 1
      BY <1>4, <3>1, <3>2, <3>3
    <3>4. CASE n > 2 * j
      <4>1. 2 * j \in 1 .. n - 1
        BY <1>4, <3>4
      <4> QED BY <1>9, <3>1, <3>2, <3>4, <4>1
    <3>5. n < 2 * j - 1 \/ n > 2 * j
      BY <1>7, <2>2
    <3> QED BY <3>3, <3>4, <3>5
  <2> QED BY <2>1, <2>2
<1>11. GoneAtTheEnd'
  <2>1. ASSUME ui' = "gone" PROVE n = 12
    <3>1. msg.phase = "report" /\ msg.status = "done"
      BY <1>2, <2>1 DEF UI!QuitsAt
    <3>2. UI!Phases[k] = UI!Phases[6]
      BY <1>8, <3>1, PhaseNames, Zenon
    <3>3. k = 6
      BY <3>2, PhaseIndex
    <3> QED BY <1>7, <1>8, <3>1, <3>3
  <2> QED BY <1>2, <1>9, <2>1 DEF GoneAtTheEnd
<1> QED BY <1>5, <1>6, <1>10, <1>11 DEF SessionInv

LEMMA SessionInvInductive ==
  /\ UI!Init => SessionInv
  /\ SessionInv /\ [UI!Next]_sessionVars => SessionInv'
<1>1. ASSUME UI!Init PROVE SessionInv
  <2>1. UI!NoMsg \notin UI!Event
    BY DEF UI!NoMsg, UI!Event
  <2>2. SessionTypes
    BY <1>1 DEF UI!Init, SessionTypes
  <2>3. InPairs
    BY <1>1 DEF UI!Init, InPairs
  <2>4. ShownAsLogged
    BY <1>1, PhaseIndex DEF UI!Init, ShownAsLogged
  <2>5. GoneAtTheEnd /\ OneCommand
    BY <1>1 DEF UI!Init, GoneAtTheEnd, OneCommand
  <2>6. UI!NoReportLost
    BY <1>1, <2>1 DEF UI!Init, UI!NoReportLost
  <2> QED BY <2>2, <2>3, <2>4, <2>5, <2>6 DEF SessionInv
<1>2. ASSUME SessionInv, [UI!Next]_sessionVars PROVE SessionInv'
  <2>1. CASE UI!CloseEvents \/ UI!Exit \/ UI!StartUI \/ UI!SkipNil \/ UI!CtrlC \/ UI!Expire
             \/ UNCHANGED sessionVars
    <3>1. /\ UNCHANGED <<orch, sent, eventsCh, phases, logLines>>
          /\ main' \in {main, "waiting", "exited"} /\ ctx' \in {ctx, "interrupted", "expired"}
          /\ \/ UNCHANGED <<ui, waiter, msg>> /\ ctx' \in {ctx, "expired"}
             \/ ui = "starting" /\ ui' \in {"up", "gone"} /\ waiter' \in {TRUE, waiter}
                /\ UNCHANGED <<msg, ctx>>
             \/ ui = "up" /\ msg = UI!Nil /\ msg' = UI!NoMsg /\ UNCHANGED <<ui, waiter, ctx>>
             \/ ui = "up" /\ ui' = "gone" /\ ctx' # "live" /\ UNCHANGED <<waiter, msg>>
      BY <1>2, <2>1 DEF UI!CloseEvents, UI!Exit, UI!StartUI, UI!SkipNil, UI!CtrlC, UI!Expire,
         UI!scanVars, UI!uiVars, sessionVars
    <3>2. UI!Nil \notin UI!Event /\ UI!NoMsg \notin UI!Event
      BY DEF UI!Nil, UI!NoMsg, UI!Event
    <3>3. SessionTypes' /\ InPairs' /\ ShownAsLogged'
      <4>1. SessionTypes'
        <5> DEFINE E == UI!Event
                   Status == [UI!Phase -> {"pending", "running", "done", "skip", "fail"}]
        <5>1. /\ sent \in Seq(E) /\ eventsCh \in Seq(E) /\ logLines \in Seq(E) /\ phases \in Status
              /\ orch \in {"running", "completed", "failed"} /\ msg \in E \cup {UI!Nil, UI!NoMsg}
              /\ main \in {"scanning", "waiting", "exited"} /\ ui \in {"starting", "up", "gone"}
              /\ ctx \in {"live", "interrupted", "expired"}
          BY <1>2, Zenon DEF SessionInv, SessionTypes
        <5> HIDE DEF E, Status
        <5>2. msg' \in E \cup {UI!Nil, UI!NoMsg}
          BY <3>1, <5>1
        <5>3. main' \in {"scanning", "waiting", "exited"} /\ ui' \in {"starting", "up", "gone"}
              /\ ctx' \in {"live", "interrupted", "expired"}
          BY <3>1, <5>1
        <5>4. sent' \in Seq(E) /\ eventsCh' \in Seq(E) /\ logLines' \in Seq(E) /\ phases' \in Status
              /\ orch' \in {"running", "completed", "failed"}
          BY <3>1, <5>1
        <5> QED BY <5>2, <5>3, <5>4, Zenon DEF SessionTypes, E, Status
      <4>2. InPairs' /\ ShownAsLogged'
        BY <1>2, <3>1 DEF SessionInv, InPairs, ShownAsLogged
      <4> QED BY <4>1, <4>2
    <3>4. GoneAtTheEnd'
      BY <1>2, <3>1 DEF SessionInv, SessionTypes, GoneAtTheEnd
    <3>5. OneCommand'
      <4> USE DEF SessionInv, OneCommand
      <4>1. CASE UNCHANGED <<ui, waiter, msg>>
        BY <1>2, <4>1, Zenon
      <4>2. CASE ui = "starting" /\ ui' \in {"up", "gone"} /\ waiter' \in {TRUE, waiter} /\ msg' = msg
        <5>1. ui' # "starting" /\ msg' = UI!NoMsg
          BY <1>2, <4>2
        <5>2. waiter' \in BOOLEAN
          BY <1>2, <4>2, Zenon
        <5> QED BY <5>1, <5>2, Zenon
      <4>3. CASE ui = "up" /\ msg' = UI!NoMsg /\ UNCHANGED <<ui, waiter>>
        BY <1>2, <4>3, Zenon
      <4>4. CASE ui = "up" /\ ui' = "gone" /\ UNCHANGED <<waiter, msg>>
        <5>1. ui' # "starting"
          BY <4>4
        <5> QED BY <1>2, <4>4, <5>1, Zenon
      <4> QED BY <3>1, <4>1, <4>2, <4>3, <4>4, Zenon
    <3>6. UI!NoReportLost'
      BY <1>2, <3>1, <3>2 DEF SessionInv, UI!NoReportLost
    <3> QED BY <3>3, <3>4, <3>5, <3>6 DEF SessionInv
  <2> QED BY <1>2, <2>1, BeginPreserves, EndPreserves, FailPreserves, ReceivePreserves,
             UpdatePreserves, Zenon
          DEF UI!Next, UI!Orchestrator, UI!Program
<1> QED BY <1>1, <1>2

(***************************************************************************)
(* No report of a phase is lost on its way to the screen: twelve of them   *)
(* fit the channel however slow the terminal is (orchestrator.go:253-266). *)
(***************************************************************************)
THEOREM ReportsAreNotLost == Spec => []NoReportLost
<1>1. SessionInv => NoReportLost
  BY DEF SessionInv, NoReportLost
<1> QED BY <1>1, ProcessIsASession, SessionInvInductive, PTL DEF SessionSteps

(***************************************************************************)
(* The screen is left on its own only when each phase is shown as finished *)
(* or skipped (model.go:105-112, 193-196).                                 *)
(***************************************************************************)
THEOREM ScreenIsLeftComplete == Spec => []LeavesWhenAllIsShown
<1>1. ASSUME SessionInv, ui = "gone", logLines # <<>>, ctx = "live"
      PROVE  orch = "completed" /\ \A p \in UI!Phase : phases[p] \in {"done", "skip"}
  <2>1. Len(logLines) = 12
    BY <1>1 DEF SessionInv, GoneAtTheEnd
  <2>2. Len(sent) = 12 /\ \A i \in 1 .. 12 : sent[i] = logLines[i]
    <3> DEFINE rest == (IF msg \in UI!Event THEN <<msg>> ELSE <<>>) \o eventsCh
    <3>1. rest \in Seq(UI!Event) /\ logLines \in Seq(UI!Event)
      BY <1>1 DEF SessionInv, SessionTypes
    <3>2. sent = logLines \o rest
      <4>1. CASE msg \in UI!Event
        BY <1>1, <4>1 DEF SessionInv, SessionTypes, UI!NoReportLost
      <4>2. CASE msg \notin UI!Event
        BY <1>1, <4>2 DEF SessionInv, SessionTypes, UI!NoReportLost
      <4> QED BY <4>1, <4>2
    <3>3. Len(sent) \in 0 .. 12
      BY <1>1, Zenon DEF SessionInv, InPairs
    <3> HIDE DEF rest
    <3>4. Len(rest) \in Nat /\ Len(sent) = Len(logLines) + Len(rest)
      BY <3>1, <3>2
    <3>5. \A i \in 1 .. Len(logLines) : sent[i] = logLines[i]
      BY <3>1, <3>2
    <3> QED BY <2>1, <3>3, <3>4, <3>5
  <2>3. orch = "completed"
    BY <1>1, <2>2 DEF SessionInv, SessionTypes, InPairs
  <2>4. ASSUME NEW k \in 1 .. 6 PROVE phases[UI!Phases[k]] \in {"done", "skip"}
    <3>1. phases[UI!Phases[k]] = logLines[2 * k].status
      BY <1>1, <2>1 DEF SessionInv, ShownAsLogged
    <3>2. sent[2 * k].status \in {"done", "skip"}
      BY <1>1, <2>2, <2>3 DEF SessionInv, InPairs
    <3> QED BY <2>2, <3>1, <3>2
  <2>5. \A p \in UI!Phase : \E k \in 1 .. 6 : p = UI!Phases[k]
    BY PhaseNames
  <2> QED BY <2>3, <2>4, <2>5, Zenon
<1>2. SessionInv => LeavesWhenAllIsShown
  BY <1>1, Zenon DEF LeavesWhenAllIsShown, UI!LeavesWhenAllIsShown
<1> QED BY <1>2, ProcessIsASession, SessionInvInductive, PTL DEF SessionSteps

-----------------------------------------------------------------------------

\* Where the clock may be while the remote adapter works.
Timing ==
  /\ clock \in Nat /\ started \in Nat
  /\ phase \in {"trigger", "run", "end"}
  /\ phase = "trigger" => clock = 0
  /\ phase = "run" => /\ started <= HttpTimeout /\ started <= clock
                      /\ \E bound \in {Grace, Limit} : clock <= started + bound + 1
  /\ clock <= ScanBudget

\* What a decision to pass rests on.
Grounds ==
  /\ decision = "pass" => phase = "end"
  /\ adapter = "remote" /\ decision = "pass" =>
       isTerminal(server) /\ Evaluate(policy, listed) = "pass"

\* The exit status is read off the final decision.
Settled ==
  /\ main # "scanning" => orch # "running"
  /\ exitCode # -1 => main = "exited"
  /\ exitCode = 0 => decision = "pass"

RemoteInv == Timing /\ Grounds /\ Settled

LEMMA Budget ==
  /\ {HttpTimeout, Grace, Limit, ScanBudget} \subseteq Nat
  /\ \A bound \in {Grace, Limit} : HttpTimeout + bound + 1 + HttpTimeout <= ScanBudget
BY RemoteAssumption DEF RemoteAssumption

LEMMA TriggerTiming ==
  ASSUME Timing, TriggerScan
  PROVE  Timing'
<1>1. PICK d \in 0 .. HttpTimeout : clock' = d
  BY Budget DEF TriggerScan, Timing
<1>2. d \in Nat /\ d <= HttpTimeout /\ clock' = d /\ started' = d /\ d <= ScanBudget
  BY <1>1, Budget DEF TriggerScan
<1>3. phase' \in {"run", "end"}
  BY DEF TriggerScan, FailRun
<1>4. clock' <= started' + Grace + 1
  BY <1>2, Budget
<1> QED BY <1>2, <1>3, <1>4 DEF Timing

LEMMA PollTiming ==
  ASSUME Timing, Poll
  PROVE  Timing'
<1>1. /\ phase = "run" /\ started' = started
      /\ \E d \in 0 .. HttpTimeout :
           \/ /\ phase' = "end" /\ clock' = clock + d
           \/ /\ phase' = "run" /\ clock' = clock + d + 1
              /\ \E bound \in {Grace, Limit} : clock + d - started <= bound
  BY Budget DEF Poll, PollFails, PollRunning, PollTerminal, FailRun, Finish, SleepAfter, Timing
<1>2. PICK d \in 0 .. HttpTimeout :
           \/ /\ phase' = "end" /\ clock' = clock + d
           \/ /\ phase' = "run" /\ clock' = clock + d + 1
              /\ \E bound \in {Grace, Limit} : clock + d - started <= bound
  BY <1>1, Zenon
<1>3. PICK b \in {Grace, Limit} : clock <= started + b + 1
  BY <1>1 DEF Timing
<1>4. /\ clock \in Nat /\ started \in Nat /\ started <= HttpTimeout /\ started <= clock
      /\ d \in Nat /\ d <= HttpTimeout
  BY <1>1, <1>2, Budget DEF Timing
<1>5. CASE phase' = "end" /\ clock' = clock + d
  BY <1>1, <1>3, <1>4, <1>5, Budget DEF Timing
<1>6. CASE /\ phase' = "run" /\ clock' = clock + d + 1
           /\ \E bound \in {Grace, Limit} : clock + d - started <= bound
  <2>1. PICK c \in {Grace, Limit} : clock + d - started <= c
    BY <1>6, Zenon
  <2>2. clock' <= started' + c + 1 /\ clock' <= ScanBudget
    BY <1>1, <1>4, <1>6, <2>1, Budget
  <2> QED BY <1>1, <1>4, <1>6, <2>2 DEF Timing
<1> QED BY <1>2, <1>5, <1>6

LEMMA TimingPreserved ==
  ASSUME Timing, [Next]_vars
  PROVE  Timing'
<1>1. CASE RemoteFetch \/ RemoteRun
  BY <1>1, TriggerTiming, PollTiming, Zenon DEF RemoteFetch, RemoteRun
<1>2. CASE RefusePolicy \/ LocalFails \/ LocalRun
  <2>1. phase' = "end" /\ UNCHANGED <<clock, started>>
    BY <1>2 DEF RefusePolicy, LocalFails, LocalRun, FailRun
  <2> QED BY <2>1 DEF Timing
<1>3. CASE BeginPhase \/ RemoteScope \/ LocalPrepares \/ Conclude \/ CloseEvents \/ Exit
           \/ Expire \/ Server \/ Program \/ CtrlC \/ UNCHANGED vars
  <2>1. UNCHANGED <<clock, started, phase>>
    BY <1>3 DEF BeginPhase, RemoteScope, LocalPrepares, Conclude, CloseEvents, Exit, Expire,
       Server, ServerStep, Program, CtrlC, vars, remoteVars, clientVars
  <2> QED BY <2>1 DEF Timing
<1> QED BY <1>1, <1>2, <1>3, Zenon DEF Next, Orchestrator, Remote, Local

LEMMA GroundsPreserved ==
  ASSUME Timing, Grounds, [Next]_vars
  PROVE  Grounds'
<1>1. CASE RemoteFetch
  <2>1. decision' # "pass"
    BY <1>1 DEF RemoteFetch, TriggerScan, FailRun, Grounds
  <2> QED BY <2>1 DEF Grounds
<1>2. CASE RemoteRun
  <2>1. adapter' = adapter /\ phase = "run" /\ UNCHANGED <<server, listed>>
    BY <1>2 DEF RemoteRun, Poll, PollFails, PollRunning, PollTerminal, processVars, serverVars
  <2>2. decision # "pass"
    BY <2>1 DEF Grounds
  <2>3. CASE PollFails \/ PollRunning
    <3>1. decision' # "pass"
      BY <2>2, <2>3 DEF PollFails, PollRunning, FailRun, SleepAfter
    <3> QED BY <3>1 DEF Grounds
  <2>4. CASE PollTerminal
    <3>1. phase' = "end" /\ isTerminal(server) /\ decision' = Evaluate(policy, listed)
      BY <2>4 DEF PollTerminal, Finish
    <3> QED BY <2>1, <3>1, Zenon DEF Grounds
  <2> QED BY <1>2, <2>3, <2>4, Zenon DEF RemoteRun, Poll
<1>3. CASE RefusePolicy \/ LocalFails
  <2>1. decision' = "block"
    BY <1>3 DEF RefusePolicy, LocalFails, FailRun
  <2> QED BY <2>1 DEF Grounds
<1>4. CASE LocalRun
  <2>1. phase' = "end" /\ adapter' = "local"
    BY <1>4 DEF LocalRun, processVars
  <2> QED BY <2>1 DEF Grounds
<1>5. CASE Server
  <2>1. ~isTerminal(server) /\ UNCHANGED <<adapter, decision, phase>>
    BY <1>5 DEF Server, ServerStep, isTerminal, clientVars, processVars
  <2>2. adapter = "remote"
    BY <1>5 DEF Server
  <2> QED BY <2>1, <2>2 DEF Grounds
<1>6. CASE BeginPhase \/ RemoteScope \/ LocalPrepares \/ Conclude \/ CloseEvents \/ Exit
           \/ Expire \/ Program \/ CtrlC \/ UNCHANGED vars
  <2>1. UNCHANGED <<decision, phase, server, listed, adapter>>
    BY <1>6 DEF BeginPhase, RemoteScope, LocalPrepares, Conclude, CloseEvents, Exit, Expire,
       Program, CtrlC, vars, remoteVars, clientVars, serverVars, processVars
  <2> QED BY <2>1, Zenon DEF Grounds, isTerminal
<1> QED BY <1>1, <1>2, <1>3, <1>4, <1>5, <1>6, Zenon DEF Next, Orchestrator, Remote, Local

LEMMA SettledPreserved ==
  ASSUME Settled, [Next]_vars
  PROVE  Settled'
<1>1. CASE Exit
  <2>1. /\ main' = "exited" /\ main = "waiting" /\ orch' = orch /\ decision' = decision
        /\ exitCode' = ExitCode(decision, runErr)
    BY <1>1 DEF Exit, UI!Exit, remoteVars, clientVars
  <2>2. exitCode' = 0 => decision = "pass"
    BY <2>1 DEF ExitCode
  <2> QED BY <2>1, <2>2 DEF Settled
<1>2. CASE CloseEvents
  BY <1>2 DEF CloseEvents, UI!CloseEvents, remoteVars, clientVars, processVars, Settled
<1>3. CASE orch = "running" /\ UNCHANGED <<main, exitCode>>
  BY <1>3 DEF Settled
<1>4. CASE UNCHANGED <<main, orch, exitCode, decision>>
  BY <1>4 DEF Settled
<1>5. CASE RefusePolicy \/ RemoteFetch \/ LocalFails \/ LocalRun
  <2>1. UI!FailPhase \/ UI!EndPhase
    BY <1>5, Zenon DEF RefusePolicy, RemoteFetch, LocalFails, LocalRun, Settle
  <2>2. orch = "running" /\ main' = main
    BY <2>1 DEF UI!FailPhase, UI!EndPhase
  <2>3. exitCode' = exitCode
    BY <1>5 DEF RefusePolicy, RemoteFetch, LocalFails, LocalRun, processVars
  <2> QED BY <1>3, <2>2, <2>3
<1>6. CASE RemoteRun
  <2>1. exitCode' = exitCode
    BY <1>6 DEF RemoteRun, processVars
  <2>2. CASE phase' = "end"
    <3>1. UI!FailPhase \/ UI!EndPhase
      BY <1>6, <2>2, Zenon DEF RemoteRun, Settle
    <3>2. orch = "running" /\ main' = main
      BY <3>1 DEF UI!FailPhase, UI!EndPhase
    <3> QED BY <1>3, <2>1, <3>2
  <2>3. CASE phase' # "end"
    <3>1. UNCHANGED <<main, orch, decision>>
      BY <1>6, <2>3 DEF RemoteRun, sessionVars, Poll, PollFails, PollRunning, PollTerminal,
         FailRun, Finish, SleepAfter
    <3> QED BY <1>4, <2>1, <3>1
  <2> QED BY <2>2, <2>3
<1>7. CASE BeginPhase \/ RemoteScope \/ LocalPrepares \/ Conclude
  <2>1. UI!BeginPhase \/ UI!EndPhase
    BY <1>7, Zenon DEF BeginPhase, RemoteScope, LocalPrepares, Conclude
  <2>2. orch = "running" /\ main' = main
    BY <2>1 DEF UI!BeginPhase, UI!EndPhase
  <2>3. exitCode' = exitCode
    BY <1>7 DEF BeginPhase, RemoteScope, LocalPrepares, Conclude, processVars
  <2> QED BY <1>3, <2>2, <2>3
<1>8. CASE Expire \/ Server \/ Program \/ CtrlC \/ UNCHANGED vars
  <2>1. UNCHANGED <<main, orch, exitCode, decision>>
    BY <1>8 DEF Expire, UI!Expire, Server, ServerStep, Program, UI!Program, UI!StartUI,
       UI!ReceiveEvent, UI!ReceiveNothing, UI!UpdateEvent, UI!SkipNil, CtrlC, UI!CtrlC,
       UI!scanVars, vars, sessionVars, remoteVars, clientVars, processVars
  <2> QED BY <1>4, <2>1
<1> QED BY <1>1, <1>2, <1>5, <1>6, <1>7, <1>8, Zenon DEF Next, Orchestrator, Remote, Local

LEMMA RemoteInvHolds == Spec => []RemoteInv
<1>1. ASSUME Init PROVE RemoteInv
  <2>1. Timing
    <3>1. clock = 0 /\ started = 0 /\ phase = "trigger"
      BY <1>1 DEF Init, RemoteInit
    <3>2. ScanBudget \in Nat
      BY Budget
    <3>3. 0 <= ScanBudget
      BY <3>2
    <3> QED BY <3>1, <3>3 DEF Timing
  <2>2. Grounds
    BY <1>1 DEF Init, RemoteInit, Grounds
  <2>3. Settled
    BY <1>1 DEF Init, UI!Init, Settled
  <2> QED BY <2>1, <2>2, <2>3 DEF RemoteInv
<1>2. RemoteInv /\ [Next]_vars => RemoteInv'
  BY TimingPreserved, GroundsPreserved, SettledPreserved, Zenon DEF RemoteInv
<1> QED BY <1>1, <1>2, PTL DEF Spec

(***************************************************************************)
(* For every timeout that fits the budget: the remote adapter, which does  *)
(* not look at its context, is done before its deadline                    *)
(* (adapter_remote.go:45-63, scan.go:137).                                 *)
(***************************************************************************)
THEOREM RemoteScanFitsTheBudget == Spec => []StaysWithinBudget
<1>1. RemoteInv => StaysWithinBudget
  BY DEF RemoteInv, Timing, StaysWithinBudget
<1> QED BY <1>1, RemoteInvHolds, PTL

(***************************************************************************)
(* For every policy and every list of findings: a remote scan exits with   *)
(* status 0 only on a scan that the server finished and whose findings the *)
(* policy passes (adapter_remote.go:46-57, scan.go:165-167).               *)
(***************************************************************************)
THEOREM ZeroTakesAFinishedScan == Spec => []PassTakesAFinishedScan
<1>1. RemoteInv => PassTakesAFinishedScan
  BY Zenon DEF RemoteInv, Grounds, Settled, PassTakesAFinishedScan
<1> QED BY <1>1, RemoteInvHolds, PTL

-----------------------------------------------------------------------------

\* The rest of the types: the server, the verdict and the ends.
Verdicts ==
  /\ server \in {"none", "queued", "running", "completed", "failed", "blocked"}
  /\ listed \in Seq(Finding)
  /\ decision \in DecisionWords
  /\ runErr \in BOOLEAN
  /\ adapter \in {"local", "remote"}
  /\ exitCode \in -1 .. 2
  /\ closed \in BOOLEAN

\* What the adapters do to the verdict.
LEMMA AdapterVerdicts ==
  ASSUME Verdicts, TriggerScan \/ Poll \/ FailRun
  PROVE  decision' \in DecisionWords /\ runErr' \in BOOLEAN
<1>1. /\ {"pass", "review", "block"} \subseteq DecisionWords
      /\ \A fs : Evaluate(policy, fs) \in {"pass", "review", "block"}
  BY DEF DecisionWords, Evaluate
<1>2. CASE FailRun
  BY <1>1, <1>2 DEF FailRun
<1>3. CASE TriggerScan
  BY <1>1, <1>3 DEF TriggerScan, FailRun, Verdicts
<1>4. CASE PollFails \/ PollRunning
  BY <1>1, <1>4 DEF PollFails, PollRunning, FailRun, SleepAfter, Verdicts
<1>5. CASE PollTerminal
  BY <1>1, <1>5 DEF PollTerminal, Finish, Verdicts
<1> QED BY <1>2, <1>3, <1>4, <1>5 DEF Poll

LEMMA VerdictsPreserved ==
  ASSUME Verdicts, [Next]_vars
  PROVE  Verdicts'
<1>0. /\ {"pass", "review", "block"} \subseteq DecisionWords
      /\ \A d, e : ExitCode(d, e) \in -1 .. 2
  BY DEF DecisionWords, ExitCode
<1>1. closed' \in BOOLEAN
  <2>1. closed' = closed \/ closed' = TRUE
    <3>1. CASE UI!CloseEvents
      BY <3>1 DEF UI!CloseEvents
    <3>2. CASE UI!BeginPhase \/ UI!EndPhase \/ UI!FailPhase \/ UI!Exit \/ UI!Program \/ UI!CtrlC
               \/ UI!Expire \/ UNCHANGED sessionVars
      BY <3>2 DEF UI!BeginPhase, UI!EndPhase, UI!FailPhase, UI!Exit, UI!Program, UI!StartUI,
         UI!ReceiveEvent, UI!ReceiveNothing, UI!UpdateEvent, UI!SkipNil, UI!CtrlC, UI!Expire,
         UI!scanVars, sessionVars
    <3> QED BY <3>1, <3>2, StepIsSessionStep, Zenon DEF UI!Next, UI!Orchestrator
  <2> QED BY <2>1, Zenon DEF Verdicts
<1>2. CASE RemoteFetch
  <2>1. TriggerScan /\ UNCHANGED <<adapter, exitCode>>
    BY <1>2 DEF RemoteFetch, processVars
  <2>2. server' \in {"none", "queued"} /\ listed' = listed
    BY <2>1 DEF TriggerScan
  <2> QED BY <1>1, <2>1, <2>2, AdapterVerdicts DEF Verdicts
<1>3. CASE RemoteRun
  <2>1. Poll /\ UNCHANGED <<adapter, exitCode>>
    BY <1>3 DEF RemoteRun, processVars
  <2>2. UNCHANGED <<server, listed>>
    BY <2>1 DEF Poll, PollFails, PollRunning, PollTerminal, serverVars
  <2> QED BY <1>1, <2>1, <2>2, AdapterVerdicts DEF Verdicts
<1>4. CASE RefusePolicy \/ LocalFails
  <2>1. FailRun /\ UNCHANGED <<adapter, exitCode, server, listed>>
    BY <1>4 DEF RefusePolicy, LocalFails, processVars, serverVars
  <2> QED BY <1>1, <2>1, AdapterVerdicts DEF Verdicts
<1>5. CASE LocalRun
  <2>1. decision' \in {"pass", "review", "block"} /\ UNCHANGED <<adapter, exitCode, server, listed, runErr>>
    BY <1>5 DEF LocalRun, processVars, serverVars
  <2> QED BY <1>0, <1>1, <2>1 DEF Verdicts
<1>6. CASE Exit
  <2>1. exitCode' \in -1 .. 2 /\ UNCHANGED <<adapter, server, listed, decision, runErr>>
    BY <1>0, <1>6 DEF Exit, remoteVars, clientVars, serverVars
  <2> QED BY <1>1, <2>1 DEF Verdicts
<1>7. CASE Server
  <2>1. /\ server' \in {"running", "completed", "failed", "blocked"}
        /\ listed' \in Reports \cup {listed}
        /\ UNCHANGED <<adapter, exitCode, decision, runErr>>
    BY <1>7 DEF Server, ServerStep, clientVars, processVars
  <2>2. listed' \in Seq(Finding)
    BY <2>1, RemoteAssumption DEF RemoteAssumption, Verdicts
  <2> QED BY <1>1, <2>1, <2>2 DEF Verdicts
<1>8. CASE BeginPhase \/ RemoteScope \/ LocalPrepares \/ Conclude \/ CloseEvents
           \/ Expire \/ Program \/ CtrlC \/ UNCHANGED vars
  <2>1. UNCHANGED <<server, listed, decision, runErr, adapter, exitCode>>
    BY <1>8 DEF BeginPhase, RemoteScope, LocalPrepares, Conclude, CloseEvents, Expire,
       Program, CtrlC, vars, remoteVars, clientVars, serverVars, processVars
  <2> QED BY <1>1, <2>1 DEF Verdicts
<1> QED BY <1>2, <1>3, <1>4, <1>5, <1>6, <1>7, <1>8, Zenon DEF Next, Orchestrator, Remote, Local

\* Type correctness of the process: its session, the adapter and the server
\* (scan.go:137-170, adapter_remote.go).
THEOREM SessionTypeCorrect == Spec => []TypeOK
<1>1. Init => Verdicts
  <2> SUFFICES ASSUME Init PROVE Verdicts
    OBVIOUS
  <2>1. server = "none" /\ listed = <<>> /\ decision = "" /\ runErr = FALSE /\ closed = FALSE
    BY DEF Init, RemoteInit, UI!Init
  <2>2. adapter \in {"local", "remote"} /\ exitCode = -1
    BY DEF Init
  <2>3. <<>> \in Seq(Finding) /\ "" \in DecisionWords /\ -1 \in -1 .. 2
    BY DEF DecisionWords
  <2>4. FALSE \in BOOLEAN
    OBVIOUS
  <2>5. listed \in Seq(Finding) /\ exitCode \in -1 .. 2 /\ decision \in DecisionWords
    BY <2>1, <2>2, <2>3
  <2> QED BY <2>1, <2>2, <2>4, <2>5, Zenon DEF Verdicts
<1>2. SessionInv /\ RemoteInv /\ Verdicts => TypeOK
  <2> SUFFICES ASSUME SessionInv, RemoteInv, Verdicts PROVE TypeOK
    OBVIOUS
  <2>1. RemoteTypeOK
    BY Zenon DEF RemoteInv, Timing, Verdicts, RemoteTypeOK
  <2>2. UI!TypeOK
    BY Zenon DEF SessionInv, SessionTypes, OneCommand, Verdicts, UI!TypeOK
  <2> QED BY <2>1, <2>2, Zenon DEF Verdicts, TypeOK
<1>3. Spec => []Verdicts
  BY <1>1, VerdictsPreserved, PTL DEF Spec
<1> QED BY <1>2, <1>3, RemoteInvHolds, ProcessIsASession, SessionInvInductive, PTL DEF SessionSteps
=============================================================================
