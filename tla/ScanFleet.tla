------------------------------ MODULE ScanFleet ------------------------------
(***************************************************************************)
(* LocalAdapter.Run (adapter_local.go:233): one goroutine per scanner, a   *)
(* semaphore channel that bounds the containers running at once, a         *)
(* per-scanner deadline below the deadline of the whole scan, a results    *)
(* channel with room for every scanner, and the collector that receives    *)
(* one result per scanner in whatever order they come.                     *)
(*                                                                         *)
(* Time is counted in units of five minutes.  A container may hang until   *)
(* its context kills it; everything else is prompt: time does not pass     *)
(* while a goroutine could take a free slot, a killed container could be   *)
(* reaped or a slot could be handed back.                                  *)
(***************************************************************************)
EXTENDS ScannerReports

CONSTANTS
  MaxConcurrency,   \* KURO_MAX_CONCURRENCY, 2 by default
  OutcomesOf        \* what the container of each tool may do

ASSUME MaxConcurrencyAssumption == MaxConcurrency \in Nat \ {0}
ASSUME OutcomesAssumption ==
  /\ DOMAIN OutcomesOf = Tools
  /\ \A t \in Tools : OutcomesOf[t] \subseteq Outcome

VARIABLES
  fleet,        \* the call of Run: not made yet, in progress, its result
  scanners,     \* the scanners it was asked to run
  pc,           \* where the goroutine of each tool is
  sem,          \* how many tokens are in the semaphore channel
  results,      \* the results channel
  timings,      \* the tools the collector has reported a timing for
  scanErrors,   \* the tools the collector has an error for
  allFindings,  \* the findings collected
  canceled,     \* the caller canceled the context
  now,          \* time since the scan was started
  began,        \* when the container of a tool was started
  outcome       \* what the container of a tool did

fleetVars == <<fleet, scanners, pc, sem, results, timings, scanErrors, allFindings,
               canceled, now, began, outcome>>

NoOutcome == [exit |-> "none", shape |-> "none", items |-> <<>>]

Result == [tool : Tools, ok : BOOLEAN, findings : Seq(Finding)]

Running   == {t \in Tools : pc[t] = "running"}
Releasing == {t \in Tools : pc[t] = "releasing"}

TypeOK ==
  /\ fleet \in {"idle", "running", "ok", "failed"}
  /\ scanners \subseteq Tools
  /\ pc \in [Tools -> {"idle", "select", "running", "releasing", "done"}]
  /\ sem \in Nat
  /\ results \in Seq(Result)
  /\ timings \subseteq Tools
  /\ scanErrors \subseteq Tools
  /\ allFindings \in Seq(Finding)
  /\ canceled \in BOOLEAN
  /\ now \in Nat
  /\ began \in [Tools -> Nat]
  /\ outcome \in [Tools -> Outcome \cup {NoOutcome}]

Init ==
  /\ fleet = "idle"
  /\ scanners = {}
  /\ pc = [t \in Tools |-> "idle"]
  /\ sem = 0
  /\ results = <<>>
  /\ timings = {}
  /\ scanErrors = {}
  /\ allFindings = <<>>
  /\ canceled = FALSE
  /\ now = 0
  /\ began = [t \in Tools |-> 0]
  /\ outcome = [t \in Tools |-> NoOutcome]

-----------------------------------------------------------------------------

\* The deadline of RunScan: 35 minutes for the whole scan.
ScanBudget == 7

\* Mutant: the history timeout for every scanner.
HistoryTimeoutForAll(t) == 3

\* Five minutes for a scanner of the working tree, fifteen for the history.
ScannerTimeout(t) == IF t \in HistoryTools THEN 3 ELSE 1

ctxDone        == canceled \/ now >= ScanBudget
scanCtxDone(t) == ctxDone \/ now >= began[t] + ScannerTimeout(t)

\* Run starts its goroutines.
Launch(S) ==
  /\ fleet = "idle"
  /\ fleet' = "running"
  /\ scanners' = S
  /\ pc' = [t \in Tools |-> IF t \in S THEN "select" ELSE "idle"]
  /\ UNCHANGED <<sem, results, timings, scanErrors, allFindings, canceled, now, began, outcome>>

\* Mutant: a goroutine that starts whether or not there is room.
AcquireAtOnce(t) ==
  /\ pc[t] = "select"
  /\ sem' = sem + 1
  /\ pc' = [pc EXCEPT ![t] = "running"]
  /\ began' = [began EXCEPT ![t] = now]
  /\ UNCHANGED <<fleet, scanners, results, timings, scanErrors, allFindings, canceled, now, outcome>>

\* case sem <- struct{}{}
Acquire(t) ==
  /\ pc[t] = "select"
  /\ sem < MaxConcurrency
  /\ sem' = sem + 1
  /\ pc' = [pc EXCEPT ![t] = "running"]
  /\ began' = [began EXCEPT ![t] = now]
  /\ UNCHANGED <<fleet, scanners, results, timings, scanErrors, allFindings, canceled, now, outcome>>

\* Mutant: a goroutine that sees the context done and leaves without a word.
GiveUpSilently(t) ==
  /\ pc[t] = "select"
  /\ ctxDone
  /\ pc' = [pc EXCEPT ![t] = "done"]
  /\ UNCHANGED <<fleet, scanners, sem, results, timings, scanErrors, allFindings, canceled, now,
                 began, outcome>>

\* case <-ctx.Done(): the scanner is reported as failed without having run.
GiveUp(t) ==
  /\ pc[t] = "select"
  /\ ctxDone
  /\ pc' = [pc EXCEPT ![t] = "done"]
  /\ results' = Append(results, [tool |-> t, ok |-> FALSE, findings |-> <<>>])
  /\ UNCHANGED <<fleet, scanners, sem, timings, scanErrors, allFindings, canceled, now, began, outcome>>

\* The container ends, killed only if its context is over; the result is sent.
Finish(t) ==
  /\ pc[t] = "running"
  /\ \E out \in OutcomesOf[t] :
       LET res == RunTool(t, out, scanCtxDone(t))
       IN  /\ out.exit = "killed" => scanCtxDone(t)
           /\ outcome' = [outcome EXCEPT ![t] = out]
           /\ results' = Append(results, [tool |-> t, ok |-> res.ok, findings |-> res.findings])
  /\ pc' = [pc EXCEPT ![t] = "releasing"]
  /\ UNCHANGED <<fleet, scanners, sem, timings, scanErrors, allFindings, canceled, now, began>>

\* Mutant: the token is handed back by the deferred call and once more after it.
ReleaseTwice(t) ==
  /\ pc[t] = "releasing"
  /\ sem' = sem - 2
  /\ pc' = [pc EXCEPT ![t] = "done"]
  /\ UNCHANGED <<fleet, scanners, results, timings, scanErrors, allFindings, canceled, now, began,
                 outcome>>

\* The deferred calls: the token is handed back after the result was sent.
Release(t) ==
  /\ pc[t] = "releasing"
  /\ sem' = sem - 1
  /\ pc' = [pc EXCEPT ![t] = "done"]
  /\ UNCHANGED <<fleet, scanners, results, timings, scanErrors, allFindings, canceled, now, began,
                 outcome>>

Goroutine(t) == Acquire(t) \/ GiveUp(t) \/ Finish(t) \/ Release(t)

-----------------------------------------------------------------------------

\* Mutant: a failed scanner is only warned about.
CollectLeniently ==
  /\ fleet = "running"
  /\ results # <<>>
  /\ LET r == Head(results)
     IN  /\ timings' = timings \cup {r.tool}
         /\ allFindings' = allFindings \o r.findings
  /\ results' = Tail(results)
  /\ UNCHANGED <<fleet, scanners, pc, sem, scanErrors, canceled, now, began, outcome>>

\* One iteration of the collector.
Collect ==
  /\ fleet = "running"
  /\ results # <<>>
  /\ LET r == Head(results)
     IN  /\ timings' = timings \cup {r.tool}
         /\ IF r.ok THEN /\ allFindings' = allFindings \o r.findings
                         /\ UNCHANGED scanErrors
                    ELSE /\ scanErrors' = scanErrors \cup {r.tool}
                         /\ UNCHANGED allFindings
  /\ results' = Tail(results)
  /\ UNCHANGED <<fleet, scanners, pc, sem, canceled, now, began, outcome>>

\* Mutant: the collector returns at the first error.
ReturnEarly ==
  /\ fleet = "running"
  /\ Cardinality(timings) = Cardinality(scanners) \/ scanErrors # {}
  /\ fleet' = IF scanErrors = {} THEN "ok" ELSE "failed"
  /\ UNCHANGED <<scanners, pc, sem, results, timings, scanErrors, allFindings, canceled, now,
                 began, outcome>>

\* The loop has received len(scanners) results.
Return ==
  /\ fleet = "running"
  /\ Cardinality(timings) = Cardinality(scanners)
  /\ fleet' = IF scanErrors = {} THEN "ok" ELSE "failed"
  /\ UNCHANGED <<scanners, pc, sem, results, timings, scanErrors, allFindings, canceled, now,
                 began, outcome>>

-----------------------------------------------------------------------------

\* Ctrl-C in the terminal UI, which shares the context of the scan.
Cancel ==
  /\ fleet = "running"
  /\ ~canceled
  /\ canceled' = TRUE
  /\ UNCHANGED <<fleet, scanners, pc, sem, results, timings, scanErrors, allFindings, now, began,
                 outcome>>

\* Five minutes pass.  Nothing depends on time beyond the deadline of the scan.
Tick ==
  /\ fleet = "running"
  /\ now < ScanBudget
  /\ Releasing = {}
  /\ \A t \in Running : ~scanCtxDone(t)
  /\ \A t \in Tools : pc[t] = "select" => sem >= MaxConcurrency /\ ~ctxDone
  /\ now' = now + 1
  /\ UNCHANGED <<fleet, scanners, pc, sem, results, timings, scanErrors, allFindings, canceled,
                 began, outcome>>

FleetStep ==
  \/ \E t \in Tools : Goroutine(t)
  \/ Collect
  \/ Return
  \/ Cancel
  \/ Tick

Next == (\E target \in Target : Launch(ScopeOf(target))) \/ FleetStep

(***************************************************************************)
(* Goroutines are scheduled, time passes, and a container whose context is *)
(* over is killed.  Nothing is assumed of a container that still has time. *)
(***************************************************************************)
FleetFairness ==
  /\ \A t \in Tools : /\ WF_fleetVars(Acquire(t) \/ GiveUp(t))
                      /\ WF_fleetVars(scanCtxDone(t) /\ Finish(t))
                      /\ WF_fleetVars(Release(t))
  /\ WF_fleetVars(Collect)
  /\ WF_fleetVars(Return)
  /\ WF_fleetVars(Tick)

Spec == Init /\ [][Next]_fleetVars /\ FleetFairness

-----------------------------------------------------------------------------

Returned == fleet \in {"ok", "failed"}

(***************************************************************************)
(* The semaphore counts the containers: never more run at once than        *)
(* KURO_MAX_CONCURRENCY, and no token is lost or handed back twice on any  *)
(* of the paths of a goroutine.                                            *)
(***************************************************************************)
SlotsBounded ==
  /\ sem = Cardinality(Running \cup Releasing)
  /\ sem <= MaxConcurrency

(***************************************************************************)
(* When Run returns no scanner process of this scan is running or queued,  *)
(* and the collector has heard of every scanner it was asked to run.       *)
(***************************************************************************)
NoScannerOutlivesRun ==
  Returned => /\ \A t \in scanners : pc[t] \in {"releasing", "done"}
              /\ timings = scanners
              /\ results = <<>>

\* The part of s that comes from the tool t is own: whole, in its order and in
\* one piece.
HasAsOnePiece(s, t, own) ==
  \E k \in 0 .. Len(s) :
    /\ k + Len(own) <= Len(s)
    /\ \A i \in DOMAIN own : s[k + i] = own[i]
    /\ \A j \in DOMAIN s : s[j].scanner = Source(t) => j - k \in DOMAIN own

(***************************************************************************)
(* Run returns without an error only if every scanner ran to its end and   *)
(* produced a report that was believed, and then each scanner's findings   *)
(* are all there, in their order and not mixed with others, whatever the   *)
(* order of arrival.                                                       *)
(***************************************************************************)
CleanRunIsComplete ==
  fleet = "ok" =>
    \A t \in scanners :
      /\ outcome[t] # NoOutcome
      /\ Accepted(t, outcome[t], FALSE)
      /\ HasAsOnePiece(allFindings, t, Parsed(t, outcome[t].items))

(***************************************************************************)
(* The deadline of the scan leaves every scanner its own: unless the user  *)
(* cancels, no scanner is given up on before it ran, and none is killed    *)
(* before its own timeout, even when the containers run one at a time.     *)
(***************************************************************************)
BudgetSuffices ==
  ~canceled => /\ \A t \in scanners : pc[t] = "done" => outcome[t] # NoOutcome
               /\ \A t \in Running : began[t] + ScannerTimeout(t) <= ScanBudget

(***************************************************************************)
(* Run returns although every container may hang, and every goroutine it   *)
(* started ends: none is left blocked on the semaphore or on the results.  *)
(***************************************************************************)
RunReturns == fleet = "running" ~> Returned /\ \A t \in scanners : pc[t] = "done"
=============================================================================
