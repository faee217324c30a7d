----------------------------- MODULE ScanProofs -----------------------------
(***************************************************************************)
(* A scan for any concurrency, any policy and any behaviour of the         *)
(* containers.  The fleet: the semaphore counts the containers, and Run    *)
(* returns only when each goroutine has sent its result and the collector  *)
(* has received it.  What it collected: the findings of the scanners that  *)
(* succeeded, each once.  The pipeline: a fail-closed gate.                *)
(***************************************************************************)
EXTENDS ScanPipeline, FiniteSetTheorems, SequenceTheorems, TLAPS

\* The laws of the policy engine, here for one report.
Laws == INSTANCE PolicyProofs
          WITH findings <- allFindings, Reports <- {}, Rules <- {}, Policies <- {},
               MaxFindings <- 0, MaxRules <- 0

Holding == Running \cup Releasing

\* Before the call there is nothing; afterwards the scanners have goroutines.
Launched ==
  /\ fleet = "idle" => timings = {} /\ results = <<>> /\ \A t \in Tools : pc[t] = "idle"
  /\ fleet # "idle" => scanners = {t \in Tools : pc[t] # "idle"}

Sent    == {t \in Tools : pc[t] \in {"releasing", "done"}}
Pending == {results[i].tool : i \in DOMAIN results}

\* Each goroutine that is past its send has exactly one result, in the channel
\* or with the collector.
EachSentOnce ==
  /\ Sent = timings \cup Pending
  /\ timings \cap Pending = {}
  /\ \A i, j \in DOMAIN results : results[i].tool = results[j].tool => i = j

ReturnedComplete == Returned => timings = scanners

IInv == TypeOK /\ SlotsBounded /\ Launched /\ EachSentOnce /\ ReturnedComplete

-----------------------------------------------------------------------------

\* There are finitely many tools.
LEMMA ToolsFinite == IsFiniteSet(Tools)
<1>1. IsFiniteSet({"gitleaks", "semgrep", "trivy", "checkov"})
  <2>1. IsFiniteSet({"gitleaks"})
    BY FS_Singleton
  <2>2. IsFiniteSet({"gitleaks"} \cup {"semgrep"})
    BY <2>1, FS_AddElement
  <2>3. IsFiniteSet(({"gitleaks"} \cup {"semgrep"}) \cup {"trivy"})
    BY <2>2, FS_AddElement
  <2>4. IsFiniteSet((({"gitleaks"} \cup {"semgrep"}) \cup {"trivy"}) \cup {"checkov"})
    BY <2>3, FS_AddElement
  <2>5. (({"gitleaks"} \cup {"semgrep"}) \cup {"trivy"}) \cup {"checkov"}
          = {"gitleaks", "semgrep", "trivy", "checkov"}
    OBVIOUS
  <2> QED
    BY <2>4, <2>5
<1>2. IsFiniteSet({"gitleaks-history"})
  BY FS_Singleton
<1>3. IsFiniteSet({"gitleaks-history"} \cup {"trufflehog-history"})
  BY <1>2, FS_AddElement
<1>4. {"gitleaks-history"} \cup {"trufflehog-history"} = HistoryTools
  BY DEF HistoryTools
<1> QED
  BY <1>1, <1>3, <1>4, FS_Union DEF Tools

\* So are the sets of tools that hold a slot, and their number is a number.
LEMMA ToolSetFinite ==
  ASSUME NEW S \in SUBSET Tools
  PROVE  IsFiniteSet(S) /\ Cardinality(S) \in Nat
BY ToolsFinite, FS_Subset, FS_CardinalityType

\* What an adapter reports is a sequence of findings.
LEMMA SeverityKnown ==
  ASSUME NEW t \in Tools, NEW level \in Levels
  PROVE  SeverityOf(t, level) \in Severities /\ Source(t) \in Scanners
<1>1. Source(t) \in Scanners
  BY DEF Source, Scanners, Tools, HistoryTools
<1>2. SeverityOf(t, level) \in Severities
  BY DEF SeverityOf, Severities
<1> QED
  BY <1>1, <1>2

LEMMA ParsedTyped ==
  ASSUME NEW t \in Tools, NEW items \in Seq(Item)
  PROVE  Parsed(t, items) \in Seq(Finding) /\ DOMAIN Parsed(t, items) = DOMAIN items
<1>1. /\ Len(items) \in Nat
      /\ DOMAIN items = 1 .. Len(items)
      /\ \A k \in DOMAIN items : items[k] \in Item
  OBVIOUS
<1>2. \A k \in DOMAIN items :
        [scanner  |-> Source(t),
         severity |-> SeverityOf(t, items[k].level),
         path     |-> items[k].path] \in Finding
  <2> SUFFICES ASSUME NEW k \in DOMAIN items
               PROVE  [scanner  |-> Source(t),
                       severity |-> SeverityOf(t, items[k].level),
                       path     |-> items[k].path] \in Finding
    OBVIOUS
  <2>1. items[k].level \in Levels /\ items[k].path \in Path
    BY <1>1 DEF Item
  <2> QED
    BY <2>1, SeverityKnown DEF Finding
<1>3. Parsed(t, items) \in [1 .. Len(items) -> Finding]
  BY <1>1, <1>2 DEF Parsed
<1> QED
  BY <1>1, <1>3

LEMMA ReportTyped ==
  ASSUME NEW t \in Tools, NEW out \in Outcome, NEW done
  PROVE  /\ RunTool(t, out, done).ok \in BOOLEAN
         /\ RunTool(t, out, done).findings \in Seq(Finding)
<1>1. Parsed(t, out.items) \in Seq(Finding) /\ <<>> \in Seq(Finding)
  BY ParsedTyped DEF Outcome
<1>2. CASE Accepted(t, out, done)
  BY <1>1, <1>2 DEF RunTool
<1>3. CASE ~Accepted(t, out, done)
  BY <1>1, <1>3 DEF RunTool
<1> QED
  BY <1>2, <1>3

-----------------------------------------------------------------------------

\* A goroutine takes or hands back one token, and the count follows.
LEMMA TokenTaken ==
  ASSUME TypeOK, SlotsBounded, NEW t \in Tools, pc[t] = "select", sem < MaxConcurrency,
         sem' = sem + 1, pc' = [pc EXCEPT ![t] = "running"]
  PROVE  SlotsBounded'
<1>1. Holding' = Holding \cup {t} /\ t \notin Holding
  BY DEF Holding, Running, Releasing, TypeOK
<1>2. IsFiniteSet(Holding) /\ Cardinality(Holding) \in Nat
  BY ToolSetFinite DEF Holding, Running, Releasing
<1>3. Cardinality(Holding') = Cardinality(Holding) + 1
  BY <1>1, <1>2, FS_AddElement
<1>4. sem = Cardinality(Holding)
  BY DEF SlotsBounded, Holding
<1>5. sem' <= MaxConcurrency
  BY MaxConcurrencyAssumption DEF TypeOK
<1> QED
  BY <1>3, <1>4, <1>5 DEF SlotsBounded, Holding

LEMMA TokenReturned ==
  ASSUME TypeOK, SlotsBounded, NEW t \in Tools, pc[t] = "releasing",
         sem' = sem - 1, pc' = [pc EXCEPT ![t] = "done"]
  PROVE  SlotsBounded' /\ sem' \in Nat
<1>1. Holding' = Holding \ {t} /\ t \in Holding
  BY DEF Holding, Running, Releasing, TypeOK
<1>2. IsFiniteSet(Holding) /\ Cardinality(Holding) \in Nat
  BY ToolSetFinite DEF Holding, Running, Releasing
<1>3. Cardinality(Holding') = Cardinality(Holding) - 1
  BY <1>1, <1>2, FS_RemoveElement
<1>4. sem = Cardinality(Holding) /\ sem <= MaxConcurrency
  BY DEF SlotsBounded, Holding
<1>5. Cardinality(Holding') \in Nat
  <2>1. Holding' \in SUBSET Tools
    BY DEF Holding, Running, Releasing
  <2> QED
    BY <2>1, ToolSetFinite
<1>6. sem' <= MaxConcurrency
  BY <1>2, <1>4, MaxConcurrencyAssumption
<1> QED
  BY <1>3, <1>4, <1>5, <1>6 DEF SlotsBounded, Holding

\* A step that moves no goroutine in or out of a slot leaves the count alone.
LEMMA TokensKept ==
  ASSUME SlotsBounded, UNCHANGED sem, Holding' = Holding
  PROVE  SlotsBounded'
BY DEF SlotsBounded, Holding

-----------------------------------------------------------------------------

\* A goroutine that had sent nothing sends its result.
LEMMA SendKeeps ==
  ASSUME TypeOK, EachSentOnce, NEW r \in Result, r.tool \notin Sent,
         results' = Append(results, r), UNCHANGED timings, Sent' = Sent \cup {r.tool}
  PROVE  EachSentOnce'
<1>1. results \in Seq(Result)
  BY DEF TypeOK
<1> DEFINE n == Len(results)
<1>2. /\ n \in Nat
      /\ DOMAIN results = 1 .. n
      /\ DOMAIN results' = 1 .. n + 1
      /\ \A i \in 1 .. n : results'[i] = results[i]
      /\ results'[n + 1] = r
  BY <1>1, AppendProperties
<1> HIDE DEF n
<1>3. r.tool \notin Pending /\ r.tool \notin timings
  BY DEF EachSentOnce
<1>4. \A i \in 1 .. n : results[i].tool \in Pending
  BY <1>2 DEF Pending
<1>5. Pending' = Pending \cup {r.tool}
  <2>1. Pending' = {results'[i].tool : i \in 1 .. n + 1}
    BY <1>2 DEF Pending
  <2>2. 1 .. n + 1 = (1 .. n) \cup {n + 1}
    BY <1>2
  <2> QED
    BY <1>2, <2>1, <2>2 DEF Pending
<1>6. ASSUME NEW i \in DOMAIN results', NEW j \in DOMAIN results',
             results'[i].tool = results'[j].tool
      PROVE  i = j
  <2>1. CASE i \in 1 .. n /\ j \in 1 .. n
    BY <1>2, <1>6, <2>1 DEF EachSentOnce
  <2>2. CASE i = n + 1 /\ j \in 1 .. n
    BY <1>2, <1>3, <1>4, <1>6, <2>2
  <2>3. CASE i \in 1 .. n /\ j = n + 1
    BY <1>2, <1>3, <1>4, <1>6, <2>3
  <2>4. CASE i = n + 1 /\ j = n + 1
    BY <2>4
  <2> QED
    BY <1>2, <2>1, <2>2, <2>3, <2>4
<1>7. Sent' = timings' \cup Pending' /\ timings' \cap Pending' = {}
  BY <1>3, <1>5 DEF EachSentOnce
<1> QED
  BY <1>6, <1>7 DEF EachSentOnce

\* The collector takes the first result out of the channel.
LEMMA ReceiveKeeps ==
  ASSUME TypeOK, EachSentOnce, results # <<>>, results' = Tail(results),
         timings' = timings \cup {Head(results).tool}, Sent' = Sent
  PROVE  EachSentOnce'
<1>1. results \in Seq(Result)
  BY DEF TypeOK
<1> DEFINE n == Len(results)
<1>2. /\ n \in Nat \ {0}
      /\ DOMAIN results = 1 .. n
      /\ DOMAIN results' = 1 .. n - 1
      /\ \A i \in 1 .. n - 1 : results'[i] = results[i + 1]
      /\ Head(results) = results[1]
  BY <1>1, HeadTailProperties
<1> HIDE DEF n
<1>3. Pending = {results[1].tool} \cup Pending'
  <2>1. ASSUME NEW i \in 1 .. n - 1 PROVE results'[i].tool \in Pending
    <3>1. results'[i] = results[i + 1] /\ i + 1 \in DOMAIN results
      BY <1>2
    <3> QED
      BY <3>1 DEF Pending
  <2>2. results[1].tool \in Pending
    BY <1>2 DEF Pending
  <2>3. ASSUME NEW k \in 1 .. n, k # 1 PROVE results[k].tool \in Pending'
    <3>1. k - 1 \in DOMAIN results' /\ results'[k - 1] = results[k]
      BY <1>2, <2>3
    <3> QED
      BY <3>1 DEF Pending
  <2>4. Pending' \subseteq Pending
    BY <1>2, <2>1 DEF Pending
  <2>5. Pending \subseteq {results[1].tool} \cup Pending'
    BY <1>2, <2>3 DEF Pending
  <2> QED
    BY <2>2, <2>4, <2>5
<1>4. results[1].tool \notin Pending'
  <2> SUFFICES ASSUME NEW i \in 1 .. n - 1, results[i + 1].tool = results[1].tool
               PROVE  FALSE
    BY <1>2 DEF Pending
  <2>1. i + 1 \in DOMAIN results /\ 1 \in DOMAIN results /\ i + 1 # 1
    BY <1>2
  <2> QED
    BY <2>1 DEF EachSentOnce
<1>5. ASSUME NEW i \in DOMAIN results', NEW j \in DOMAIN results',
             results'[i].tool = results'[j].tool
      PROVE  i = j
  <2>1. i + 1 \in DOMAIN results /\ j + 1 \in DOMAIN results
    BY <1>2
  <2>2. i + 1 = j + 1
    BY <1>2, <1>5, <2>1 DEF EachSentOnce
  <2> QED
    BY <1>2, <2>2
<1>6. Sent' = timings' \cup Pending' /\ timings' \cap Pending' = {}
  BY <1>2, <1>3, <1>4 DEF EachSentOnce
<1> QED
  BY <1>5, <1>6 DEF EachSentOnce

\* A result that an adapter can send is one the channel can carry.
LEMMA SendTyped ==
  ASSUME TypeOK, NEW r \in Result, results' = Append(results, r)
  PROVE  results' \in Seq(Result)
BY AppendProperties DEF TypeOK

-----------------------------------------------------------------------------

LEMMA InitIInv == Init => IInv
<1> SUFFICES ASSUME Init PROVE IInv
  OBVIOUS
<1>1. TypeOK
  <2>1. /\ pc \in [Tools -> {"idle", "select", "running", "releasing", "done"}]
        /\ began \in [Tools -> Nat]
        /\ outcome \in [Tools -> Outcome \cup {NoOutcome}]
    BY DEF Init
  <2>2. results \in Seq(Result) /\ allFindings \in Seq(Finding)
    BY DEF Init
  <2>3. /\ fleet \in {"idle", "running", "ok", "failed"}
        /\ scanners \subseteq Tools /\ timings \subseteq Tools /\ scanErrors \subseteq Tools
        /\ sem \in Nat /\ now \in Nat /\ canceled \in BOOLEAN
    BY DEF Init
  <2> QED
    BY <2>1, <2>2, <2>3, Zenon DEF TypeOK
<1>2. Holding = {} /\ Sent = {}
  BY DEF Init, Holding, Running, Releasing, Sent
<1>3. SlotsBounded
  BY <1>2, FS_EmptySet, MaxConcurrencyAssumption DEF Init, SlotsBounded, Holding
<1>4. Pending = {} /\ DOMAIN results = {}
  BY DEF Init, Pending
<1>5. EachSentOnce
  BY <1>2, <1>4 DEF Init, EachSentOnce
<1>6. Launched /\ ReturnedComplete
  BY DEF Init, Launched, ReturnedComplete, Returned
<1> QED
  BY <1>1, <1>3, <1>5, <1>6 DEF IInv

LEMMA LaunchKeeps ==
  ASSUME IInv, NEW S \in SUBSET Tools, Launch(S)
  PROVE  IInv'
<1>1. TypeOK'
  BY DEF IInv, TypeOK, Launch
<1>2. Holding = {} /\ Holding' = {} /\ Sent = {} /\ Sent' = {}
  BY DEF IInv, Launched, Launch, Holding, Running, Releasing, Sent
<1>3. SlotsBounded'
  BY <1>2, TokensKept DEF IInv, Launch
<1>4. EachSentOnce'
  BY <1>2 DEF IInv, Launch, EachSentOnce, Pending
<1>5. Launched' /\ ReturnedComplete'
  BY DEF Launch, Launched, ReturnedComplete, Returned
<1> QED
  BY <1>1, <1>3, <1>4, <1>5 DEF IInv

LEMMA AcquireKeeps ==
  ASSUME IInv, NEW t \in Tools, Acquire(t)
  PROVE  IInv'
<1>1. TypeOK'
  <2>1. /\ pc' \in [Tools -> {"idle", "select", "running", "releasing", "done"}]
        /\ sem' \in Nat
        /\ began' \in [Tools -> Nat]
    BY DEF IInv, TypeOK, Acquire
  <2> QED
    BY <2>1, Zenon DEF IInv, TypeOK, Acquire
<1>2. SlotsBounded'
  BY TokenTaken DEF IInv, Acquire
<1>3. Sent' = Sent
  BY DEF IInv, TypeOK, Acquire, Sent
<1>4. EachSentOnce'
  BY <1>3 DEF IInv, Acquire, EachSentOnce, Pending
<1>5. Launched' /\ ReturnedComplete'
  BY DEF IInv, TypeOK, Acquire, Launched, ReturnedComplete, Returned
<1> QED
  BY <1>1, <1>2, <1>4, <1>5 DEF IInv

LEMMA GiveUpKeeps ==
  ASSUME IInv, NEW t \in Tools, GiveUp(t)
  PROVE  IInv'
<1> DEFINE r == [tool |-> t, ok |-> FALSE, findings |-> <<>>]
<1>1. r \in Result /\ r.tool = t
  BY DEF Result
<1>2. results' = Append(results, r)
  BY DEF GiveUp
<1> HIDE DEF r
<1>3. TypeOK'
  <2>1. pc' \in [Tools -> {"idle", "select", "running", "releasing", "done"}]
    BY DEF IInv, TypeOK, GiveUp
  <2>2. results' \in Seq(Result)
    BY <1>1, <1>2, SendTyped DEF IInv
  <2> QED
    BY <2>1, <2>2, Zenon DEF IInv, TypeOK, GiveUp
<1>4. Holding' = Holding /\ Sent' = Sent \cup {t} /\ t \notin Sent
  BY DEF IInv, TypeOK, GiveUp, Holding, Running, Releasing, Sent
<1>5. SlotsBounded'
  BY <1>4, TokensKept DEF IInv, GiveUp
<1>6. EachSentOnce'
  BY <1>1, <1>2, <1>4, SendKeeps DEF IInv, GiveUp
<1>7. Launched' /\ ReturnedComplete'
  BY DEF IInv, TypeOK, GiveUp, Launched, ReturnedComplete, Returned
<1> QED
  BY <1>3, <1>5, <1>6, <1>7 DEF IInv

LEMMA FinishKeeps ==
  ASSUME IInv, NEW t \in Tools, Finish(t)
  PROVE  IInv'
<1>1. PICK out \in OutcomesOf[t] :
        /\ outcome' = [outcome EXCEPT ![t] = out]
        /\ results' = Append(results,
                        [tool     |-> t,
                         ok       |-> RunTool(t, out, scanCtxDone(t)).ok,
                         findings |-> RunTool(t, out, scanCtxDone(t)).findings])
  BY DEF Finish
<1>2. out \in Outcome
  BY OutcomesAssumption
<1> DEFINE r == [tool     |-> t,
                 ok       |-> RunTool(t, out, scanCtxDone(t)).ok,
                 findings |-> RunTool(t, out, scanCtxDone(t)).findings]
<1>3. r \in Result /\ r.tool = t
  BY <1>2, ReportTyped DEF Result
<1>4. results' = Append(results, r)
  BY <1>1
<1> HIDE DEF r
<1>5. TypeOK'
  <2>1. /\ pc' \in [Tools -> {"idle", "select", "running", "releasing", "done"}]
        /\ outcome' \in [Tools -> Outcome \cup {NoOutcome}]
    BY <1>1, <1>2 DEF IInv, TypeOK, Finish
  <2>2. results' \in Seq(Result)
    BY <1>3, <1>4, SendTyped DEF IInv
  <2> QED
    BY <2>1, <2>2, Zenon DEF IInv, TypeOK, Finish
<1>6. Holding' = Holding /\ Sent' = Sent \cup {t} /\ t \notin Sent
  BY DEF IInv, TypeOK, Finish, Holding, Running, Releasing, Sent
<1>7. SlotsBounded'
  BY <1>6, TokensKept DEF IInv, Finish
<1>8. EachSentOnce'
  BY <1>3, <1>4, <1>6, SendKeeps DEF IInv, Finish
<1>9. Launched' /\ ReturnedComplete'
  BY DEF IInv, TypeOK, Finish, Launched, ReturnedComplete, Returned
<1> QED
  BY <1>5, <1>7, <1>8, <1>9 DEF IInv

LEMMA ReleaseKeeps ==
  ASSUME IInv, NEW t \in Tools, Release(t)
  PROVE  IInv'
<1>1. SlotsBounded' /\ sem' \in Nat
  BY TokenReturned DEF IInv, Release
<1>2. TypeOK'
  <2>1. pc' \in [Tools -> {"idle", "select", "running", "releasing", "done"}]
    BY DEF IInv, TypeOK, Release
  <2> QED
    BY <1>1, <2>1, Zenon DEF IInv, TypeOK, Release
<1>3. Sent' = Sent
  BY DEF IInv, TypeOK, Release, Sent
<1>4. EachSentOnce'
  BY <1>3 DEF IInv, Release, EachSentOnce, Pending
<1>5. Launched' /\ ReturnedComplete'
  BY DEF IInv, TypeOK, Release, Launched, ReturnedComplete, Returned
<1> QED
  BY <1>1, <1>2, <1>4, <1>5 DEF IInv

LEMMA CollectKeeps ==
  ASSUME IInv, Collect
  PROVE  IInv'
<1>1. results \in Seq(Result) /\ results # <<>>
  BY DEF IInv, TypeOK, Collect
<1>2. Head(results) \in Result /\ Tail(results) \in Seq(Result)
  BY <1>1, HeadTailProperties
<1>3. TypeOK'
  <2>1. /\ Head(results).tool \in Tools
        /\ allFindings \o Head(results).findings \in Seq(Finding)
    BY <1>2, ConcatProperties DEF Result, IInv, TypeOK
  <2>2. /\ timings' \subseteq Tools /\ scanErrors' \subseteq Tools
        /\ allFindings' \in Seq(Finding) /\ results' \in Seq(Result)
    BY <1>2, <2>1 DEF IInv, TypeOK, Collect
  <2> QED
    BY <2>2, Zenon DEF IInv, TypeOK, Collect
<1>4. Holding' = Holding /\ Sent' = Sent
  BY DEF Collect, Holding, Running, Releasing, Sent
<1>5. SlotsBounded'
  BY <1>4, TokensKept DEF IInv, Collect
<1>6. EachSentOnce'
  BY <1>4, ReceiveKeeps DEF IInv, Collect
<1>7. Launched' /\ ReturnedComplete'
  BY DEF IInv, Collect, Launched, ReturnedComplete, Returned
<1> QED
  BY <1>3, <1>5, <1>6, <1>7 DEF IInv

\* As many results as scanners were received, and no scanner sends two: these
\* are the results of all of them.
LEMMA ReturnKeeps ==
  ASSUME IInv, Return
  PROVE  IInv'
<1>1. TypeOK'
  BY DEF IInv, TypeOK, Return
<1>2. Holding' = Holding /\ Sent' = Sent
  BY DEF Return, Holding, Running, Releasing, Sent
<1>3. SlotsBounded'
  BY <1>2, TokensKept DEF IInv, Return
<1>4. EachSentOnce'
  BY <1>2 DEF IInv, Return, EachSentOnce, Pending
<1>5. Launched'
  BY DEF IInv, Launched, Return
<1>6. timings = scanners
  <2>1. scanners \in SUBSET Tools /\ timings \in SUBSET scanners
    BY DEF IInv, TypeOK, Return, Launched, EachSentOnce, Sent
  <2>2. IsFiniteSet(scanners)
    BY <2>1, ToolSetFinite
  <2> QED
    BY <2>1, <2>2, FS_Subset DEF Return
<1>7. ReturnedComplete'
  BY <1>6 DEF Return, ReturnedComplete
<1> QED
  BY <1>1, <1>3, <1>4, <1>5, <1>7 DEF IInv

\* The caller's context and the clock.
LEMMA EnvironmentKeeps ==
  ASSUME IInv, Cancel \/ Tick \/ UNCHANGED fleetVars
  PROVE  IInv'
<1>1. TypeOK'
  <2>1. canceled' \in BOOLEAN /\ now' \in Nat
    <3>1. canceled \in BOOLEAN /\ now \in Nat
      BY DEF IInv, TypeOK
    <3>2. CASE Cancel
      BY <3>1, <3>2 DEF Cancel
    <3>3. CASE Tick
      BY <3>1, <3>3 DEF Tick
    <3>4. CASE UNCHANGED fleetVars
      BY <3>1, <3>4 DEF fleetVars
    <3> QED
      BY <3>2, <3>3, <3>4
  <2>2. UNCHANGED <<fleet, scanners, pc, sem, results, timings, scanErrors, allFindings, began,
                    outcome>>
    BY DEF Cancel, Tick, fleetVars
  <2> QED
    BY <2>1, <2>2, Zenon DEF IInv, TypeOK
<1>2. UNCHANGED <<fleet, scanners, pc, sem, results, timings>>
  BY DEF Cancel, Tick, fleetVars
<1>3. SlotsBounded' /\ Launched' /\ EachSentOnce' /\ ReturnedComplete'
  BY <1>2 DEF IInv, SlotsBounded, Running, Releasing, Launched, EachSentOnce, Sent, Pending,
              ReturnedComplete, Returned
<1> QED
  BY <1>1, <1>3 DEF IInv

LEMMA NextIInv == IInv /\ [Next]_fleetVars => IInv'
<1> SUFFICES ASSUME IInv, [Next]_fleetVars PROVE IInv'
  OBVIOUS
<1>1. ASSUME NEW tree \in Target, Launch(ScopeOf(tree)) PROVE IInv'
  <2>1. ScopeOf(tree) \in SUBSET Tools
    BY DEF ScopeOf, Tools
  <2> QED
    BY <1>1, <2>1, LaunchKeeps
<1>2. ASSUME NEW t \in Tools, Goroutine(t) PROVE IInv'
  BY <1>2, AcquireKeeps, GiveUpKeeps, FinishKeeps, ReleaseKeeps DEF Goroutine
<1>3. CASE Collect
  BY <1>3, CollectKeeps
<1>4. CASE Return
  BY <1>4, ReturnKeeps
<1>5. CASE Cancel \/ Tick \/ UNCHANGED fleetVars
  BY <1>5, EnvironmentKeeps
<1> QED
  BY <1>1, <1>2, <1>3, <1>4, <1>5 DEF Next, FleetStep

THEOREM Invariance == Spec => []IInv
<1> QED
  BY InitIInv, NextIInv, PTL DEF Spec

-----------------------------------------------------------------------------

(***************************************************************************)
(* Type correctness of the fleet (adapter_local.go:225-321).               *)
(***************************************************************************)
THEOREM Typing == Spec => []TypeOK
<1>1. IInv => TypeOK
  BY DEF IInv
<1> QED
  BY <1>1, Invariance, PTL

(***************************************************************************)
(* Whatever KURO_MAX_CONCURRENCY is, never more containers run at once,    *)
(* and no path of a goroutine loses a token (adapter_local.go:244-262).    *)
(***************************************************************************)
THEOREM ConcurrencyBounded == Spec => []SlotsBounded
<1>1. IInv => SlotsBounded
  BY DEF IInv
<1> QED
  BY <1>1, Invariance, PTL

\* Each result was sent once, so as many results as scanners are all of them.
LEMMA AllEnded == IInv => NoScannerOutlivesRun
<1> SUFFICES ASSUME IInv, Returned
             PROVE  /\ \A t \in scanners : pc[t] \in {"releasing", "done"}
                    /\ timings = scanners
                    /\ results = <<>>
  BY DEF NoScannerOutlivesRun
<1>1. timings = scanners
  BY DEF IInv, ReturnedComplete
<1>2. \A t \in scanners : pc[t] \in {"releasing", "done"}
  BY <1>1 DEF IInv, EachSentOnce, Sent
<1>3. scanners = {t \in Tools : pc[t] # "idle"}
  BY DEF IInv, Launched, Returned
<1>4. Pending = {}
  BY <1>1, <1>3 DEF IInv, EachSentOnce, Sent
<1>5. results = <<>>
  <2>1. results \in Seq(Result)
    BY DEF IInv, TypeOK
  <2>2. SUFFICES ASSUME results # <<>> PROVE FALSE
    OBVIOUS
  <2>3. 1 \in DOMAIN results
    BY <2>1, <2>2
  <2> QED
    BY <1>4, <2>3 DEF Pending
<1> QED
  BY <1>1, <1>2, <1>5

(***************************************************************************)
(* Counting len(scanners) results is enough: when Run returns each scanner *)
(* has sent its own, all were received, and no container of the scan is    *)
(* running or waiting (adapter_local.go:300-321).                          *)
(***************************************************************************)
THEOREM RunOutlivesScanners == Spec => []NoScannerOutlivesRun
BY AllEnded, Invariance, PTL

\* The goroutines that have yet to send, and those that need nobody to go on.
ToSend     == {t \in Tools : pc[t] \in {"select", "running"}}
MayGoOn(t) == t \in Holding \/ (pc[t] = "select" /\ (sem < MaxConcurrency \/ ctxDone))

\* While Run has not returned there is a result to receive, or all were received, or
\* some goroutine needs nobody to go on; and the channel, which is made for as many
\* results as there are scanners, has room for each one that is yet to be sent.
NobodyIsStuck ==
  /\ fleet = "running" => \/ results # <<>>
                          \/ timings = scanners
                          \/ \E t \in scanners : MayGoOn(t)
  /\ Len(results) + Cardinality(ToSend) <= Cardinality(scanners)

LEMMA SomebodyMayGoOn ==
  ASSUME IInv, fleet = "running", results = <<>>, timings # scanners
  PROVE  \E t \in scanners : MayGoOn(t)
<1>1. scanners = {t \in Tools : pc[t] # "idle"} /\ pc \in [Tools -> {"idle", "select", "running", "releasing", "done"}]
  BY DEF IInv, Launched, TypeOK
<1>2. Sent = timings
  BY DEF IInv, EachSentOnce, Pending
<1>3. PICK t \in scanners : pc[t] \in {"select", "running"}
  BY <1>1, <1>2 DEF Sent
<1>4. CASE pc[t] = "running"
  BY <1>1, <1>4 DEF MayGoOn, Holding, Running
<1>5. CASE pc[t] = "select" /\ sem < MaxConcurrency
  BY <1>5 DEF MayGoOn
<1>6. CASE ~(sem < MaxConcurrency)
  <2>1. Cardinality(Holding) \in Nat \ {0}
    BY <1>6, MaxConcurrencyAssumption DEF IInv, SlotsBounded, TypeOK, Holding
  <2>2. Holding # {}
    BY <2>1, FS_EmptySet
  <2>3. Holding \subseteq scanners
    BY <1>1 DEF Holding, Running, Releasing
  <2> QED BY <2>2, <2>3 DEF MayGoOn
<1> QED BY <1>3, <1>4, <1>5, <1>6

LEMMA SendsHaveRoom ==
  ASSUME IInv
  PROVE  Len(results) + Cardinality(ToSend) <= Cardinality(scanners)
<1>0. CASE fleet = "idle"
  <2>1. Len(results) = 0 /\ ToSend = {}
    BY <1>0 DEF IInv, Launched, ToSend
  <2>2. Cardinality(scanners) \in Nat
    BY ToolSetFinite DEF IInv, TypeOK
  <2> QED BY <2>1, <2>2, FS_EmptySet
<1> SUFFICES ASSUME fleet # "idle"
             PROVE  Len(results) + Cardinality(ToSend) <= Cardinality(scanners)
  BY <1>0
<1>1. scanners = {t \in Tools : pc[t] # "idle"}
  BY DEF IInv, Launched
<1>2. Pending \subseteq scanners /\ Pending \cap ToSend = {} /\ ToSend \subseteq scanners
  BY <1>1 DEF IInv, EachSentOnce, Sent, ToSend
<1>3. /\ IsFiniteSet(Pending) /\ IsFiniteSet(ToSend) /\ IsFiniteSet(scanners)
      /\ Cardinality(Pending) \in Nat /\ Cardinality(ToSend) \in Nat /\ Cardinality(scanners) \in Nat
  <2>1. Pending \in SUBSET Tools /\ ToSend \in SUBSET Tools /\ scanners \in SUBSET Tools
    BY <1>1, <1>2
  <2> QED BY <2>1, ToolSetFinite
<1>4. Cardinality(Pending \cup ToSend) = Cardinality(Pending) + Cardinality(ToSend)
  <2>1. Cardinality(Pending \cup ToSend)
          = Cardinality(Pending) + Cardinality(ToSend) - Cardinality(Pending \cap ToSend)
    BY <1>3, FS_Union
  <2>2. Cardinality(Pending \cap ToSend) = 0
    BY <1>2, FS_EmptySet
  <2> QED BY <1>3, <2>1, <2>2
<1>5. Cardinality(Pending \cup ToSend) <= Cardinality(scanners)
  BY <1>2, <1>3, FS_Subset
<1>6. Len(results) \in Nat /\ Len(results) <= Cardinality(Pending)
  <2> DEFINE n == Len(results)
             sender == [i \in 1 .. n |-> results[i].tool]
  <2>1. n \in Nat /\ DOMAIN results = 1 .. n
    BY DEF IInv, TypeOK
  <2>2. sender \in Injection(1 .. n, Pending)
    BY <2>1 DEF Injection, IsInjective, Pending, IInv, EachSentOnce
  <2> HIDE DEF sender, n
  <2>3. Cardinality(1 .. n) <= Cardinality(Pending)
    BY <1>3, <2>2, FS_Injection
  <2>4. Cardinality(1 .. n) = n
    BY <2>1, FS_Interval
  <2> QED BY <2>1, <2>3, <2>4 DEF n
<1> QED BY <1>3, <1>4, <1>5, <1>6

LEMMA NotStuck == IInv => NobodyIsStuck
BY SomebodyMayGoOn, SendsHaveRoom DEF NobodyIsStuck

(***************************************************************************)
(* No goroutine waits for one that waits for it, on the semaphore or on    *)
(* the results, and no send ever blocks, which is why a goroutine sends    *)
(* while it holds its slot: the safety part of "Run returns"               *)
(* (adapter_local.go:233-300).                                             *)
(***************************************************************************)
THEOREM NoGoroutineIsStuck == Spec => []NobodyIsStuck
BY NotStuck, Invariance, PTL

-----------------------------------------------------------------------------

\* The findings of a set of tools, whose containers did what o says, by place.
Places(o, S) == {p \in S \X (Nat \ {0}) : p[2] \in DOMAIN o[p[1]].items}
Entry(o, p)  == Parsed(p[1], o[p[1]].items)[p[2]]

\* h says of each finding of s which one of the tools in S it is.
Names1to1(h, o, s, S) ==
  /\ h \in [DOMAIN s -> Places(o, S)]
  /\ \A i, j \in DOMAIN s : h[i] = h[j] => i = j
  /\ \A p \in Places(o, S) : \E i \in DOMAIN s : h[i] = p
  /\ \A i \in DOMAIN s : s[i] = Entry(o, h[i])

\* s holds the findings of the tools in S, each once, in some order.
Lists(o, s, S) == \E h : Names1to1(h, o, s, S)

LEMMA ListsNothing == \A o : Lists(o, <<>>, {})
<1> SUFFICES ASSUME NEW o PROVE Lists(o, <<>>, {})
  OBVIOUS
<1>1. Places(o, {}) = {} /\ DOMAIN <<>> = {}
  BY DEF Places
<1>2. Names1to1([i \in {} |-> i], o, <<>>, {})
  BY <1>1 DEF Names1to1
<1> QED BY <1>2 DEF Lists

\* It stays so while other containers end.
LEMMA ListsStand ==
  ASSUME NEW o, NEW q, NEW s, NEW S, Lists(o, s, S), \A t \in S : q[t] = o[t]
  PROVE  Lists(q, s, S)
<1>1. Places(q, S) = Places(o, S)
  BY DEF Places
<1>2. \A p \in Places(o, S) : Entry(q, p) = Entry(o, p)
  BY DEF Places, Entry
<1>3. PICK h : Names1to1(h, o, s, S)
  BY DEF Lists
<1>4. Names1to1(h, q, s, S)
  BY <1>1, <1>2, <1>3 DEF Names1to1
<1> QED BY <1>4 DEF Lists

\* The findings of one more tool are appended.
LEMMA ListsMore ==
  ASSUME NEW o, NEW S, NEW t \in Tools, t \notin S, o[t] \in Outcome,
         NEW s \in Seq(Finding), Lists(o, s, S)
  PROVE  Lists(o, s \o Parsed(t, o[t].items), S \cup {t})
<1> DEFINE new == Parsed(t, o[t].items)
           n == Len(s)
           m == Len(new)
<1>1. PICK h : Names1to1(h, o, s, S)
  BY DEF Lists
<1>2. /\ o[t].items \in Seq(Item) /\ new \in Seq(Finding)
      /\ DOMAIN new = DOMAIN o[t].items
  BY ParsedTyped DEF Outcome
<1> HIDE DEF new
<1>3. /\ n \in Nat /\ m \in Nat /\ DOMAIN s = 1 .. n /\ DOMAIN new = 1 .. m
      /\ DOMAIN (s \o new) = 1 .. n + m
      /\ \A i \in 1 .. n + m : (s \o new)[i] = IF i <= n THEN s[i] ELSE new[i - n]
  <2>1. /\ s \o new \in Seq(Finding) /\ Len(s \o new) = Len(s) + Len(new)
        /\ \A i \in 1 .. Len(s) + Len(new) :
             (s \o new)[i] = IF i <= Len(s) THEN s[i] ELSE new[i - Len(s)]
    BY <1>2, ConcatProperties
  <2> QED BY <1>2, <2>1
<1> DEFINE g == [i \in 1 .. n + m |-> IF i <= n THEN h[i] ELSE <<t, i - n>>]
<1> HIDE DEF n, m
<1>4. /\ Places(o, S \cup {t}) = Places(o, S) \cup {<<t, k>> : k \in 1 .. m}
      /\ \A p \in Places(o, S) : p[1] # t
  <2>1. \A p \in Places(o, S) : p[1] \in S
    BY DEF Places
  <2>2. Places(o, S) \subseteq Places(o, S \cup {t})
    BY DEF Places
  <2>3. ASSUME NEW k \in 1 .. m PROVE <<t, k>> \in Places(o, S \cup {t})
    <3>1. k \in Nat \ {0} /\ k \in DOMAIN o[t].items
      BY <1>2, <1>3
    <3>2. <<t, k>> \in (S \cup {t}) \X (Nat \ {0}) /\ <<t, k>>[1] = t /\ <<t, k>>[2] = k
      BY <3>1
    <3> QED BY <3>1, <3>2 DEF Places
  <2>4. ASSUME NEW p \in Places(o, S \cup {t}), p \notin Places(o, S)
        PROVE  p \in {<<t, k>> : k \in 1 .. m}
    <3>1. p = <<p[1], p[2]>> /\ p[1] \in S \cup {t} /\ p[2] \in DOMAIN o[p[1]].items
      BY DEF Places
    <3>2. p[1] = t
      BY <2>4, <3>1 DEF Places
    <3> QED BY <1>2, <1>3, <3>1, <3>2
  <2> QED BY <2>1, <2>2, <2>3, <2>4
<1>5. \A k \in 1 .. m : Entry(o, <<t, k>>) = new[k]
  BY DEF Entry, new
<1>6. \A i \in 1 .. n : i \in 1 .. n + m /\ g[i] = h[i] /\ h[i] \in Places(o, S)
  BY <1>1, <1>3 DEF Names1to1
<1>7. \A i \in 1 .. n + m : i \notin 1 .. n => i - n \in 1 .. m /\ g[i] = <<t, i - n>>
  BY <1>3
<1>8. g \in [1 .. n + m -> Places(o, S \cup {t})]
  <2> SUFFICES ASSUME NEW i \in 1 .. n + m PROVE g[i] \in Places(o, S \cup {t})
    OBVIOUS
  <2> QED BY <1>4, <1>6, <1>7
<1>9. ASSUME NEW i \in 1 .. n + m, NEW j \in 1 .. n + m, g[i] = g[j] PROVE i = j
  <2>1. CASE i \in 1 .. n /\ j \in 1 .. n
    BY <1>1, <1>3, <1>6, <1>9, <2>1 DEF Names1to1
  <2>2. CASE i \in 1 .. n /\ j \notin 1 .. n
    <3>1. h[i] = <<t, j - n>> /\ h[i][1] # t
      BY <1>4, <1>6, <1>7, <1>9, <2>2, Zenon
    <3> QED BY <3>1
  <2>3. CASE i \notin 1 .. n /\ j \in 1 .. n
    <3>1. h[j] = <<t, i - n>> /\ h[j][1] # t
      BY <1>4, <1>6, <1>7, <1>9, <2>3, Zenon
    <3> QED BY <3>1
  <2>4. CASE i \notin 1 .. n /\ j \notin 1 .. n
    <3>1. i - n = j - n
      BY <1>7, <1>9, <2>4
    <3> QED BY <1>3, <3>1
  <2> QED BY <2>1, <2>2, <2>3, <2>4
<1>10. ASSUME NEW p \in Places(o, S \cup {t}) PROVE \E i \in 1 .. n + m : g[i] = p
  <2>1. CASE p \in Places(o, S)
    BY <1>1, <1>3, <1>6, <2>1 DEF Names1to1
  <2>2. CASE p \in {<<t, k>> : k \in 1 .. m}
    <3>1. PICK k \in 1 .. m : p = <<t, k>>
      BY <2>2
    <3>2. n + k \in 1 .. n + m /\ n + k \notin 1 .. n /\ (n + k) - n = k
      BY <1>3
    <3> QED BY <1>7, <3>1, <3>2
  <2> QED BY <1>4, <2>1, <2>2
<1>11. ASSUME NEW i \in 1 .. n + m PROVE (s \o new)[i] = Entry(o, g[i])
  <2>1. CASE i \in 1 .. n
    BY <1>1, <1>3, <1>6, <2>1 DEF Names1to1
  <2>2. CASE i \notin 1 .. n
    BY <1>3, <1>5, <1>7, <2>2
  <2> QED BY <2>1, <2>2
<1>12. Names1to1(g, o, s \o new, S \cup {t})
  <2> HIDE DEF g
  <2> QED BY <1>3, <1>8, <1>9, <1>10, <1>11 DEF Names1to1
<1> QED BY <1>12 DEF Lists, new

\* They are about the engine that the pipeline calls.
LEMMA SameEngine ==
  /\ Laws!Finding = Finding
  /\ \A p, s : Laws!Evaluate(p, s) = Evaluate(p, s)
<1>1. Laws!Finding = Finding
  BY DEF Laws!Finding, Laws!Scanners, Laws!Severities, Laws!Path, Laws!Mounts,
         Finding, Scanners, Severities, Path, Mounts
<1>2. \A r, f : Laws!ruleMatches(r, f) <=> ruleMatches(r, f)
  BY DEF Laws!ruleMatches, Laws!Trim, Laws!Unset, ruleMatches, Trim, Unset
<1>3. \A r, s : Laws!Fires(r, s) <=> Fires(r, s)
  <2>1. \A r, s : Laws!Matching(r, s) = Matching(r, s)
    BY <1>2 DEF Laws!Matching, Matching
  <2>2. \A r : Laws!Threshold(r) = Threshold(r)
    BY DEF Laws!Threshold, Threshold
  <2> SUFFICES ASSUME NEW r, NEW s PROVE Laws!Fires(r, s) <=> Fires(r, s)
    OBVIOUS
  <2>3. Laws!Matching(r, s) = Matching(r, s) /\ Laws!Threshold(r) = Threshold(r)
    BY <2>1, <2>2
  <2>4. \A S : Laws!Cardinality(S) = Cardinality(S)
    BY DEF Laws!Cardinality, Cardinality
  <2> QED BY <2>3, <2>4 DEF Laws!Fires, Fires
<1>4. \A p, s, actions : Laws!RuleSays(p, s, actions) <=> RuleSays(p, s, actions)
  BY <1>3 DEF Laws!RuleSays, RuleSays
<1>5. \A p : Laws!Validate(p) <=> Validate(p)
  BY DEF Laws!Validate, Laws!RuleValid, Laws!Scanners, Laws!Severities, Laws!Actions, Laws!Unset,
         Validate, RuleValid, Scanners, Severities, Actions, Unset
<1>6. \A p, s : /\ Laws!Blocked(p, s) <=> Blocked(p, s)
                /\ Laws!Review(p, s) <=> Review(p, s)
  BY <1>4, <1>5 DEF Laws!Blocked, Laws!Review, Laws!BlockFloor, Laws!ReviewFloor,
         Blocked, Review, BlockFloor, ReviewFloor
<1> QED BY <1>1, <1>5, <1>6, Zenon DEF Laws!Evaluate, Evaluate

\* Two lists of the same findings are rearrangements of one another.
LEMMA ListsAgree ==
  ASSUME NEW o, NEW s, NEW u, NEW S, Lists(o, s, S), Lists(o, u, S)
  PROVE  \E g : Laws!Rearranges(g, s, u)
<1>1. PICK h : Names1to1(h, o, s, S)
  BY DEF Lists
<1>2. PICK k : Names1to1(k, o, u, S)
  BY DEF Lists
<1> DEFINE g == [i \in DOMAIN s |-> CHOOSE j \in DOMAIN u : k[j] = h[i]]
<1>3. \A i \in DOMAIN s : g[i] \in DOMAIN u /\ k[g[i]] = h[i]
  BY <1>1, <1>2 DEF Names1to1
<1>4. g \in [DOMAIN s -> DOMAIN u]
  BY <1>3
<1> HIDE DEF g
<1>5. \A i, j \in DOMAIN s : g[i] = g[j] => i = j
  BY <1>1, <1>3 DEF Names1to1
<1>6. ASSUME NEW j \in DOMAIN u PROVE \E i \in DOMAIN s : g[i] = j
  <2>1. PICK i \in DOMAIN s : h[i] = k[j]
    BY <1>1, <1>2 DEF Names1to1
  <2> QED BY <1>2, <1>3, <2>1 DEF Names1to1
<1>7. \A i \in DOMAIN s : u[g[i]] = s[i]
  BY <1>1, <1>2, <1>3 DEF Names1to1
<1> QED BY <1>4, <1>5, <1>6, <1>7 DEF Laws!Rearranges

-----------------------------------------------------------------------------

\* A scanner whose container did o[t] is believed; so is its result r.
Believed(o, t) == o[t] \in Outcome /\ Accepted(t, o[t], FALSE)
Reported(o, r) ==
  r.ok => Believed(o, r.tool) /\ r.findings = Parsed(r.tool, o[r.tool].items)

\* What the collector has are the findings of the scanners without an error.
Gathered ==
  /\ scanErrors \subseteq timings
  /\ \A t \in timings \ scanErrors : Believed(outcome, t)
  /\ Lists(outcome, allFindings, timings \ scanErrors)

Collected ==
  /\ \A t \in Tools \ Sent : outcome[t] = NoOutcome
  /\ \A i \in DOMAIN results : Reported(outcome, results[i])
  /\ Gathered
  /\ fleet = "ok" => scanErrors = {}

FleetInv == IInv /\ Collected

LEMMA InitFleetInv == Init => FleetInv
<1> SUFFICES ASSUME Init PROVE FleetInv
  OBVIOUS
<1>1. IInv
  BY InitIInv
<1>2. timings \ scanErrors = {} /\ allFindings = <<>> /\ DOMAIN results = {} /\ fleet # "ok"
  BY DEF Init
<1>3. Gathered
  BY <1>2, ListsNothing DEF Init, Gathered
<1>4. \A t \in Tools : outcome[t] = NoOutcome
  BY DEF Init
<1> QED BY <1>1, <1>2, <1>3, <1>4 DEF FleetInv, Collected

\* Results sent and findings collected stand while other containers end.
LEMMA ResultsStand ==
  ASSUME FleetInv, \A t \in Sent : outcome'[t] = outcome[t]
  PROVE  /\ \A i \in DOMAIN results : Reported(outcome', results[i])
         /\ UNCHANGED <<timings, scanErrors, allFindings>> => Gathered'
<1>1. \A i \in DOMAIN results : outcome'[results[i].tool] = outcome[results[i].tool]
  BY DEF FleetInv, IInv, EachSentOnce, Pending
<1>2. \A t \in timings : outcome'[t] = outcome[t]
  BY DEF FleetInv, IInv, EachSentOnce
<1>3. \A i \in DOMAIN results : Reported(outcome', results[i])
  BY <1>1 DEF FleetInv, Collected, Reported, Believed
<1>4. ASSUME UNCHANGED <<timings, scanErrors, allFindings>> PROVE Gathered'
  <2>1. Lists(outcome', allFindings, timings \ scanErrors)
    BY <1>2, ListsStand DEF FleetInv, Collected, Gathered
  <2>2. \A t \in timings \ scanErrors : Believed(outcome', t)
    BY <1>2 DEF FleetInv, Collected, Gathered, Believed
  <2> QED BY <1>4, <2>1, <2>2 DEF FleetInv, Collected, Gathered
<1> QED BY <1>3, <1>4

\* Steps after which nobody has sent more and the collector has no more.
LEMMA QuietStep ==
  ASSUME FleetInv, Sent' = Sent,
         UNCHANGED <<results, timings, scanErrors, allFindings, outcome>>,
         fleet' = "ok" => scanErrors = {}
  PROVE  Collected'
<1>1. Gathered' /\ \A i \in DOMAIN results : Reported(outcome', results[i])
  BY ResultsStand
<1> QED BY <1>1 DEF FleetInv, Collected

\* A goroutine sends r, with what its container did.
LEMMA SendingStep ==
  ASSUME FleetInv, NEW t \in Tools \ Sent, NEW r \in Result,
         results' = Append(results, r), Sent' = Sent \cup {t},
         \A u \in Tools \ {t} : outcome'[u] = outcome[u],
         Reported(outcome', r),
         UNCHANGED <<fleet, timings, scanErrors, allFindings>>
  PROVE  Collected'
<1>1. \A u \in Sent : outcome'[u] = outcome[u]
  BY DEF Sent
<1>2. Gathered' /\ \A i \in DOMAIN results : Reported(outcome', results[i])
  BY <1>1, ResultsStand
<1>3. \A i \in DOMAIN results' : Reported(outcome', results'[i])
  <2>1. results \in Seq(Result)
    BY DEF FleetInv, IInv, TypeOK
  <2>2. \A i \in DOMAIN results' :
          (i \in DOMAIN results /\ results'[i] = results[i]) \/ results'[i] = r
    BY <2>1, AppendProperties
  <2> QED BY <1>2, <2>2
<1>4. \A u \in Tools \ Sent' : outcome'[u] = NoOutcome
  BY DEF FleetInv, Collected
<1> QED BY <1>2, <1>3, <1>4 DEF FleetInv, Collected

LEMMA FinishCollected ==
  ASSUME FleetInv, NEW t \in Tools, Finish(t)
  PROVE  Collected'
<1>1. PICK out \in OutcomesOf[t] :
        /\ outcome' = [outcome EXCEPT ![t] = out]
        /\ results' = Append(results,
                        [tool     |-> t,
                         ok       |-> RunTool(t, out, scanCtxDone(t)).ok,
                         findings |-> RunTool(t, out, scanCtxDone(t)).findings])
  BY DEF Finish
<1>2. out \in Outcome
  BY OutcomesAssumption
<1> DEFINE r == [tool     |-> t,
                 ok       |-> RunTool(t, out, scanCtxDone(t)).ok,
                 findings |-> RunTool(t, out, scanCtxDone(t)).findings]
<1>3. r \in Result
  BY <1>2, ReportTyped DEF Result
<1>4. outcome'[t] = out /\ \A u \in Tools \ {t} : outcome'[u] = outcome[u]
  BY <1>1 DEF FleetInv, IInv, TypeOK
<1>5. Reported(outcome', r)
  <2>1. CASE Accepted(t, out, scanCtxDone(t))
    <3>1. Accepted(t, out, FALSE)
      BY <2>1 DEF Accepted, LeaksExit
    <3> QED BY <1>2, <1>4, <2>1, <3>1 DEF Reported, Believed, RunTool
  <2>2. CASE ~Accepted(t, out, scanCtxDone(t))
    BY <2>2 DEF Reported, RunTool
  <2> QED BY <2>1, <2>2
<1>6. results' = Append(results, r)
  BY <1>1
<1> HIDE DEF r
<1>7. Sent' = Sent \cup {t} /\ t \notin Sent
  BY DEF FleetInv, IInv, TypeOK, Finish, Sent
<1>8. UNCHANGED <<fleet, timings, scanErrors, allFindings>>
  BY DEF Finish
<1> QED BY <1>3, <1>4, <1>5, <1>6, <1>7, <1>8, SendingStep

LEMMA GiveUpCollected ==
  ASSUME FleetInv, NEW t \in Tools, GiveUp(t)
  PROVE  Collected'
<1> DEFINE r == [tool |-> t, ok |-> FALSE, findings |-> <<>>]
<1>1. r \in Result /\ Reported(outcome', r)
  BY DEF Result, Reported
<1>2. results' = Append(results, r) /\ UNCHANGED <<fleet, timings, scanErrors, allFindings, outcome>>
  BY DEF GiveUp
<1> HIDE DEF r
<1>3. Sent' = Sent \cup {t} /\ t \notin Sent
  BY DEF FleetInv, IInv, TypeOK, GiveUp, Sent
<1> QED BY <1>1, <1>2, <1>3, SendingStep

\* The collector appends the findings of the result it receives, or drops them.
LEMMA CollectCollected ==
  ASSUME FleetInv, Collect
  PROVE  Collected'
<1> DEFINE r == Head(results)
<1>1. /\ results \in Seq(Result) /\ results # <<>> /\ r \in Result /\ r.tool \in Tools
      /\ Reported(outcome, r)
      /\ results' = Tail(results)
  <2>1. results \in Seq(Result) /\ results # <<>> /\ results' = Tail(results)
    BY DEF FleetInv, IInv, TypeOK, Collect
  <2>2. r = results[1] /\ 1 \in DOMAIN results /\ r \in Result
    BY <2>1, HeadTailProperties
  <2> QED BY <2>1, <2>2 DEF FleetInv, Collected, Result
<1>2. \A i \in DOMAIN results' : i + 1 \in DOMAIN results /\ results'[i] = results[i + 1]
  BY <1>1, HeadTailProperties
<1>3. /\ timings' = timings \cup {r.tool}
      /\ r.ok => allFindings' = allFindings \o r.findings /\ scanErrors' = scanErrors
      /\ ~r.ok => allFindings' = allFindings /\ scanErrors' = scanErrors \cup {r.tool}
      /\ UNCHANGED <<fleet, pc, outcome>> /\ fleet = "running"
  BY DEF Collect
<1>4. r.tool \notin timings
  <2>1. r.tool \in Pending
    BY <1>1, HeadTailProperties DEF Pending
  <2> QED BY <2>1 DEF FleetInv, IInv, EachSentOnce
<1>5. allFindings \in Seq(Finding)
  BY DEF FleetInv, IInv, TypeOK
<1> HIDE DEF r
<1>6. Gathered'
  <2>1. CASE r.ok
    <3>1. Believed(outcome, r.tool) /\ r.findings = Parsed(r.tool, outcome[r.tool].items)
      BY <1>1, <2>1 DEF Reported
    <3>2. Lists(outcome, allFindings \o r.findings, (timings \ scanErrors) \cup {r.tool})
      BY <1>1, <1>4, <1>5, <3>1, ListsMore DEF FleetInv, Collected, Gathered, Believed
    <3>3. timings' \ scanErrors' = (timings \ scanErrors) \cup {r.tool} /\ scanErrors' \subseteq timings'
      BY <1>3, <1>4, <2>1 DEF FleetInv, Collected, Gathered
    <3> QED BY <1>3, <2>1, <3>1, <3>2, <3>3 DEF FleetInv, Collected, Gathered
  <2>2. CASE ~r.ok
    <3>1. timings' \ scanErrors' = timings \ scanErrors /\ scanErrors' \subseteq timings'
      BY <1>3, <1>4, <2>2 DEF FleetInv, Collected, Gathered
    <3> QED BY <1>3, <2>2, <3>1 DEF FleetInv, Collected, Gathered
  <2> QED BY <2>1, <2>2
<1>7. Sent' = Sent
  BY <1>3 DEF Sent
<1> QED BY <1>2, <1>3, <1>6, <1>7 DEF FleetInv, Collected

LEMMA LaunchCollected ==
  ASSUME FleetInv, NEW S \in SUBSET Tools, Launch(S)
  PROVE  Collected'
<1>1. Sent' = Sent
  BY DEF FleetInv, IInv, Launched, Launch, Sent
<1>2. fleet' # "ok" /\ UNCHANGED <<results, timings, scanErrors, allFindings, outcome>>
  BY DEF Launch
<1> QED BY <1>1, <1>2, QuietStep

LEMMA StepCollected ==
  ASSUME FleetInv, FleetStep
  PROVE  Collected'
<1>1. ASSUME NEW t \in Tools, Acquire(t) PROVE Collected'
  <2>1. Sent' = Sent
    BY <1>1 DEF FleetInv, IInv, TypeOK, Acquire, Sent
  <2> QED BY <1>1, <2>1, QuietStep DEF Acquire, FleetInv, Collected
<1>2. ASSUME NEW t \in Tools, Release(t) PROVE Collected'
  <2>1. Sent' = Sent
    BY <1>2 DEF FleetInv, IInv, TypeOK, Release, Sent
  <2> QED BY <1>2, <2>1, QuietStep DEF Release, FleetInv, Collected
<1>3. CASE Return
  <2>1. Sent' = Sent
    BY <1>3 DEF Return, Sent
  <2> QED BY <1>3, <2>1, QuietStep DEF Return
<1>4. CASE Cancel \/ Tick
  <2>1. Sent' = Sent /\ UNCHANGED <<fleet, results, timings, scanErrors, allFindings, outcome>>
    BY <1>4 DEF Cancel, Tick, Sent
  <2> QED BY <2>1, QuietStep DEF FleetInv, Collected
<1> QED BY <1>1, <1>2, <1>3, <1>4, FinishCollected, GiveUpCollected, CollectCollected
        DEF FleetStep, Goroutine

LEMMA NextFleetInv == FleetInv /\ [Next]_fleetVars => FleetInv'
<1> SUFFICES ASSUME FleetInv, [Next]_fleetVars PROVE Collected'
  BY NextIInv DEF FleetInv
<1>1. ASSUME NEW tree \in Target, Launch(ScopeOf(tree)) PROVE Collected'
  <2>1. ScopeOf(tree) \in SUBSET Tools
    BY DEF ScopeOf, Tools
  <2> QED BY <1>1, <2>1, LaunchCollected
<1>2. CASE UNCHANGED fleetVars
  <2>1. Sent' = Sent /\ UNCHANGED <<fleet, results, timings, scanErrors, allFindings, outcome>>
    BY <1>2 DEF fleetVars, Sent
  <2> QED BY <2>1, QuietStep DEF FleetInv, Collected
<1> QED BY <1>1, <1>2, StepCollected DEF Next

-----------------------------------------------------------------------------

\* Within a scan a finding tells which scanner it is from.
OneSourceEach == \A t, u \in scanners : Source(t) = Source(u) => t = u

\* Each report stands in the findings as it was sent.
InPieces ==
  \A t \in timings \ scanErrors :
    HasAsOnePiece(allFindings, t, Parsed(t, outcome[t].items))

\* One more report is appended: the others stay in one piece, and so does it.
LEMMA PiecesStay ==
  ASSUME NEW s \in Seq(Finding), NEW t, NEW own \in Seq(Finding), HasAsOnePiece(s, t, own),
         NEW more \in Seq(Finding), \A i \in DOMAIN more : more[i].scanner # Source(t)
  PROVE  HasAsOnePiece(s \o more, t, own)
<1>1. PICK k \in 0 .. Len(s) :
        /\ k + Len(own) <= Len(s)
        /\ \A i \in DOMAIN own : s[k + i] = own[i]
        /\ \A j \in DOMAIN s : s[j].scanner = Source(t) => j - k \in DOMAIN own
  BY DEF HasAsOnePiece
<1> DEFINE u == s \o more
<1>2. /\ u \in Seq(Finding) /\ Len(u) = Len(s) + Len(more)
      /\ \A i \in 1 .. Len(s) + Len(more) :
           u[i] = IF i <= Len(s) THEN s[i] ELSE more[i - Len(s)]
  BY ConcatProperties
<1>3. Len(s) \in Nat /\ Len(more) \in Nat /\ Len(own) \in Nat
  OBVIOUS
<1>4. DOMAIN s = 1 .. Len(s) /\ DOMAIN own = 1 .. Len(own) /\ DOMAIN more = 1 .. Len(more)
  OBVIOUS
<1>5. DOMAIN u = 1 .. Len(s) + Len(more)
  BY <1>2
<1> HIDE DEF u
<1>6. k \in 0 .. Len(u) /\ k + Len(own) <= Len(u)
  BY <1>1, <1>2, <1>3
<1>7. \A i \in DOMAIN own : u[k + i] = own[i]
  BY <1>1, <1>2, <1>3, <1>4
<1>8. ASSUME NEW j \in DOMAIN u, u[j].scanner = Source(t) PROVE j - k \in DOMAIN own
  <2>1. CASE j <= Len(s)
    <3>1. j \in DOMAIN s /\ u[j] = s[j]
      BY <1>2, <1>3, <1>4, <1>5, <2>1
    <3> QED BY <1>1, <1>8, <3>1
  <2>2. CASE ~(j <= Len(s))
    <3>1. u[j] = more[j - Len(s)] /\ j - Len(s) \in DOMAIN more
      BY <1>2, <1>3, <1>4, <1>5, <2>2
    <3> QED BY <1>8, <3>1
  <2> QED BY <2>1, <2>2
<1>9. HasAsOnePiece(u, t, own)
  BY <1>6, <1>7, <1>8, Zenon DEF HasAsOnePiece
<1> QED BY <1>9 DEF u

LEMMA PieceAdded ==
  ASSUME NEW s \in Seq(Finding), NEW t, \A i \in DOMAIN s : s[i].scanner # Source(t),
         NEW own \in Seq(Finding)
  PROVE  HasAsOnePiece(s \o own, t, own)
<1> DEFINE u == s \o own
           k == Len(s)
<1>1. /\ u \in Seq(Finding) /\ Len(u) = k + Len(own)
      /\ \A i \in 1 .. k + Len(own) : u[i] = IF i <= k THEN s[i] ELSE own[i - k]
  BY ConcatProperties
<1>2. /\ k \in Nat /\ Len(own) \in Nat
      /\ DOMAIN s = 1 .. k /\ DOMAIN own = 1 .. Len(own)
  OBVIOUS
<1>3. DOMAIN u = 1 .. k + Len(own)
  BY <1>1
<1> HIDE DEF u, k
<1>4. k \in 0 .. Len(u) /\ k + Len(own) <= Len(u)
  BY <1>1, <1>2
<1>5. \A i \in DOMAIN own : u[k + i] = own[i]
  <2> SUFFICES ASSUME NEW i \in DOMAIN own PROVE u[k + i] = own[i]
    OBVIOUS
  <2>1. k + i \in 1 .. k + Len(own) /\ ~(k + i <= k) /\ (k + i) - k = i
    BY <1>2
  <2> QED BY <1>1, <2>1
<1>6. ASSUME NEW j \in DOMAIN u, u[j].scanner = Source(t) PROVE j - k \in DOMAIN own
  <2>1. CASE j <= k
    <3>1. j \in DOMAIN s /\ u[j] = s[j]
      BY <1>1, <1>2, <1>3, <2>1
    <3> QED BY <1>6, <3>1
  <2>2. CASE ~(j <= k)
    BY <1>2, <1>3, <2>2
  <2> QED BY <2>1, <2>2
<1>7. HasAsOnePiece(u, t, own)
  BY <1>4, <1>5, <1>6, Zenon DEF HasAsOnePiece
<1> QED BY <1>7 DEF u, k

\* A finding that was collected is from one of the scanners that were believed.
LEMMA ListedFrom ==
  ASSUME NEW o, NEW s, NEW S, Lists(o, s, S), \A t \in S : o[t] \in Outcome,
         NEW i \in DOMAIN s
  PROVE  \E t \in S : s[i].scanner = Source(t)
<1>1. PICK h : Names1to1(h, o, s, S)
  BY DEF Lists
<1>2. h[i] \in Places(o, S) /\ s[i] = Entry(o, h[i])
  BY <1>1 DEF Names1to1
<1>3. h[i][1] \in S /\ h[i][2] \in DOMAIN o[h[i][1]].items
  BY <1>2 DEF Places
<1>4. Parsed(h[i][1], o[h[i][1]].items)[h[i][2]].scanner = Source(h[i][1])
  BY <1>3 DEF Parsed
<1> QED BY <1>2, <1>3, <1>4 DEF Entry

CompleteInv == FleetInv /\ OneSourceEach /\ InPieces

LEMMA InitCompleteInv == Init => CompleteInv
BY InitFleetInv DEF Init, CompleteInv, OneSourceEach, InPieces

\* The tools of one scan write different names.
LEMMA ScopeSources ==
  \A tree \in Target : \A t, u \in ScopeOf(tree) : Source(t) = Source(u) => t = u
BY DEF ScopeOf, Source, HistoryTools

LEMMA CollectPieces ==
  ASSUME CompleteInv, Collect
  PROVE  InPieces'
<1> DEFINE r == Head(results)
<1>1. /\ r \in Result /\ r.tool \in Pending /\ Reported(outcome, r)
  <2>1. results \in Seq(Result) /\ results # <<>>
    BY DEF CompleteInv, FleetInv, IInv, TypeOK, Collect
  <2>2. r = results[1] /\ 1 \in DOMAIN results /\ r \in Result
    BY <2>1, HeadTailProperties
  <2> QED BY <2>1, <2>2 DEF CompleteInv, FleetInv, Collected, Pending
<1>2. /\ timings' = timings \cup {r.tool}
      /\ r.ok => allFindings' = allFindings \o r.findings /\ scanErrors' = scanErrors
      /\ ~r.ok => allFindings' = allFindings /\ scanErrors' = scanErrors \cup {r.tool}
      /\ UNCHANGED <<fleet, scanners, outcome>> /\ fleet = "running"
  BY DEF Collect
<1>3. r.tool \notin timings /\ r.tool \in Sent /\ timings \subseteq Sent
  BY <1>1 DEF CompleteInv, FleetInv, IInv, EachSentOnce
<1>4. Sent \subseteq scanners
  BY <1>2 DEF CompleteInv, FleetInv, IInv, Launched, Sent
<1>5. /\ allFindings \in Seq(Finding) /\ Gathered /\ scanErrors \subseteq timings
      /\ r.findings \in Seq(Finding)
  BY <1>1 DEF CompleteInv, FleetInv, IInv, TypeOK, Collected, Gathered, Result
<1> HIDE DEF r
<1>6. CASE ~r.ok
  <2>1. timings' \ scanErrors' = timings \ scanErrors
    BY <1>2, <1>3, <1>6
  <2> QED BY <1>2, <1>6, <2>1 DEF CompleteInv, InPieces
<1>7. CASE r.ok
  <2>1. timings' \ scanErrors' = (timings \ scanErrors) \cup {r.tool}
    BY <1>2, <1>3, <1>5, <1>7
  <2>2. outcome[r.tool].items \in Seq(Item) /\ r.findings = Parsed(r.tool, outcome[r.tool].items)
    BY <1>1, <1>7 DEF Reported, Believed, Outcome
  <2>3. \A i \in DOMAIN r.findings : r.findings[i].scanner = Source(r.tool)
    BY <2>2 DEF Parsed
  <2>4. ASSUME NEW t \in timings \ scanErrors
        PROVE  HasAsOnePiece(allFindings', t, Parsed(t, outcome[t].items))
    <3>1. Source(r.tool) # Source(t)
      BY <1>3, <1>4 DEF CompleteInv, OneSourceEach
    <3>2. t \in Tools /\ outcome[t].items \in Seq(Item)
      BY <1>5 DEF CompleteInv, FleetInv, IInv, TypeOK, Gathered, Believed, Outcome
    <3>3. Parsed(t, outcome[t].items) \in Seq(Finding)
      BY <3>2, ParsedTyped
    <3>4. HasAsOnePiece(allFindings, t, Parsed(t, outcome[t].items))
      BY DEF CompleteInv, InPieces
    <3>5. \A i \in DOMAIN r.findings : r.findings[i].scanner # Source(t)
      BY <2>3, <3>1
    <3> QED BY <1>2, <1>5, <1>7, <3>3, <3>4, <3>5, PiecesStay
  <2>5. HasAsOnePiece(allFindings', r.tool, Parsed(r.tool, outcome[r.tool].items))
    <3>1. ASSUME NEW i \in DOMAIN allFindings PROVE allFindings[i].scanner # Source(r.tool)
      <4>1. PICK t \in timings \ scanErrors : allFindings[i].scanner = Source(t)
        <5> DEFINE S == timings \ scanErrors
        <5>1. Lists(outcome, allFindings, S) /\ \A t \in S : outcome[t] \in Outcome
          BY <1>5 DEF Gathered, Believed
        <5> HIDE DEF S
        <5>2. \E t \in S : allFindings[i].scanner = Source(t)
          BY <5>1, ListedFrom
        <5> QED BY <5>2 DEF S
      <4> QED BY <1>3, <1>4, <4>1 DEF CompleteInv, OneSourceEach
    <3> QED BY <1>2, <1>5, <1>7, <2>2, <3>1, PieceAdded
  <2> QED BY <1>2, <2>1, <2>4, <2>5 DEF InPieces
<1> QED BY <1>6, <1>7

\* The other steps leave what has been collected alone.
LEMMA PiecesStand ==
  ASSUME CompleteInv, \A t \in Sent : outcome'[t] = outcome[t],
         UNCHANGED <<timings, scanErrors, allFindings>>
  PROVE  InPieces'
<1>1. \A t \in timings : outcome'[t] = outcome[t]
  BY DEF CompleteInv, FleetInv, IInv, EachSentOnce
<1> QED BY <1>1 DEF CompleteInv, InPieces

LEMMA NextCompleteInv == CompleteInv /\ [Next]_fleetVars => CompleteInv'
<1> SUFFICES ASSUME CompleteInv, [Next]_fleetVars PROVE OneSourceEach' /\ InPieces'
  BY NextFleetInv DEF CompleteInv
<1>1. ASSUME NEW tree \in Target, Launch(ScopeOf(tree)) PROVE OneSourceEach' /\ InPieces'
  BY <1>1, PiecesStand, ScopeSources DEF Launch, OneSourceEach
<1>2. ASSUME NEW t \in Tools, Finish(t) PROVE OneSourceEach' /\ InPieces'
  <2>1. \A u \in Sent : outcome'[u] = outcome[u]
    BY <1>2 DEF Finish, Sent, CompleteInv, FleetInv, IInv, TypeOK
  <2> QED BY <1>2, <2>1, PiecesStand DEF Finish, OneSourceEach, CompleteInv
<1>3. ASSUME NEW t \in Tools, Acquire(t) \/ GiveUp(t) \/ Release(t)
      PROVE  OneSourceEach' /\ InPieces'
  <2>1. UNCHANGED <<scanners, outcome, timings, scanErrors, allFindings>>
    BY <1>3 DEF Acquire, GiveUp, Release
  <2> QED BY <2>1, PiecesStand DEF OneSourceEach, CompleteInv
<1>4. CASE Collect
  BY <1>4, CollectPieces DEF Collect, OneSourceEach, CompleteInv
<1>5. CASE Return \/ Cancel \/ Tick \/ UNCHANGED fleetVars
  <2>1. UNCHANGED <<scanners, outcome, timings, scanErrors, allFindings>>
    BY <1>5 DEF Return, Cancel, Tick, fleetVars
  <2> QED BY <2>1, PiecesStand DEF OneSourceEach, CompleteInv
<1> QED BY <1>1, <1>2, <1>3, <1>4, <1>5 DEF Next, FleetStep, Goroutine

LEMMA AllInPieces == CompleteInv => CleanRunIsComplete
<1> SUFFICES ASSUME CompleteInv, fleet = "ok", NEW t \in scanners
             PROVE  /\ outcome[t] # NoOutcome
                    /\ Accepted(t, outcome[t], FALSE)
                    /\ HasAsOnePiece(allFindings, t, Parsed(t, outcome[t].items))
  BY DEF CleanRunIsComplete
<1>1. timings = scanners /\ scanErrors = {}
  BY DEF CompleteInv, FleetInv, IInv, ReturnedComplete, Returned, Collected
<1>2. Believed(outcome, t)
  BY <1>1 DEF CompleteInv, FleetInv, Collected, Gathered
<1>3. \A out \in Outcome : out # NoOutcome
  BY DEF Outcome, NoOutcome, Exits
<1> QED BY <1>1, <1>2, <1>3 DEF CompleteInv, InPieces, Believed

(***************************************************************************)
(* Run returns without an error only with the complete report of every     *)
(* scanner, each in one piece (adapter_local.go:294-324).                  *)
(***************************************************************************)
THEOREM CleanRunsAreComplete == Spec => []CleanRunIsComplete
BY InitCompleteInv, NextCompleteInv, AllInPieces, PTL DEF Spec

-----------------------------------------------------------------------------

\* What each phase of Orchestrator.Run may count on.
Phased ==
  /\ phase \in {"start", "fetch", "scope"} => fleet = "idle"
  /\ phase \in {"analyze", "decide", "report"} => fleet = "ok"
  /\ phase = "end" /\ ~runErr => fleet = "ok" /\ status = "completed"
  /\ phase # "end" => ~runErr /\ exitCode = -1
  /\ runErr => status = "failed" /\ decision = "block" /\ ~cacheSaved
  /\ fleet # "idle" => scanners = ScopeOf(target)

Decided == phase \in {"decide", "report"} \/ (phase = "end" /\ ~runErr)

VerdictInv ==
  /\ Decided => decision = Evaluate(policy, allFindings)
  /\ cacheSaved => Decided /\ decision = "pass" /\ ~target.history
  /\ exitCode # -1 => exitCode = ExitCode(decision, runErr)

PipelineInv == PipelineTypeOK /\ FleetInv /\ Phased /\ VerdictInv

LEMMA InitPipelineInv == PipelineInit => PipelineInv
<1> SUFFICES ASSUME PipelineInit PROVE PipelineInv
  OBVIOUS
<1>1. FleetInv
  BY InitFleetInv DEF PipelineInit
<1>2. PipelineTypeOK
  <2>1. TypeOK
    BY <1>1 DEF FleetInv, IInv
  <2>2. policy \in PolicySet /\ target \in Target /\ noCache \in BOOLEAN
    BY TargetsAssumption, PoliciesAssumption DEF PipelineInit
  <2>3. phase \in Phases /\ status \in Statuses /\ decision \in DecisionWords
    BY DEF PipelineInit, Phases, Statuses, DecisionWords
  <2>4. runErr \in BOOLEAN /\ cacheSaved \in BOOLEAN
    BY DEF PipelineInit
  <2>5. exitCode = -1
    BY DEF PipelineInit
  <2> QED BY <2>1, <2>2, <2>3, <2>4, <2>5 DEF PipelineTypeOK
<1>3. Phased /\ VerdictInv
  BY DEF PipelineInit, Init, Phased, VerdictInv, Decided
<1> QED BY <1>1, <1>2, <1>3 DEF PipelineInv

\* Ctrl-C reaches the context whether or not the fleet is running.
LEMMA CancelKeepsFleet ==
  ASSUME FleetInv, CancelEarlyOrLate
  PROVE  FleetInv'
<1>1. canceled' = TRUE /\ UNCHANGED <<fleet, scanners, pc, sem, results, timings, scanErrors,
                                     allFindings, now, began, outcome>>
  BY DEF CancelEarlyOrLate
<1>2. TypeOK'
  <2>1. canceled' \in BOOLEAN
    BY <1>1
  <2> QED BY <1>1, <2>1, Zenon DEF FleetInv, IInv, TypeOK
<1>3. SlotsBounded' /\ Launched' /\ EachSentOnce' /\ ReturnedComplete'
  BY <1>1 DEF FleetInv, IInv, SlotsBounded, Running, Releasing, Launched, EachSentOnce, Sent,
              Pending, ReturnedComplete, Returned
<1>4. Sent' = Sent
  BY <1>1 DEF Sent
<1>5. Collected'
  BY <1>1, <1>4, QuietStep DEF FleetInv, Collected
<1> QED BY <1>2, <1>3, <1>5 DEF FleetInv, IInv

\* What a step of the pipeline does to the fleet.
LEMMA FleetSteps ==
  ASSUME target \in Target, [PipelineNext]_vars
  PROVE  [Next]_fleetVars \/ CancelEarlyOrLate
<1>1. CASE Step
  <2>1. CASE Scope
    BY <2>1 DEF Scope, Next
  <2>2. CASE Start \/ Fetch \/ ScopeFails \/ ScanEnds \/ Analyze \/ Decide \/ FinishRun \/ ScanOutput
    BY <2>2 DEF Start, Fetch, ScopeFails, ScanEnds, Analyze, Decide, FinishRun, ScanOutput
  <2> QED BY <1>1, <2>1, <2>2 DEF Step
<1>2. CASE Scan
  BY <1>2 DEF Scan, Next
<1>3. CASE LateRelease
  BY <1>3 DEF LateRelease, Next, FleetStep, Goroutine
<1>4. CASE UNCHANGED vars
  BY <1>4 DEF vars
<1> QED BY <1>1, <1>2, <1>3, <1>4 DEF PipelineNext

LEMMA FleetKept ==
  ASSUME FleetInv, target \in Target, [PipelineNext]_vars
  PROVE  FleetInv'
BY FleetSteps, NextFleetInv, CancelKeepsFleet

\* Between its phases the orchestrator keeps the policy, the target and the fleet.
LEMMA PipelineTyping ==
  ASSUME PipelineTypeOK, FleetInv', [PipelineNext]_vars
  PROVE  PipelineTypeOK'
<1>0. /\ TypeOK' /\ \A d, e : ExitCode(d, e) \in -1 .. 2
      /\ \A p, f : Evaluate(p, f) \in DecisionWords
      /\ {"fetch", "scope", "scan", "analyze", "decide", "report", "end"} \subseteq Phases
      /\ {"failed", "completed"} \subseteq Statuses /\ "block" \in DecisionWords
  BY DEF FleetInv, IInv, ExitCode, Evaluate, DecisionWords, Phases, Statuses
<1>1. CASE Start \/ Fetch \/ ScopeFails \/ Scope \/ ScanEnds \/ Decide
  BY <1>0, <1>1 DEF Start, Fetch, ScopeFails, Scope, ScanEnds, Decide, FailRun, GoOn, PipelineTypeOK
<1>2. CASE Analyze
  BY <1>0, <1>2 DEF Analyze, PipelineTypeOK
<1>3. CASE FinishRun \/ ScanOutput
  BY <1>0, <1>3 DEF FinishRun, ScanOutput, PipelineTypeOK
<1>4. CASE Scan \/ CancelEarlyOrLate \/ LateRelease \/ UNCHANGED vars
  BY <1>0, <1>4 DEF Scan, CancelEarlyOrLate, LateRelease, vars, pipeVars, PipelineTypeOK
<1> QED BY <1>1, <1>2, <1>3, <1>4 DEF PipelineNext, Step

\* The fleet works for the scan it was started for.
LEMMA FleetStepFrame ==
  ASSUME FleetStep
  PROVE  UNCHANGED scanners /\ (fleet = "idle" => fleet' = "idle")
<1>1. ASSUME NEW t \in Tools, Goroutine(t) PROVE UNCHANGED scanners /\ UNCHANGED fleet
  BY <1>1 DEF Goroutine, Acquire, GiveUp, Finish, Release
<1> QED BY <1>1 DEF FleetStep, Collect, Return, Cancel, Tick

LEMMA PhasedKept ==
  ASSUME PipelineInv, [PipelineNext]_vars
  PROVE  Phased'
<1>0. /\ PipelineTypeOK /\ Phased
      /\ phase \in {"start", "fetch", "scope", "scan", "analyze", "decide", "report", "end"}
      /\ VerdictInv
  BY DEF PipelineInv, PipelineTypeOK, Phases
<1>1. CASE Start \/ Fetch \/ ScopeFails \/ ScanEnds \/ Decide
  BY <1>0, <1>1 DEF Start, Fetch, ScopeFails, ScanEnds, Decide, FailRun, GoOn, fleetVars, Phased,
                    VerdictInv, Decided
<1>2. CASE Scope
  BY <1>0, <1>2 DEF Scope, Launch, GoOn, Phased
<1>3. CASE Analyze
  BY <1>0, <1>3 DEF Analyze, fleetVars, Phased
<1>4. CASE FinishRun
  BY <1>0, <1>4 DEF FinishRun, fleetVars, Phased
<1>5. CASE ScanOutput
  BY <1>0, <1>5 DEF ScanOutput, fleetVars, Phased
<1>6. CASE Scan
  <2>1. UNCHANGED scanners /\ (fleet = "idle" => fleet' = "idle")
    BY <1>6, FleetStepFrame DEF Scan
  <2> QED BY <1>0, <1>6, <2>1 DEF Scan, pipeVars, Phased
<1>7. CASE CancelEarlyOrLate \/ LateRelease \/ UNCHANGED vars
  <2>1. UNCHANGED <<fleet, scanners, pipeVars>>
    BY <1>7 DEF CancelEarlyOrLate, LateRelease, Release, vars, fleetVars
  <2> QED BY <1>0, <2>1 DEF pipeVars, Phased
<1> QED BY <1>1, <1>2, <1>3, <1>4, <1>5, <1>6, <1>7 DEF PipelineNext, Step

LEMMA VerdictKept ==
  ASSUME PipelineInv, [PipelineNext]_vars
  PROVE  VerdictInv'
<1>0. /\ PipelineTypeOK /\ Phased /\ VerdictInv
      /\ phase \in {"start", "fetch", "scope", "scan", "analyze", "decide", "report", "end"}
  BY DEF PipelineInv, PipelineTypeOK, Phases
<1>1. CASE Start \/ Fetch \/ ScopeFails \/ ScanEnds \/ Decide
  BY <1>0, <1>1 DEF Start, Fetch, ScopeFails, ScanEnds, Decide, FailRun, GoOn, fleetVars, Phased,
                    VerdictInv, Decided
<1>2. CASE Scope
  BY <1>0, <1>2 DEF Scope, GoOn, Phased, VerdictInv, Decided
<1>3. CASE Analyze
  BY <1>0, <1>3 DEF Analyze, fleetVars, Phased, VerdictInv, Decided
<1>4. CASE FinishRun
  BY <1>0, <1>4 DEF FinishRun, fleetVars, Phased, VerdictInv, Decided
<1>5. CASE ScanOutput
  BY <1>0, <1>5 DEF ScanOutput, fleetVars, Phased, VerdictInv, Decided
<1>6. CASE Scan
  BY <1>0, <1>6 DEF Scan, pipeVars, Phased, VerdictInv, Decided
<1>7. CASE CancelEarlyOrLate \/ LateRelease \/ UNCHANGED vars
  <2>1. UNCHANGED <<allFindings, pipeVars>>
    BY <1>7 DEF CancelEarlyOrLate, LateRelease, Release, vars, fleetVars
  <2> QED BY <1>0, <2>1 DEF pipeVars, VerdictInv, Decided
<1> QED BY <1>1, <1>2, <1>3, <1>4, <1>5, <1>6, <1>7 DEF PipelineNext, Step

LEMMA PipelineInvariance == PipelineSpec => []PipelineInv
<1>1. PipelineInv /\ [PipelineNext]_vars => PipelineInv'
  <2> SUFFICES ASSUME PipelineInv, [PipelineNext]_vars PROVE PipelineInv'
    OBVIOUS
  <2>1. FleetInv'
    BY FleetKept DEF PipelineInv, PipelineTypeOK
  <2>2. PipelineTypeOK'
    BY <2>1, PipelineTyping DEF PipelineInv
  <2> QED BY <2>1, <2>2, PhasedKept, VerdictKept DEF PipelineInv
<1> QED BY <1>1, InitPipelineInv, PTL DEF PipelineSpec

\* Type correctness of the scan pipeline (orchestrator.go:150-241).
THEOREM PipelineTyped == PipelineSpec => []PipelineTypeOK
<1>1. PipelineInv => PipelineTypeOK
  BY DEF PipelineInv
<1> QED BY <1>1, PipelineInvariance, PTL

(***************************************************************************)
(* The git proxy never comes to another verdict than the process whose     *)
(* report and exit status it reads (scan.go:193-286, local_scan.go).       *)
(***************************************************************************)
THEOREM ProxyAgrees == PipelineSpec => []ProxyReadsTheVerdict
<1>1. PipelineInv => ProxyReadsTheVerdict
  <2> SUFFICES ASSUME PipelineInv, exitCode # -1 PROVE ProxyReadsTheVerdict
    BY DEF ProxyReadsTheVerdict
  <2> DEFINE report == JsonReport(status, decision, runErr, ~runErr /\ allFindings # <<>>)
             reply  == LocalScan({report}, exitCode)
  <2>1. /\ phase = "end" /\ exitCode = ExitCode(decision, runErr) /\ runErr \in BOOLEAN
        /\ runErr => status = "failed" /\ decision = "block"
        /\ ~runErr => status = "completed" /\ decision \in {"pass", "review", "block"}
    BY DEF PipelineInv, PipelineTypeOK, Phased, VerdictInv, Decided, Evaluate
  <2>2. report.error = runErr /\ report.status = status /\ report.decision = decision
    BY DEF JsonReport
  <2> HIDE DEF report
  <2>3. (CHOOSE r \in {report} : TRUE) = report /\ {report} # {}
    OBVIOUS
  <2>4. reply = IF exitCode # 0 /\ ~(exitCode \in {1, 2} /\ parseScanJSON(report).blocked)
                THEN Fail ELSE parseScanJSON(report)
    BY <2>3, Zenon DEF LocalScan
  <2>5. Approve # Fail /\ Deny # Fail /\ Approve # Deny /\ Deny.blocked /\ ~Approve.blocked /\ ~Fail.blocked
    BY DEF Approve, Fail, Deny
  <2> HIDE DEF reply
  <2>6. CASE runErr
    <3>1. parseScanJSON(report) = Fail /\ exitCode = 1
      BY <2>1, <2>2, <2>6 DEF parseScanJSON, ExitCode
    <3>2. reply = Fail
      BY <2>4, <3>1
    <3> QED BY <2>5, <2>6, <3>1, <3>2 DEF ProxyReadsTheVerdict, reply, report
  <2>7. CASE ~runErr /\ decision = "pass"
    <3>1. parseScanJSON(report) = Approve /\ exitCode = 0
      BY <2>1, <2>2, <2>7 DEF parseScanJSON, ExitCode
    <3>2. reply = Approve
      BY <2>4, <3>1
    <3> QED BY <2>5, <2>7, <3>1, <3>2 DEF ProxyReadsTheVerdict, reply, report
  <2>8. CASE ~runErr /\ decision # "pass"
    <3>1. parseScanJSON(report) = Deny /\ exitCode \in {1, 2}
      BY <2>1, <2>2, <2>8 DEF parseScanJSON, ExitCode
    <3>2. reply = Deny
      BY <2>4, <2>5, <3>1
    <3> QED BY <2>5, <2>8, <3>1, <3>2 DEF ProxyReadsTheVerdict, reply, report
  <2> QED BY <2>6, <2>7, <2>8
<1> QED BY <1>1, PipelineInvariance, PTL

\* A fleet that succeeded has the believed findings of all its scanners.
LEMMA CleanFleet ==
  ASSUME FleetInv, fleet = "ok"
  PROVE  /\ \A t \in scanners : Believed(outcome, t) /\ outcome[t] # NoOutcome
         /\ Lists(outcome, allFindings, scanners)
<1>1. timings = scanners /\ scanErrors = {}
  BY DEF FleetInv, IInv, ReturnedComplete, Returned, Collected
<1>2. timings \ scanErrors = scanners
  BY <1>1
<1>3. \A out \in Outcome : out # NoOutcome
  BY DEF Outcome, NoOutcome, Exits
<1> QED BY <1>2, <1>3 DEF FleetInv, Collected, Gathered, Believed

(***************************************************************************)
(* A tree is recorded as scanned only by a scan that passed and whose      *)
(* scanners all read it (orchestrator.go:203-214).                         *)
(***************************************************************************)
THEOREM CachedTreesPassed == PipelineSpec => []OnlyPassesAreCached
<1>1. PipelineInv => OnlyPassesAreCached
  <2> SUFFICES ASSUME PipelineInv, cacheSaved PROVE OnlyPassesAreCached
    BY DEF OnlyPassesAreCached
  <2>1. Decided /\ decision = "pass" /\ ~target.history /\ ~runErr
    BY DEF PipelineInv, VerdictInv, Phased
  <2>2. fleet = "ok" /\ scanners = ScopeOf(target)
    BY <2>1 DEF PipelineInv, Phased, Decided
  <2>3. \A t \in scanners : Accepted(t, outcome[t], FALSE)
    BY <2>2, CleanFleet DEF PipelineInv, Believed
  <2> QED BY <2>1, <2>2, <2>3 DEF OnlyPassesAreCached
<1> QED BY <1>1, PipelineInvariance, PTL

\* The steps of the pipeline keep the pieces together.
LEMMA PiecesInPipeline == PipelineSpec => []CompleteInv
<1>1. PipelineInit => CompleteInv
  BY InitCompleteInv DEF PipelineInit
<1>2. PipelineInv /\ CompleteInv /\ [PipelineNext]_vars => CompleteInv'
  <2> SUFFICES ASSUME PipelineInv, CompleteInv, [PipelineNext]_vars PROVE CompleteInv'
    OBVIOUS
  <2>1. CASE [Next]_fleetVars
    BY <2>1, NextCompleteInv
  <2>2. CASE CancelEarlyOrLate
    <3>1. UNCHANGED <<scanners, outcome, timings, scanErrors, allFindings>>
      BY <2>2 DEF CancelEarlyOrLate
    <3>2. FleetInv'
      BY <2>2, CancelKeepsFleet DEF CompleteInv
    <3> QED BY <3>1, <3>2, PiecesStand DEF CompleteInv, OneSourceEach
  <2> QED BY <2>1, <2>2, FleetSteps DEF PipelineInv, PipelineTypeOK
<1> QED BY <1>1, <1>2, PipelineInvariance, PTL DEF PipelineSpec

(***************************************************************************)
(* What the fleet promises by itself it keeps inside the pipeline, where   *)
(* Ctrl-C may come before and after it ran and its goroutines hand back    *)
(* their slots while the verdict is made (orchestrator.go:189-241,         *)
(* adapter_local.go:250-258).                                              *)
(***************************************************************************)
THEOREM FleetKeepsItsWord ==
  PipelineSpec => [](SlotsBounded /\ NoScannerOutlivesRun /\ NobodyIsStuck /\ CleanRunIsComplete)
<1>1. CompleteInv => SlotsBounded /\ NoScannerOutlivesRun /\ NobodyIsStuck /\ CleanRunIsComplete
  BY AllEnded, NotStuck, AllInPieces DEF CompleteInv, FleetInv, IInv
<1> QED BY <1>1, PiecesInPipeline, PTL

\* What the process says of a scan holds of each item of each report, from the
\* output of the container to the exit status: 0 takes that no scanner for
\* secrets reported anything and nobody anything CRITICAL or HIGH, 2 that nobody
\* reported a secret or anything CRITICAL.
ExitMeansClean ==
  exitCode \in {0, 2} =>
    \A t \in ScopeOf(target) :
      /\ Accepted(t, outcome[t], FALSE)
      /\ Source(t) \in {"gitleaks", "trufflehog"} => outcome[t].items = <<>>
      /\ \A k \in DOMAIN outcome[t].items :
           SeverityOf(t, outcome[t].items[k].level) \notin
             {"CRITICAL"} \cup (IF exitCode = 0 THEN {"HIGH"} ELSE {})

\* The decision that a report without an error and one of these exit statuses
\* stands for.
LEMMA ExitTells ==
  ASSUME PipelineInv, exitCode \in {0, 2}
  PROVE  /\ fleet = "ok" /\ scanners = ScopeOf(target)
         /\ ~Blocked(policy, allFindings)
         /\ exitCode = 0 => ~Review(policy, allFindings)
<1>1. phase = "end" /\ exitCode = ExitCode(decision, runErr) /\ runErr \in BOOLEAN
  BY DEF PipelineInv, PipelineTypeOK, Phased, VerdictInv
<1>2. ~runErr /\ decision = IF exitCode = 0 THEN "pass" ELSE "review"
  BY <1>1 DEF ExitCode
<1>3. decision = Evaluate(policy, allFindings) /\ fleet = "ok" /\ scanners = ScopeOf(target)
  BY <1>1, <1>2 DEF PipelineInv, Phased, VerdictInv, Decided
<1> QED BY <1>2, <1>3 DEF Evaluate

(***************************************************************************)
(* No finding gets lost between the container that reports it and the exit *)
(* status: for every policy, a scan that exits with 0 or 2 had believable  *)
(* reports from its whole scope, and none of their items is above the      *)
(* floor of that status (adapter_local.go:300-321, parsers.go,             *)
(* policy.go:180-191, decision_exit.go).                                   *)
(***************************************************************************)
THEOREM ExitStatusIsHonest == PipelineSpec => []ExitMeansClean
<1>1. ASSUME PipelineInv, CompleteInv, exitCode \in {0, 2}, NEW t \in ScopeOf(target)
      PROVE  /\ Accepted(t, outcome[t], FALSE)
             /\ \A k \in DOMAIN outcome[t].items :
                  LET f == Parsed(t, outcome[t].items)[k]
                  IN  ~BlockFloor(f) /\ (exitCode = 0 => ~ReviewFloor(f))
  <2> DEFINE own == Parsed(t, outcome[t].items)
  <2>1. Accepted(t, outcome[t], FALSE) /\ HasAsOnePiece(allFindings, t, own)
    BY <1>1, ExitTells, AllInPieces DEF CleanRunIsComplete
  <2>2. outcome[t].items \in Seq(Item)
    <3>1. Believed(outcome, t)
      BY <1>1, ExitTells, CleanFleet DEF PipelineInv
    <3> QED BY <3>1 DEF Believed, Outcome
  <2>3. own \in Seq(Finding) /\ DOMAIN own = DOMAIN outcome[t].items
    <3>1. t \in Tools
      BY DEF ScopeOf, Tools
    <3> QED BY <2>2, <3>1, ParsedTyped
  <2>4. allFindings \in Seq(Finding)
    BY <1>1 DEF PipelineInv, PipelineTypeOK, TypeOK
  <2> HIDE DEF own
  <2>5. ASSUME NEW k \in DOMAIN own
        PROVE  ~BlockFloor(own[k]) /\ (exitCode = 0 => ~ReviewFloor(own[k]))
    <3>1. PICK n \in 0 .. Len(allFindings) :
            n + Len(own) <= Len(allFindings) /\ allFindings[n + k] = own[k]
      BY <2>1 DEF HasAsOnePiece
    <3>2. n + k \in DOMAIN allFindings
      BY <2>3, <2>4, <3>1
    <3> QED BY <1>1, <3>1, <3>2, ExitTells DEF Blocked, Review
  <2> QED BY <2>1, <2>3, <2>5 DEF own
<1>2. PipelineInv /\ CompleteInv => ExitMeansClean
  <2> SUFFICES ASSUME PipelineInv, CompleteInv, exitCode \in {0, 2}, NEW t \in ScopeOf(target)
               PROVE  /\ Accepted(t, outcome[t], FALSE)
                      /\ Source(t) \in {"gitleaks", "trufflehog"} => outcome[t].items = <<>>
                      /\ \A k \in DOMAIN outcome[t].items :
                           SeverityOf(t, outcome[t].items[k].level) \notin
                             {"CRITICAL"} \cup (IF exitCode = 0 THEN {"HIGH"} ELSE {})
    BY DEF ExitMeansClean
  <2>1. \A k \in DOMAIN outcome[t].items :
          LET f == Parsed(t, outcome[t].items)[k]
          IN  /\ f.scanner = Source(t)
              /\ f.severity = SeverityOf(t, outcome[t].items[k].level)
    BY DEF Parsed
  <2>2. \A k \in DOMAIN outcome[t].items :
          /\ Source(t) \notin {"gitleaks", "trufflehog"}
          /\ SeverityOf(t, outcome[t].items[k].level) # "CRITICAL"
          /\ exitCode = 0 => SeverityOf(t, outcome[t].items[k].level) # "HIGH"
    BY <1>1, <2>1 DEF BlockFloor, ReviewFloor
  <2>3. Source(t) \in {"gitleaks", "trufflehog"} => outcome[t].items = <<>>
    <3>1. Believed(outcome, t)
      BY ExitTells, CleanFleet DEF PipelineInv
    <3>2. outcome[t].items \in Seq(Item)
      BY <3>1 DEF Believed, Outcome
    <3>3. outcome[t].items # <<>> => 1 \in DOMAIN outcome[t].items
      <4> DEFINE items == outcome[t].items
      <4> HIDE DEF items
      <4>1. items \in Seq(Item) => (items # <<>> => 1 \in DOMAIN items)
        OBVIOUS
      <4> QED BY <3>2, <4>1 DEF items
    <3> QED BY <2>2, <3>3, Zenon
  <2> QED BY <1>1, <2>2, <2>3
<1> QED BY <1>2, PipelineInvariance, PiecesInPipeline, PTL

-----------------------------------------------------------------------------

\* The gate reads targets, reports and policies as the pipeline does.
LEMMA GateReadsAlike ==
  /\ Gate!Tools = Tools /\ Gate!Target = Target
  /\ Gate!ScopeOf(target) = ScopeOf(target)
  /\ \A t, out, done : Gate!Accepted(t, out, done) <=> Accepted(t, out, done)
  /\ \A t, items : Gate!Parsed(t, items) = Parsed(t, items)
<1>1. Gate!Tools = Tools /\ Gate!Target = Target /\ Gate!ScopeOf(target) = ScopeOf(target)
  BY DEF Gate!Tools, Tools, Gate!HistoryTools, HistoryTools, Gate!Target, Target, Gate!ScopeOf, ScopeOf
<1>2. \A t : Gate!Source(t) = Source(t)
  BY DEF Gate!Source, Source
<1>3. \A t, out, done : Gate!Accepted(t, out, done) <=> Accepted(t, out, done)
  BY <1>2 DEF Gate!Accepted, Accepted, Gate!LeaksExit, LeaksExit
<1>4. \A t, level : Gate!SeverityOf(t, level) = SeverityOf(t, level)
  BY <1>2 DEF Gate!SeverityOf, SeverityOf, Gate!Severities, Severities
<1>5. \A t, items : Gate!Parsed(t, items) = Parsed(t, items)
  BY <1>2, <1>4 DEF Gate!Parsed, Parsed
<1> QED BY <1>1, <1>3, <1>5

LEMMA GateDecidesAlike == \A p, fs : Gate!Evaluate(p, fs) = Evaluate(p, fs)
<1>1. \A r : Gate!RuleValid(r) <=> RuleValid(r)
  BY DEF Gate!RuleValid, RuleValid, Gate!Actions, Actions, Gate!Scanners, Scanners,
         Gate!Severities, Severities, Gate!Unset, Unset
<1>2. \A p : Gate!Validate(p) <=> Validate(p)
  BY <1>1 DEF Gate!Validate, Validate
<1>3. \A r, f : Gate!ruleMatches(r, f) <=> ruleMatches(r, f)
  BY DEF Gate!ruleMatches, ruleMatches, Gate!Trim, Trim, Gate!Unset, Unset
<1>4. \A r, fs : Gate!Fires(r, fs) <=> Fires(r, fs)
  <2>1. \A r, fs : Gate!Matching(r, fs) = Matching(r, fs)
    BY <1>3 DEF Gate!Matching, Matching
  <2>2. \A S : Gate!Cardinality(S) = Cardinality(S)
    BY DEF Gate!Cardinality, Cardinality
  <2> QED BY <2>1, <2>2 DEF Gate!Fires, Fires, Gate!Threshold, Threshold
<1>5. \A p, fs, actions : Gate!RuleSays(p, fs, actions) <=> RuleSays(p, fs, actions)
  BY <1>4 DEF Gate!RuleSays, RuleSays
<1>6. \A p, fs : /\ Gate!Blocked(p, fs) <=> Blocked(p, fs)
                 /\ Gate!Review(p, fs) <=> Review(p, fs)
  BY <1>5 DEF Gate!Blocked, Blocked, Gate!BlockFloor, BlockFloor, Gate!Review, Review,
              Gate!ReviewFloor, ReviewFloor
<1> QED BY <1>2, <1>6 DEF Gate!Evaluate, Evaluate

\* The findings of one more tool, if the scope has it.
LEMMA ListsPerhaps ==
  ASSUME NEW scope \in SUBSET Tools, NEW o, \A t \in scope : o[t] \in Outcome,
         NEW S \in SUBSET Tools, NEW s \in Seq(Finding), Lists(o, s, S),
         NEW t \in Tools, t \notin S, NEW f, f = IF t \in scope THEN Parsed(t, o[t].items) ELSE <<>>
  PROVE  s \o f \in Seq(Finding) /\ Lists(o, s \o f, S \cup ({t} \cap scope))
<1>1. CASE t \in scope
  <2>1. o[t] \in Outcome /\ o[t].items \in Seq(Item) /\ {t} \cap scope = {t}
    BY <1>1 DEF Outcome
  <2>2. Parsed(t, o[t].items) \in Seq(Finding)
    BY <2>1, ParsedTyped
  <2> QED BY <1>1, <2>1, <2>2, ListsMore, ConcatProperties
<1>2. CASE t \notin scope
  <2>1. s \o f = s /\ S \cup ({t} \cap scope) = S
    BY <1>2, ConcatEmptySeq
  <2> QED BY <2>1
<1> QED BY <1>1, <1>2

\* The findings the collector has, in the order of arrival, are those of the gate
\* in its fixed order.
LEMMA GateListsAlike ==
  ASSUME NEW scope, scope = ScopeOf(target), target \in Target, \A t \in scope : outcome[t] \in Outcome
  PROVE  Gate!AllFindings \in Seq(Finding) /\ Lists(outcome, Gate!AllFindings, scope)
<1>1. scope \in SUBSET Tools
  BY DEF ScopeOf, Tools
<1>2. \A t : Gate!Findings(t) = IF t \in scope THEN Parsed(t, outcome[t].items) ELSE <<>>
  BY GateReadsAlike DEF Gate!Findings
<1> DEFINE s1 == <<>> \o Gate!Findings("gitleaks")
           s2 == s1 \o Gate!Findings("semgrep")
           s3 == s2 \o Gate!Findings("trivy")
           s4 == s3 \o Gate!Findings("checkov")
           s5 == s4 \o Gate!Findings("gitleaks-history")
           s6 == s5 \o Gate!Findings("trufflehog-history")
           S1 == {} \cup ({"gitleaks"} \cap scope)
           S2 == S1 \cup ({"semgrep"} \cap scope)
           S3 == S2 \cup ({"trivy"} \cap scope)
           S4 == S3 \cup ({"checkov"} \cap scope)
           S5 == S4 \cup ({"gitleaks-history"} \cap scope)
           S6 == S5 \cup ({"trufflehog-history"} \cap scope)
<1>3. /\ {S1, S2, S3, S4, S5, S6} \subseteq SUBSET Tools
      /\ "gitleaks" \in Tools /\ "semgrep" \in Tools /\ "trivy" \in Tools
      /\ "checkov" \in Tools /\ "gitleaks-history" \in Tools /\ "trufflehog-history" \in Tools
  BY <1>1 DEF Tools, HistoryTools
<1>4. /\ "semgrep" \notin S1 /\ "trivy" \notin S2 /\ "checkov" \notin S3
      /\ "gitleaks-history" \notin S4 /\ "trufflehog-history" \notin S5
  OBVIOUS
<1>5. S6 = scope
  BY <1>1 DEF Tools, HistoryTools
<1> HIDE DEF S1, S2, S3, S4, S5, S6
<1>6. ASSUME NEW S \in SUBSET Tools, NEW s \in Seq(Finding), Lists(outcome, s, S),
             NEW t \in Tools, t \notin S
      PROVE  /\ s \o Gate!Findings(t) \in Seq(Finding)
             /\ Lists(outcome, s \o Gate!Findings(t), S \cup ({t} \cap scope))
  BY <1>1, <1>2, <1>6, ListsPerhaps
<1>7. <<>> \in Seq(Finding) /\ Lists(outcome, <<>>, {}) /\ {} \in SUBSET Tools
  BY ListsNothing
<1>8. s1 \in Seq(Finding) /\ Lists(outcome, s1, S1)
  BY <1>6, <1>7, <1>3 DEF S1
<1> HIDE DEF s1
<1>9. s2 \in Seq(Finding) /\ Lists(outcome, s2, S2)
  BY <1>3, <1>4, <1>6, <1>8 DEF S2
<1> HIDE DEF s2
<1>10. s3 \in Seq(Finding) /\ Lists(outcome, s3, S3)
  BY <1>3, <1>4, <1>6, <1>9 DEF S3
<1> HIDE DEF s3
<1>11. s4 \in Seq(Finding) /\ Lists(outcome, s4, S4)
  BY <1>3, <1>4, <1>6, <1>10 DEF S4
<1> HIDE DEF s4
<1>12. s5 \in Seq(Finding) /\ Lists(outcome, s5, S5)
  BY <1>3, <1>4, <1>6, <1>11 DEF S5
<1> HIDE DEF s5
<1>13. s6 \in Seq(Finding) /\ Lists(outcome, s6, S6)
  BY <1>3, <1>4, <1>6, <1>12 DEF S6
<1>14. Gate!AllFindings = s6
  <2>1. Gate!Findings("gitleaks") \in Seq(Finding)
    <3>1. ASSUME "gitleaks" \in scope PROVE Parsed("gitleaks", outcome["gitleaks"].items) \in Seq(Finding)
      <4>1. outcome["gitleaks"] \in Outcome
        BY <3>1
      <4>2. outcome["gitleaks"].items \in Seq(Item)
        BY <4>1 DEF Outcome
      <4> QED BY <1>3, <4>2, ParsedTyped
    <3>2. <<>> \in Seq(Finding)
      OBVIOUS
    <3>3. \/ Gate!Findings("gitleaks") = Parsed("gitleaks", outcome["gitleaks"].items) /\ "gitleaks" \in scope
          \/ Gate!Findings("gitleaks") = <<>>
      BY <1>2, Zenon
    <3> QED BY <3>1, <3>2, <3>3, Zenon
  <2>2. s1 = Gate!Findings("gitleaks")
    BY <2>1, ConcatEmptySeq DEF s1
  <2> QED BY <1>2, <2>2 DEF Gate!AllFindings, s2, s3, s4, s5
<1> QED BY <1>5, <1>13, <1>14

\* What the process exits with is the verdict of the gate, or it fails closed.
LEMMA GateAgrees ==
  ASSUME PipelineInv, phase = "end", ~runErr
  PROVE  decision = Gate!Verdict
<1>1. /\ fleet = "ok" /\ scanners = ScopeOf(target) /\ target \in Target
      /\ decision = Evaluate(policy, allFindings) /\ allFindings \in Seq(Finding)
  BY DEF PipelineInv, PipelineTypeOK, TypeOK, Phased, VerdictInv, Decided
<1>2. /\ \A t \in scanners : Believed(outcome, t) /\ outcome[t] # NoOutcome
      /\ Lists(outcome, allFindings, scanners)
  BY <1>1, CleanFleet DEF PipelineInv
<1>3. Gate!AllFindings \in Seq(Finding) /\ Lists(outcome, Gate!AllFindings, scanners)
  BY <1>1, <1>2, GateListsAlike DEF Believed
<1>4. PICK g : Laws!Rearranges(g, allFindings, Gate!AllFindings)
  BY <1>2, <1>3, ListsAgree
<1>5. Evaluate(policy, allFindings) = Evaluate(policy, Gate!AllFindings)
  BY <1>1, <1>3, <1>4, SameEngine, Laws!DecisionIgnoresOrder
<1>6. ~ \E t \in Gate!ScopeOf(target) : outcome[t] = NoOutcome \/ ~Gate!Accepted(t, outcome[t], FALSE)
  BY <1>1, <1>2, GateReadsAlike DEF Believed
<1> QED BY <1>1, <1>5, <1>6, GateDecidesAlike DEF Gate!Verdict

\* Each step of the scan is a step of the gate, or nothing to it.
LEMMA StepIsGateStep ==
  ASSUME PipelineInv, [PipelineNext]_vars
  PROVE  [Gate!Next]_(Gate!gateVars)
<1>1. CASE ScanOutput
  <2>1. exitCode' = ExitCode(decision, runErr) /\ exitCode = -1 /\ phase = "end"
        /\ UNCHANGED <<policy, target, outcome>>
    BY <1>1 DEF ScanOutput, fleetVars
  <2>2. exitCode' = 0 => Gate!Verdict = "pass"
    BY <2>1, GateAgrees DEF ExitCode
  <2>3. exitCode' = 2 => Gate!Verdict = "review"
    BY <2>1, GateAgrees DEF ExitCode
  <2>4. exitCode' \in 0 .. 2
    BY <2>1 DEF ExitCode
  <2> QED BY <2>1, <2>2, <2>3, <2>4 DEF Gate!Next, Gate!Exit
<1>2. CASE Scan
  <2>1. UNCHANGED <<policy, target, exitCode>> /\ exitCode = -1
    BY <1>2 DEF Scan, pipeVars, PipelineInv, Phased
  <2>2. ASSUME NEW t \in Tools, Finish(t) PROVE [Gate!Next]_(Gate!gateVars)
    <3>1. PICK out \in OutcomesOf[t] : outcome' = [outcome EXCEPT ![t] = out]
      BY <2>2 DEF Finish
    <3>2. outcome[t] = NoOutcome
      BY <2>2 DEF Finish, PipelineInv, FleetInv, Collected, Sent
    <3> QED BY <2>1, <3>1, <3>2, GateReadsAlike DEF Gate!Next, Gate!Observe
  <2>3. ASSUME NEW t \in Tools, Acquire(t) \/ GiveUp(t) \/ Release(t) PROVE UNCHANGED outcome
    BY <2>3 DEF Acquire, GiveUp, Release
  <2>4. Collect \/ Return \/ Cancel \/ Tick => UNCHANGED outcome
    BY DEF Collect, Return, Cancel, Tick
  <2> QED BY <1>2, <2>1, <2>2, <2>3, <2>4 DEF Scan, FleetStep, Goroutine, Gate!gateVars
<1>3. CASE Start \/ Fetch \/ ScopeFails \/ ScanEnds \/ Analyze \/ Decide \/ FinishRun
  BY <1>3 DEF Start, Fetch, ScopeFails, ScanEnds, Analyze, Decide, FinishRun, FailRun, GoOn,
              fleetVars, Gate!gateVars
<1>4. CASE Scope
  BY <1>4 DEF Scope, Launch, GoOn, Gate!gateVars
<1>5. CASE CancelEarlyOrLate \/ LateRelease \/ UNCHANGED vars
  BY <1>5 DEF CancelEarlyOrLate, LateRelease, Release, vars, fleetVars, pipeVars, Gate!gateVars
<1> QED BY <1>1, <1>2, <1>3, <1>4, <1>5 DEF PipelineNext, Step

(***************************************************************************)
(* Whatever the concurrency, the policy, the containers, the cancellations *)
(* and the timeouts: the process exits 0 or 2 only if every scanner of the *)
(* scope ended with a report that is believed and the policy says so of    *)
(* all the findings together (orchestrator.go:150-241, scan.go:193-286).   *)
(***************************************************************************)
THEOREM ScanFailsClosed == PipelineSpec => ImplementsGate
<1>1. PipelineInit => Gate!Init
  BY TargetsAssumption, GateReadsAlike DEF PipelineInit, Init, Gate!Init
<1>2. PipelineInv /\ [PipelineNext]_vars => [Gate!Next]_(Gate!gateVars)
  BY StepIsGateStep
<1> QED BY <1>1, <1>2, PipelineInvariance, PTL DEF PipelineSpec, ImplementsGate, Gate!Spec

-----------------------------------------------------------------------------

\* The time that the scanners that are done were allowed to take.
Allowed(t) == IF pc[t] = "done" THEN ScannerTimeout(t) ELSE 0
Spent ==
  Allowed("gitleaks") + Allowed("semgrep") + Allowed("trivy") + Allowed("checkov")
    + Allowed("gitleaks-history") + Allowed("trufflehog-history")

\* A scan is of the working tree or of the history.
OneKind ==
  \/ \A t \in HistoryTools : pc[t] = "idle"
  \/ \A t \in Tools \ HistoryTools : pc[t] = "idle"

\* A slot is taken, and one is free while scanners wait, no later than the
\* scanners that are done were allowed to take.
Timed ==
  /\ OneKind
  /\ fleet = "idle" => now = 0
  /\ \A t \in Holding : began[t] <= Spent /\ now <= began[t] + ScannerTimeout(t)
  /\ (\E t \in Tools : pc[t] = "select") /\ sem < MaxConcurrency => now <= Spent
  /\ \A t \in Tools : pc[t] = "releasing" \/ (pc[t] = "done" /\ ~canceled) => outcome[t] # NoOutcome

LEMMA Timeouts ==
  /\ \A t : ScannerTimeout(t) \in {1, 3}
  /\ \A t \in HistoryTools : ScannerTimeout(t) = 3
  /\ \A t \in Tools \ HistoryTools : ScannerTimeout(t) = 1
  /\ Tools = {"gitleaks", "semgrep", "trivy", "checkov", "gitleaks-history", "trufflehog-history"}
  /\ HistoryTools = {"gitleaks-history", "trufflehog-history"}
BY DEF ScannerTimeout, Tools, HistoryTools

LEMMA SpentTyped == Spent \in Nat
BY Timeouts DEF Spent, Allowed

\* A goroutine moves on, and is done or is not.
LEMMA SpentMoves ==
  ASSUME TypeOK, NEW t \in Tools, pc[t] # "done", NEW where, pc' = [pc EXCEPT ![t] = where]
  PROVE  Spent' = IF where = "done" THEN Spent + ScannerTimeout(t) ELSE Spent
<1> DEFINE more == IF where = "done" THEN ScannerTimeout(t) ELSE 0
<1>1. \A u \in Tools : Allowed(u)' = IF u = t THEN Allowed(u) + more ELSE Allowed(u)
  BY Timeouts DEF Allowed, TypeOK
<1>2. more \in Nat /\ \A u \in Tools : Allowed(u) \in Nat
  BY Timeouts DEF Allowed
<1>3. Spent' = Allowed("gitleaks")' + Allowed("semgrep")' + Allowed("trivy")' + Allowed("checkov")'
                 + Allowed("gitleaks-history")' + Allowed("trufflehog-history")'
  BY DEF Spent
<1>4. Spent' = Spent + more
  <2> HIDE DEF more
  <2>1. CASE t = "gitleaks"
    BY <1>1, <1>2, <1>3, <2>1, Timeouts DEF Spent
  <2>2. CASE t = "semgrep"
    BY <1>1, <1>2, <1>3, <2>2, Timeouts DEF Spent
  <2>3. CASE t = "trivy"
    BY <1>1, <1>2, <1>3, <2>3, Timeouts DEF Spent
  <2>4. CASE t = "checkov"
    BY <1>1, <1>2, <1>3, <2>4, Timeouts DEF Spent
  <2>5. CASE t = "gitleaks-history"
    BY <1>1, <1>2, <1>3, <2>5, Timeouts DEF Spent
  <2>6. CASE t = "trufflehog-history"
    BY <1>1, <1>2, <1>3, <2>6, Timeouts DEF Spent
  <2> QED BY <2>1, <2>2, <2>3, <2>4, <2>5, <2>6, Timeouts
<1> QED BY <1>4, SpentTyped

\* One scanner after the other is allowed no more than half an hour.
LEMMA SpentBounded ==
  ASSUME OneKind, NEW t \in Tools, NEW u \in Tools, pc[t] \notin {"idle", "done"},
         pc[u] \notin {"idle", "done"}
  PROVE  /\ Spent + ScannerTimeout(t) <= 6
         /\ t # u => Spent + ScannerTimeout(t) + ScannerTimeout(u) <= 6
<1>1. CASE \A v \in HistoryTools : pc[v] = "idle"
  <2>1. Allowed("gitleaks-history") = 0 /\ Allowed("trufflehog-history") = 0
    BY <1>1, Timeouts DEF Allowed
  <2>2. /\ t \in {"gitleaks", "semgrep", "trivy", "checkov"} /\ ScannerTimeout(t) = 1 /\ Allowed(t) = 0
        /\ u \in {"gitleaks", "semgrep", "trivy", "checkov"} /\ ScannerTimeout(u) = 1 /\ Allowed(u) = 0
    BY <1>1, Timeouts DEF Allowed
  <2>3. \A v \in {"gitleaks", "semgrep", "trivy", "checkov"} : Allowed(v) \in {0, 1}
    BY Timeouts DEF Allowed
  <2> QED BY <2>1, <2>2, <2>3 DEF Spent
<1>2. CASE \A v \in Tools \ HistoryTools : pc[v] = "idle"
  <2>1. \A v \in {"gitleaks", "semgrep", "trivy", "checkov"} : Allowed(v) = 0
    BY <1>2, Timeouts DEF Allowed
  <2>2. /\ t \in HistoryTools /\ ScannerTimeout(t) = 3 /\ Allowed(t) = 0
        /\ u \in HistoryTools /\ ScannerTimeout(u) = 3 /\ Allowed(u) = 0
    BY <1>2, Timeouts DEF Allowed
  <2>3. \A v \in HistoryTools : Allowed(v) \in {0, 3}
    BY Timeouts DEF Allowed
  <2> QED BY <2>1, <2>2, <2>3, Timeouts DEF Spent
<1> QED BY <1>1, <1>2 DEF OneKind

\* No scanner that waits sees the deadline of the scan.
LEMMA WaitingIsInTime ==
  ASSUME FleetInv, Timed, NEW t \in Tools, pc[t] = "select"
  PROVE  now < ScanBudget
<1>1. now \in Nat /\ began \in [Tools -> Nat] /\ sem \in Nat
  BY DEF FleetInv, IInv, TypeOK
<1>2. Spent + ScannerTimeout(t) <= 6 /\ OneKind
  BY SpentBounded DEF Timed
<1>3. CASE sem < MaxConcurrency
  BY <1>1, <1>2, <1>3, SpentTyped, Timeouts DEF Timed, ScanBudget
<1>4. CASE sem >= MaxConcurrency
  <2>1. Holding # {}
    BY <1>4, MaxConcurrencyAssumption, FS_EmptySet DEF FleetInv, IInv, SlotsBounded, Holding
  <2>2. PICK u \in Holding : TRUE
    BY <2>1
  <2>3. u \in Tools /\ u # t /\ pc[u] \notin {"idle", "done"}
    BY <2>2 DEF Holding, Running, Releasing
  <2>4. Spent + ScannerTimeout(t) + ScannerTimeout(u) <= 6
    BY <1>2, <2>3, SpentBounded
  <2>5. began[u] <= Spent /\ now <= began[u] + ScannerTimeout(u)
    BY <2>2 DEF Timed
  <2> QED BY <1>1, <2>3, <2>4, <2>5, SpentTyped, Timeouts DEF ScanBudget
<1> QED BY <1>1, <1>3, <1>4, MaxConcurrencyAssumption

LEMMA InitTimed == Init => Timed
<1> SUFFICES ASSUME Init PROVE Timed
  OBVIOUS
<1>1. \A t \in Tools : pc[t] = "idle"
  BY DEF Init
<1> QED BY <1>1, Timeouts DEF Init, Timed, OneKind, Holding, Running, Releasing

LEMMA LaunchTimed ==
  ASSUME FleetInv, Timed, NEW tree \in Target, Launch(ScopeOf(tree))
  PROVE  Timed'
<1>1. now = 0 /\ now' = now
  BY DEF Timed, Launch
<1>2. \A t \in Tools : pc'[t] = IF t \in ScopeOf(tree) THEN "select" ELSE "idle"
  BY DEF Launch
<1>3. OneKind'
  BY <1>2, Timeouts DEF OneKind, ScopeOf
<1>4. Holding' = {}
  BY <1>2 DEF Holding, Running, Releasing
<1>5. Spent' = 0
  BY <1>2, Timeouts DEF Spent, Allowed
<1> QED BY <1>1, <1>2, <1>3, <1>4, <1>5 DEF Timed, Launch

\* Goroutines that move on keep to their kind of scan.
LEMMA KindKept ==
  ASSUME OneKind, TypeOK, NEW t \in Tools, pc[t] # "idle", NEW where, pc' = [pc EXCEPT ![t] = where]
  PROVE  OneKind'
<1>1. \A u \in Tools : u # t => pc'[u] = pc[u]
  BY DEF TypeOK
<1> QED BY <1>1, Timeouts DEF OneKind

LEMMA AcquireTimed ==
  ASSUME FleetInv, Timed, NEW t \in Tools, Acquire(t)
  PROVE  Timed'
<1>0. TypeOK
  BY DEF FleetInv, IInv
<1>1. /\ pc[t] = "select" /\ pc' = [pc EXCEPT ![t] = "running"] /\ began' = [began EXCEPT ![t] = now]
      /\ sem < MaxConcurrency /\ sem' = sem + 1
      /\ UNCHANGED <<fleet, now, canceled, outcome>>
  BY DEF Acquire
<1>2. OneKind'
  BY <1>0, <1>1, KindKept DEF Timed
<1>3. Spent' = Spent
  <2>1. pc[t] # "done" /\ "running" # "done"
    BY <1>1
  <2>2. Spent' = IF "running" = "done" THEN Spent + ScannerTimeout(t) ELSE Spent
    BY <1>0, <1>1, <2>1, SpentMoves
  <2> QED BY <2>1, <2>2
<1>4. now <= Spent
  BY <1>1 DEF Timed
<1>5. \A u \in Holding' : began'[u] <= Spent' /\ now' <= began'[u] + ScannerTimeout(u)
  <2> SUFFICES ASSUME NEW u \in Holding' PROVE began'[u] <= Spent' /\ now' <= began'[u] + ScannerTimeout(u)
    OBVIOUS
  <2>1. CASE u = t
    <3>1. began'[u] = now /\ now \in Nat
      BY <1>0, <1>1, <2>1 DEF TypeOK
    <3> QED BY <1>1, <1>3, <1>4, <3>1, Timeouts
  <2>2. CASE u # t
    <3>1. u \in Holding /\ began'[u] = began[u]
      BY <1>0, <1>1, <2>2 DEF TypeOK, Holding, Running, Releasing
    <3> QED BY <1>1, <1>3, <3>1 DEF Timed
  <2> QED BY <2>1, <2>2
<1>6. sem < MaxConcurrency /\ (\E u \in Tools : pc[u] = "select")
  BY <1>1
<1>7. \A u \in Tools : pc'[u] = "releasing" \/ (pc'[u] = "done" /\ ~canceled') => outcome'[u] # NoOutcome
  BY <1>0, <1>1 DEF TypeOK, Timed
<1> QED BY <1>1, <1>2, <1>3, <1>4, <1>5, <1>7 DEF Timed

\* Without a cancellation nobody gives up.
LEMMA GiveUpTimed ==
  ASSUME FleetInv, Timed, NEW t \in Tools, GiveUp(t)
  PROVE  Timed'
<1>0. TypeOK
  BY DEF FleetInv, IInv
<1>1. /\ pc[t] = "select" /\ ctxDone /\ pc' = [pc EXCEPT ![t] = "done"]
      /\ UNCHANGED <<fleet, sem, now, began, canceled, outcome>>
  BY DEF GiveUp
<1>2. canceled
  <2>1. now < ScanBudget /\ now \in Nat
    BY <1>0, <1>1, WaitingIsInTime DEF TypeOK
  <2> QED BY <1>1, <2>1 DEF ctxDone, ScanBudget
<1>3. OneKind'
  BY <1>0, <1>1, KindKept DEF Timed
<1>4. Spent' = Spent + ScannerTimeout(t)
  BY <1>0, <1>1, SpentMoves
<1>5. Spent <= Spent'
  BY <1>4, SpentTyped, Timeouts
<1>6. Spent' \in Nat /\ Spent \in Nat /\ now \in Nat /\ began \in [Tools -> Nat]
  BY <1>0, <1>4, SpentTyped, Timeouts DEF TypeOK
<1>7. Holding' = Holding
  BY <1>0, <1>1 DEF TypeOK, Holding, Running, Releasing
<1>8. Holding \subseteq Tools
  BY DEF Holding, Running, Releasing
<1>9. \A u \in Holding' : began'[u] <= Spent' /\ now' <= began'[u] + ScannerTimeout(u)
  BY <1>1, <1>5, <1>6, <1>7, <1>8 DEF Timed
<1>10. (\E u \in Tools : pc'[u] = "select") => (\E u \in Tools : pc[u] = "select")
  BY <1>1
<1>11. \A u \in Tools : pc'[u] = "releasing" => outcome'[u] # NoOutcome
  BY <1>0, <1>1 DEF TypeOK, Timed
<1>12. (\E u \in Tools : pc'[u] = "select") /\ sem' < MaxConcurrency => now' <= Spent'
  BY <1>1, <1>5, <1>6, <1>10 DEF Timed
<1> QED BY <1>1, <1>2, <1>3, <1>9, <1>11, <1>12 DEF Timed

LEMMA FinishTimed ==
  ASSUME FleetInv, Timed, NEW t \in Tools, Finish(t)
  PROVE  Timed'
<1>0. TypeOK
  BY DEF FleetInv, IInv
<1>1. /\ pc[t] = "running" /\ pc' = [pc EXCEPT ![t] = "releasing"]
      /\ UNCHANGED <<fleet, sem, now, began, canceled>>
  BY DEF Finish
<1>2. PICK out \in OutcomesOf[t] : outcome' = [outcome EXCEPT ![t] = out]
  BY Zenon DEF Finish
<1>3. out # NoOutcome
  BY <1>2, OutcomesAssumption DEF Outcome, NoOutcome, Exits
<1>4. OneKind'
  BY <1>0, <1>1, KindKept DEF Timed
<1>5. Spent' = Spent
  <2>1. pc[t] # "done" /\ "releasing" # "done"
    BY <1>1
  <2>2. Spent' = IF "releasing" = "done" THEN Spent + ScannerTimeout(t) ELSE Spent
    BY <1>0, <1>1, <2>1, SpentMoves
  <2> QED BY <2>1, <2>2
<1>6. Holding' = Holding
  BY <1>0, <1>1 DEF TypeOK, Holding, Running, Releasing
<1>7. (\E u \in Tools : pc'[u] = "select") => (\E u \in Tools : pc[u] = "select")
  BY <1>1
<1>8. \A u \in Tools : pc'[u] = "releasing" \/ (pc'[u] = "done" /\ ~canceled') => outcome'[u] # NoOutcome
  BY <1>0, <1>1, <1>2, <1>3 DEF TypeOK, Timed
<1> QED BY <1>1, <1>4, <1>5, <1>6, <1>7, <1>8 DEF Timed

\* A slot that is handed back is free no later than its scanner was allowed.
LEMMA ReleaseTimed ==
  ASSUME FleetInv, Timed, NEW t \in Tools, Release(t)
  PROVE  Timed'
<1>0. TypeOK
  BY DEF FleetInv, IInv
<1>1. /\ pc[t] = "releasing" /\ pc' = [pc EXCEPT ![t] = "done"]
      /\ UNCHANGED <<fleet, now, began, canceled, outcome>>
  BY DEF Release
<1>2. OneKind'
  BY <1>0, <1>1, KindKept DEF Timed
<1>3. Spent' = Spent + ScannerTimeout(t)
  BY <1>0, <1>1, SpentMoves
<1>4. began[t] <= Spent /\ now <= began[t] + ScannerTimeout(t)
  BY <1>1 DEF Timed, Holding, Releasing
<1>5. Spent \in Nat /\ now \in Nat /\ began \in [Tools -> Nat]
  BY <1>0, SpentTyped DEF TypeOK
<1>6. now <= Spent' /\ Spent <= Spent' /\ Spent' \in Nat
  BY <1>3, <1>4, <1>5, Timeouts
<1>7. Holding' \subseteq Holding /\ Holding \subseteq Tools
  BY <1>0, <1>1 DEF TypeOK, Holding, Running, Releasing
<1>8. \A u \in Holding' : began'[u] <= Spent' /\ now' <= began'[u] + ScannerTimeout(u)
  BY <1>1, <1>5, <1>6, <1>7 DEF Timed
<1>9. \A u \in Tools : pc'[u] = "releasing" \/ (pc'[u] = "done" /\ ~canceled') => outcome'[u] # NoOutcome
  BY <1>0, <1>1 DEF TypeOK, Timed
<1> QED BY <1>1, <1>2, <1>6, <1>8, <1>9 DEF Timed

\* Time passes for containers that still have time, and for nobody who could start.
LEMMA TickTimed ==
  ASSUME FleetInv, Timed, Tick
  PROVE  Timed'
<1>0. TypeOK
  BY DEF FleetInv, IInv
<1>1. /\ fleet = "running" /\ now' = now + 1 /\ Releasing = {} /\ \A t \in Running : ~scanCtxDone(t)
      /\ \A t \in Tools : pc[t] = "select" => sem >= MaxConcurrency
      /\ UNCHANGED <<fleet, pc, sem, began, canceled, outcome>>
  BY DEF Tick
<1>2. OneKind' /\ Spent' = Spent /\ Holding' = Running
  BY <1>1 DEF Timed, OneKind, Spent, Allowed, Holding, Running, Releasing
<1>3. \A t \in Running : began'[t] <= Spent' /\ now' <= began'[t] + ScannerTimeout(t)
  <2> SUFFICES ASSUME NEW t \in Running PROVE began'[t] <= Spent' /\ now' <= began'[t] + ScannerTimeout(t)
    OBVIOUS
  <2>1. ~(now >= began[t] + ScannerTimeout(t))
    BY <1>1 DEF scanCtxDone
  <2>2. t \in Tools /\ now \in Nat /\ began[t] \in Nat
    BY <1>0 DEF TypeOK, Running
  <2> QED BY <1>1, <1>2, <2>1, <2>2, Timeouts DEF Timed, Holding
<1>4. sem \in Nat /\ MaxConcurrency \in Nat
  BY <1>0, MaxConcurrencyAssumption DEF TypeOK
<1>5. ~((\E t \in Tools : pc'[t] = "select") /\ sem' < MaxConcurrency)
  BY <1>1, <1>4
<1> QED BY <1>1, <1>2, <1>3, <1>5 DEF Timed

\* The steps of the collector and of the caller.
LEMMA EnvironmentTimed ==
  ASSUME Timed, UNCHANGED <<pc, sem, now, began, outcome>>, canceled' \in {canceled, TRUE},
         fleet' = "idle" => fleet = "idle"
  PROVE  Timed'
<1>1. OneKind' /\ Spent' = Spent /\ Holding' = Holding
  BY DEF Timed, OneKind, Spent, Allowed, Holding, Running, Releasing
<1>2. ~canceled' => ~canceled
  OBVIOUS
<1>3. \A t \in Tools : pc'[t] = "releasing" \/ (pc'[t] = "done" /\ ~canceled') => outcome'[t] # NoOutcome
  BY <1>2 DEF Timed
<1> QED BY <1>1, <1>3 DEF Timed

LEMMA TimedKept ==
  ASSUME FleetInv, Timed, [Next]_fleetVars \/ CancelEarlyOrLate
  PROVE  Timed'
<1>1. CASE \E tree \in Target : Launch(ScopeOf(tree))
  BY <1>1, LaunchTimed
<1>2. CASE \E t \in Tools : Goroutine(t)
  BY <1>2, AcquireTimed, GiveUpTimed, FinishTimed, ReleaseTimed DEF Goroutine
<1>3. CASE Collect \/ Return \/ Cancel \/ CancelEarlyOrLate \/ UNCHANGED fleetVars
  <2>1. /\ UNCHANGED <<pc, sem, now, began, outcome>> /\ canceled' \in {canceled, TRUE}
        /\ fleet' = "idle" => fleet = "idle"
    BY <1>3 DEF Collect, Return, Cancel, CancelEarlyOrLate, fleetVars
  <2> QED BY <2>1, EnvironmentTimed
<1> QED BY <1>1, <1>2, <1>3, TickTimed DEF Next, FleetStep

(***************************************************************************)
(* The deadline of the scan leaves every scanner its own, however few of   *)
(* them run at once and however long each takes (orchestrator.go:31,       *)
(* adapter_local.go:253): unless the user cancels, none is given up on     *)
(* before it ran and none is killed before its own timeout.                *)
(***************************************************************************)
THEOREM BudgetHolds == PipelineSpec => []BudgetSuffices
<1>1. PipelineInit => Timed
  BY InitTimed DEF PipelineInit
<1>2. PipelineInv /\ Timed /\ [PipelineNext]_vars => Timed'
  BY FleetSteps, TimedKept DEF PipelineInv, PipelineTypeOK
<1>3. PipelineInv /\ Timed => BudgetSuffices
  <2> SUFFICES ASSUME PipelineInv, Timed, ~canceled PROVE BudgetSuffices
    BY DEF BudgetSuffices
  <2>1. \A t \in scanners : pc[t] = "done" => outcome[t] # NoOutcome
    BY DEF Timed, PipelineInv, PipelineTypeOK, TypeOK
  <2>2. \A t \in Running : began[t] + ScannerTimeout(t) <= ScanBudget
    <3> SUFFICES ASSUME NEW t \in Running PROVE began[t] + ScannerTimeout(t) <= ScanBudget
      OBVIOUS
    <3>1. t \in Tools /\ pc[t] = "running" /\ began[t] \in Nat
      BY DEF Running, PipelineInv, PipelineTypeOK, TypeOK
    <3>2. Spent + ScannerTimeout(t) <= 6
      BY <3>1, SpentBounded DEF Timed
    <3>3. began[t] <= Spent
      BY DEF Timed, Holding
    <3> QED BY <3>1, <3>2, <3>3, SpentTyped, Timeouts DEF ScanBudget
  <2> QED BY <2>1, <2>2 DEF BudgetSuffices
<1> QED BY <1>1, <1>2, <1>3, PipelineInvariance, PTL DEF PipelineSpec
=============================================================================
