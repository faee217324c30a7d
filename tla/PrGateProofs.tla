---------------------------- MODULE PrGateProofs ----------------------------
(***************************************************************************)
(* The pull request gate for every set of pull requests, every repository  *)
(* and every number of events and versions.                                *)
(***************************************************************************)
EXTENDS PrGate, TLAPS

(***************************************************************************)
(* An outcome that scan of pr-gate.py accepts lists all that the scanners  *)
(* report of the tree (pr-gate.py:39-57).                                  *)
(***************************************************************************)
LEMMA AcceptedIsComplete ==
  ASSUME NEW tree, NEW o \in Outcomes(tree), scan(o)
  PROVE  o.listed = Reported(tree)
<1>1. CASE o \in {NotJson}
  <2>1. o = NotJson
    BY <1>1, Zenon
  <2> QED BY <2>1 DEF NotJson, scan
<1>2. ASSUME NEW code,
             o \in {Outcome(Failed(l), code, l) : l \in SUBSET Reported(tree)}
      PROVE  FALSE
  <2>1. PICK l \in SUBSET Reported(tree) : o = Outcome(Failed(l), code, l)
    BY <1>2, Zenon
  <2>2. o.report.status = "failed"
    BY <2>1 DEF Outcome, Failed, JsonReport
  <2> QED BY <2>2 DEF scan
<1>3. CASE o \in {Outcome(Decided(d, tree), ExitCode(d, FALSE), Reported(tree)) : d \in Verdicts}
  <2>1. PICK d \in Verdicts : o = Outcome(Decided(d, tree), ExitCode(d, FALSE), Reported(tree))
    BY <1>3, Zenon
  <2> QED BY <2>1 DEF Outcome
<1>4. CASE o \in {Outcome(Decided(d, tree), -1, Reported(tree)) : d \in Verdicts}
  <2>1. PICK d \in Verdicts : o = Outcome(Decided(d, tree), -1, Reported(tree))
    BY <1>4, Zenon
  <2> QED BY <2>1 DEF Outcome
<1> QED BY <1>1, <1>2, <1>3, <1>4, Zenon DEF Outcomes

(***************************************************************************)
(* A pass of pr-gate.py: whatever is wrong with the candidate is wrong     *)
(* with the base, from the same inputs (pr-gate.py:59-120).                *)
(***************************************************************************)
LEMMA PassAddsNothing ==
  ASSUME NEW base \in Tree, NEW cand \in Tree,
         NEW before \in Outcomes(base), NEW after \in Outcomes(cand),
         evaluate(base, cand, before, after) = "pass"
  PROVE  Flaws(cand) \subseteq Flaws(base)
<1>1. /\ ~Suppresses(base, cand)
      /\ identities(Reported(cand), cand) \subseteq identities(Reported(base), base)
  <2>1. scan(before) /\ scan(after) /\ ~Suppresses(base, cand)
        /\ identities(after.listed, cand) \subseteq identities(before.listed, base)
    BY DEF evaluate
  <2> QED BY <2>1, AcceptedIsComplete
<1>2. ASSUME NEW f \in Present(cand)
      PROVE  f \in Present(base) /\ [x \in Reads(f) |-> cand[x]] = [x \in Reads(f) |-> base[x]]
  <2>0. f \in Finding /\ f.file \in Files /\ f.scanner \in {"source", "trivy"}
    BY <1>2 DEF Present, Finding
  <2>1. CASE f \notin Reported(cand)
    <3>1. f.file \in Iac /\ cand[f.file] \in Muted
      BY <1>2, <2>1 DEF Reported
    <3>2. cand[f.file] = base[f.file]
      BY <1>1, <3>1 DEF Suppresses
    <3>3. f.scanner = "source"
      BY <1>2, <3>1, PrFindingsAssumption DEF Present
    <3> QED BY <1>2, <3>2, <3>3 DEF Present, Reads
  <2>2. CASE f \in Reported(cand)
    <3>1. PICK g \in Reported(base) : identity(f, cand) = identity(g, base)
      BY <1>1, <2>2 DEF identities
    <3>2. f = g /\ cand[f.file] = base[f.file]
          /\ (f.scanner = "trivy" => [l \in Lockfiles |-> cand[l]] = [l \in Lockfiles |-> base[l]])
      BY <3>1 DEF identity
    <3>3. f \in Present(base)
      BY <3>1, <3>2 DEF Reported
    <3> QED BY <2>0, <3>2, <3>3 DEF Reads
  <2> QED BY <2>1, <2>2
<1> QED BY <1>2 DEF Flaws
-----------------------------------------------------------------------------

\* A version of main, and a head that started from it or from one before it.
Pair(b, h) == b \in 1 .. Len(main) /\ h \in HeadCommit /\ h.base <= b

\* What a run knows: its event, then the verified merge, then the result.
RunInv(r) ==
  /\ Pair(r.base, r.head)
  /\ r.candidate # None => /\ r.candidate = [onto |-> r.base, head |-> r.head]
                           /\ ~Conflict(r.base, r.head)
  /\ r.step \in {"startMerge", "scan"} => r.candidate # None
  /\ r.result = "pass" => r.candidate # None /\ Harmless(r.base, r.head)

HeadsInv  == \A pr \in PRs : head[pr] # None => Pair(Len(main), head[pr])
RefsInv   == \A pr \in PRs : mergeRef[pr] # None =>
               /\ Pair(mergeRef[pr].onto, mergeRef[pr].head)
               /\ ~Conflict(mergeRef[pr].onto, mergeRef[pr].head)
EventsInv == \A pr \in PRs : event[pr] # None => Pair(event[pr].onto, event[pr].head)
RunsInv   == \A pr \in PRs : run[pr] # None => RunInv(run[pr])

\* SuccessIsEarned, with merges of versions that exist.
GreenHead(h)  == \E b \in 1 .. Len(main) : h.base <= b /\ Harmless(b, h)
GreenMerge(m) == Pair(m.onto, m.head) /\ Harmless(m.onto, m.head)
GreenInv == \A sha \in green : /\ sha \in HeadCommit => GreenHead(sha)
                               /\ sha \in MergeCommit => GreenMerge(sha)

Inv == TypeOK /\ HeadsInv /\ RefsInv /\ EventsInv /\ RunsInv /\ GreenInv

-----------------------------------------------------------------------------

LEMMA CommitsDiffer ==
  /\ \A h \in HeadCommit : h # None /\ h \notin MergeCommit
  /\ \A m \in MergeCommit : m # None
  /\ \A r \in Run : r # None
<1>1. ASSUME NEW h \in HeadCommit, NEW m \in MergeCommit PROVE h # m
  <2>1. DOMAIN h = {"pr", "tree", "base"} /\ DOMAIN m = {"onto", "head"}
    BY DEF HeadCommit, MergeCommit
  <2>2. "pr" \in DOMAIN h /\ "pr" \notin DOMAIN m
    BY <2>1
  <2> QED BY <2>2
<1>2. ASSUME NEW h \in HeadCommit PROVE h # None
  BY DEF HeadCommit, None
<1>3. ASSUME NEW m \in MergeCommit PROVE m # None
  BY DEF MergeCommit, None
<1>4. ASSUME NEW r \in Run PROVE r # None
  BY DEF Run, None
<1> QED BY <1>1, <1>2, <1>3, <1>4

\* The trees that are compared are trees.
LEMMA MergedIsATree ==
  ASSUME TypeOK, NEW b, NEW h, Pair(b, h)
  PROVE  main[b] \in Tree /\ main[h.base] \in Tree /\ Merged(b, h) \in Tree
<1>1. h.tree \in Tree /\ h.base \in 1 .. Len(main) /\ b \in 1 .. Len(main)
  BY DEF Pair, HeadCommit, TypeOK
<1>2. main[b] \in Tree /\ main[h.base] \in Tree
  BY <1>1 DEF TypeOK
<1> QED BY <1>1, <1>2 DEF Merged, Tree

\* The steps of a run leave the repository and its events alone.
LEMMA RunStepsFrame ==
  ASSUME NEW pr \in PRs, RunStep(pr)
  PROVE  UNCHANGED <<repoVars, eventVars>>
<1>1. CASE StepFails(pr)
  BY <1>1 DEF StepFails
<1>2. CASE StartHeadCheck(pr)
  BY <1>2 DEF StartHeadCheck, OpenCheck
<1>3. CASE FetchMerge(pr)
  BY <1>3 DEF FetchMerge
<1>4. CASE StartMergeCheck(pr)
  BY <1>4 DEF StartMergeCheck, OpenCheck
<1>5. CASE Scan(pr)
  BY <1>5, Zenon DEF Scan
<1>6. CASE FinishMergeCheck(pr)
  BY <1>6, Zenon DEF FinishMergeCheck
<1>7. CASE FinishHeadCheck(pr)
  BY <1>7, Zenon DEF FinishHeadCheck
<1> QED BY <1>1, <1>2, <1>3, <1>4, <1>5, <1>6, <1>7 DEF RunStep

\* Every step but a merge leaves the branch alone.
LEMMA OtherStepsStutter ==
  ASSUME NEW pr \in PRs,
         Push(pr) \/ Retrigger(pr) \/ RefreshMergeRef(pr)
           \/ StartRun(pr) \/ CancelRun(pr) \/ LoseRunner(pr) \/ RunStep(pr)
  PROVE  UNCHANGED main
<1>1. CASE Push(pr) \/ Retrigger(pr) \/ RefreshMergeRef(pr)
  BY <1>1 DEF Push, Retrigger, RefreshMergeRef, repoVars
<1>2. CASE StartRun(pr) \/ CancelRun(pr) \/ LoseRunner(pr)
  BY <1>2 DEF StartRun, CancelRun, LoseRunner, repoVars
<1>3. CASE RunStep(pr)
  BY <1>3, RunStepsFrame DEF repoVars
<1> QED BY <1>1, <1>2, <1>3

\* Nothing that was found out about versions of main ever changes.
LEMMA HistoryIsFixed ==
  ASSUME TypeOK, Next
  PROVE  /\ Len(main') \in Nat /\ Len(main) \in Nat /\ Len(main) <= Len(main')
         /\ \A b, h : Pair(b, h) =>
              /\ Pair(b, h)'
              /\ Conflict(b, h)' <=> Conflict(b, h)
              /\ Harmless(b, h)' <=> Harmless(b, h)
<1>1. UNCHANGED main \/ \E tree \in Tree : main' = Append(main, tree)
  <2>1. CASE \E pr \in PRs : Merge(pr)
    <3>1. PICK pr \in PRs : Merge(pr)
      BY <2>1
    <3>2. head[pr] \in HeadCommit
      BY <3>1, CommitsDiffer DEF Merge, TypeOK, None, HeadCommit, MergeCommit
    <3> QED BY <3>1, <3>2 DEF Merge, HeadCommit
  <2>2. CASE ~\E pr \in PRs : Merge(pr)
    BY <2>2, OtherStepsStutter, Zenon DEF Next
  <2> QED BY <2>1, <2>2
<1>2. /\ Len(main') \in Nat /\ Len(main) \in Nat /\ Len(main) <= Len(main')
      /\ \A k \in 1 .. Len(main) : main'[k] = main[k]
  BY <1>1 DEF TypeOK
<1>3. ASSUME NEW b, NEW h, Pair(b, h)
      PROVE  /\ Pair(b, h)'
             /\ Conflict(b, h)' <=> Conflict(b, h)
             /\ Harmless(b, h)' <=> Harmless(b, h)
  <2>1. b \in 1 .. Len(main) /\ h.base \in 1 .. Len(main) /\ h \in HeadCommit
    BY <1>2, <1>3 DEF Pair, HeadCommit
  <2>2. main'[b] = main[b] /\ main'[h.base] = main[h.base]
    BY <1>2, <2>1
  <2>3. Pair(b, h)'
    BY <1>2, <1>3, <2>1 DEF Pair
  <2>4. Conflict(b, h)' <=> Conflict(b, h)
    BY <2>2 DEF Conflict
  <2>5. Merged(b, h)' = Merged(b, h)
    BY <2>2 DEF Merged
  <2> QED BY <2>2, <2>3, <2>4, <2>5 DEF Harmless
<1> QED BY <1>2, <1>3
-----------------------------------------------------------------------------

LEMMA FactsLast ==
  ASSUME TypeOK, Next
  PROVE  /\ \A r : RunInv(r) => RunInv(r)'
         /\ \A h \in HeadCommit : GreenHead(h) => GreenHead(h)'
         /\ \A m : GreenMerge(m) => GreenMerge(m)'
<1>1. ASSUME NEW r, RunInv(r) PROVE RunInv(r)'
  BY <1>1, HistoryIsFixed DEF RunInv
<1>2. ASSUME NEW h \in HeadCommit, GreenHead(h) PROVE GreenHead(h)'
  <2>1. PICK b \in 1 .. Len(main) : h.base <= b /\ Harmless(b, h)
    BY <1>2 DEF GreenHead
  <2>2. Pair(b, h)
    BY <2>1 DEF Pair
  <2>3. b \in 1 .. Len(main') /\ Harmless(b, h)'
    BY <2>1, <2>2, HistoryIsFixed DEF Pair
  <2> QED BY <2>1, <2>3 DEF GreenHead
<1>3. ASSUME NEW m, GreenMerge(m) PROVE GreenMerge(m)'
  BY <1>3, HistoryIsFixed DEF GreenMerge
<1> QED BY <1>1, <1>2, <1>3

\* What an action leaves alone stays as it was.
LEMMA Frame ==
  ASSUME Inv, Next
  PROVE  /\ UNCHANGED head => HeadsInv'
         /\ UNCHANGED mergeRef => RefsInv'
         /\ UNCHANGED event => EventsInv'
         /\ UNCHANGED run => RunsInv'
         /\ green' \subseteq green => GreenInv'
<1> USE DEF Inv
<1>1. ASSUME UNCHANGED head PROVE HeadsInv'
  <2> SUFFICES ASSUME NEW pr \in PRs, head[pr] # None PROVE Pair(Len(main), head[pr])'
    BY <1>1 DEF HeadsInv
  <2>1. Pair(Len(main), head[pr])
    BY DEF HeadsInv
  <2>2. head[pr] \in HeadCommit /\ head[pr].base \in Nat /\ Len(main) >= 1
    BY <2>1 DEF Pair, HeadCommit
  <2> QED BY <1>1, <2>1, <2>2, HistoryIsFixed DEF Pair
<1>2. ASSUME UNCHANGED mergeRef PROVE RefsInv'
  BY <1>2, HistoryIsFixed DEF RefsInv
<1>3. ASSUME UNCHANGED event PROVE EventsInv'
  BY <1>3, HistoryIsFixed DEF EventsInv
<1>4. ASSUME UNCHANGED run PROVE RunsInv'
  <2> SUFFICES ASSUME NEW pr \in PRs, run[pr] # None PROVE RunInv(run[pr])'
    BY <1>4 DEF RunsInv
  <2>1. RunInv(run[pr])
    BY DEF RunsInv
  <2> QED BY <1>4, <2>1, HistoryIsFixed DEF RunInv
<1>5. ASSUME green' \subseteq green PROVE GreenInv'
  <2> SUFFICES ASSUME NEW sha \in green
               PROVE  /\ sha \in HeadCommit => GreenHead(sha)'
                      /\ sha \in MergeCommit => GreenMerge(sha)'
    BY <1>5 DEF GreenInv
  <2> QED BY FactsLast DEF GreenInv
<1> QED BY <1>1, <1>2, <1>3, <1>4, <1>5

LEMMA RunUpdate ==
  ASSUME Inv, Next, NEW pr \in PRs, NEW r \in Run \cup {None},
         r # None => RunInv(r), run' = [run EXCEPT ![pr] = r]
  PROVE  RunsInv' /\ run' \in [PRs -> Run \cup {None}]
<1>1. run' \in [PRs -> Run \cup {None}]
  BY DEF Inv, TypeOK
<1>2. ASSUME NEW p \in PRs, run'[p] # None PROVE RunInv(run[p])'
  <2>0. TypeOK
    BY DEF Inv
  <2>1. CASE p = pr
    <3>1. run'[p] = r /\ RunInv(r)
      BY <1>2, <2>0, <2>1 DEF TypeOK
    <3>2. RunInv(r)'
      BY <2>0, <3>1, FactsLast
    <3> QED BY <3>1, <3>2 DEF RunInv, Pair
  <2>2. CASE p # pr
    <3>1. run'[p] = run[p] /\ RunInv(run[p])
      BY <1>2, <2>0, <2>2 DEF TypeOK, Inv, RunsInv
    <3>2. PICK q : q = run[p]
      OBVIOUS
    <3>3. RunInv(q)'
      BY <2>0, <3>1, <3>2, FactsLast
    <3> QED BY <3>1, <3>2, <3>3 DEF RunInv, Pair
  <2> QED BY <2>1, <2>2
<1> QED BY <1>1, <1>2 DEF RunsInv
-----------------------------------------------------------------------------

\* An event of a pull request with the head h.
LEMMA EmitInv ==
  ASSUME Inv, Next, NEW pr \in PRs, NEW h, Pair(Len(main), h), Emit(pr, h)
  PROVE  EventsInv' /\ event' \in [PRs -> MergeCommit \cup {None}] /\ events' \in Nat
<1> DEFINE e == [onto |-> Len(main), head |-> h]
<1>1. e \in MergeCommit /\ Pair(e.onto, e.head)
  BY DEF Pair, MergeCommit
<1>2. event' = [event EXCEPT ![pr] = e] /\ events' = events + 1
  BY DEF Emit
<1> HIDE DEF e
<1>3. event' \in [PRs -> MergeCommit \cup {None}] /\ events' \in Nat
  BY <1>1, <1>2 DEF Inv, TypeOK
<1>4. ASSUME NEW p \in PRs, event'[p] # None PROVE Pair(event[p].onto, event[p].head)'
  <2>1. Pair(event'[p].onto, event'[p].head)
    BY <1>1, <1>2, <1>4 DEF Inv, TypeOK, EventsInv
  <2>2. Len(main') >= Len(main) /\ Len(main) \in Nat /\ Len(main') \in Nat
    BY HistoryIsFixed DEF Inv
  <2> QED BY <2>1, <2>2 DEF Pair
<1> QED BY <1>3, <1>4 DEF EventsInv

LEMMA PushInv ==
  ASSUME Inv, NEW pr \in PRs, Push(pr)
  PROVE  Inv'
<1>0. Next
  BY DEF Next
<1>1. PICK tree \in Pushed, base \in 1 .. Len(main) :
         /\ head' = [head EXCEPT ![pr] = [pr |-> pr, tree |-> tree, base |-> base]]
         /\ Emit(pr, [pr |-> pr, tree |-> tree, base |-> base])
  BY DEF Push
<1> DEFINE h == [pr |-> pr, tree |-> tree, base |-> base]
<1>2. Len(main) \in Nat /\ Pair(Len(main), h) /\ h \in HeadCommit
  BY PrGateAssumption DEF Inv, TypeOK, Pair, HeadCommit
<1>3. head' = [head EXCEPT ![pr] = h] /\ Emit(pr, h)
  BY <1>1
<1>4. UNCHANGED <<main, merged, mergeRef, run, green, inProgress, orphans>>
  BY DEF Push, checkVars
<1> HIDE DEF h
<1>5. EventsInv' /\ event' \in [PRs -> MergeCommit \cup {None}] /\ events' \in Nat
  BY <1>0, <1>2, <1>3, EmitInv
<1>6. RefsInv' /\ RunsInv' /\ GreenInv'
  BY <1>0, <1>4, Frame
<1>7. HeadsInv'
  BY <1>2, <1>3, <1>4 DEF Inv, TypeOK, HeadsInv, Pair
<1>8. TypeOK'
  <2>1. head' \in [PRs -> HeadCommit \cup {None}]
    BY <1>2, <1>3 DEF Inv, TypeOK
  <2> QED BY <1>4, <1>5, <2>1 DEF Inv, TypeOK
<1> QED BY <1>5, <1>6, <1>7, <1>8 DEF Inv

LEMMA RetriggerInv ==
  ASSUME Inv, NEW pr \in PRs, Retrigger(pr)
  PROVE  Inv'
<1>0. Next
  BY DEF Next
<1>1. Pair(Len(main), head[pr]) /\ Emit(pr, head[pr])
  BY DEF Retrigger, Inv, HeadsInv
<1>2. UNCHANGED <<main, head, merged, mergeRef, run, green, inProgress, orphans>>
  BY DEF Retrigger, repoVars, checkVars
<1>3. PICK h : h = head[pr]
  OBVIOUS
<1>4. EventsInv' /\ event' \in [PRs -> MergeCommit \cup {None}] /\ events' \in Nat
  BY <1>0, <1>1, <1>3, EmitInv
<1>5. HeadsInv' /\ RefsInv' /\ RunsInv' /\ GreenInv'
  BY <1>0, <1>2, Frame
<1>6. TypeOK'
  BY <1>2, <1>4 DEF Inv, TypeOK
<1> QED BY <1>4, <1>5, <1>6 DEF Inv

LEMMA RefreshMergeRefInv ==
  ASSUME Inv, NEW pr \in PRs, RefreshMergeRef(pr)
  PROVE  Inv'
<1>0. Next
  BY DEF Next
<1>1. Pair(Len(main), head[pr]) /\ ~Conflict(Len(main), head[pr])
  BY DEF RefreshMergeRef, Inv, HeadsInv
<1> DEFINE m == [onto |-> Len(main), head |-> head[pr]]
<1>2. m \in MergeCommit /\ Pair(m.onto, m.head) /\ ~Conflict(m.onto, m.head)
  BY <1>1 DEF Pair, MergeCommit
<1>3. mergeRef' = [mergeRef EXCEPT ![pr] = m]
  BY DEF RefreshMergeRef
<1>4. UNCHANGED <<main, head, merged, event, events, run, green, inProgress, orphans>>
  BY DEF RefreshMergeRef, eventVars, checkVars
<1> HIDE DEF m
<1>5. HeadsInv' /\ EventsInv' /\ RunsInv' /\ GreenInv'
  BY <1>0, <1>4, Frame
<1>6. mergeRef' \in [PRs -> MergeCommit \cup {None}]
  BY <1>2, <1>3 DEF Inv, TypeOK
<1>7. RefsInv'
  BY <1>2, <1>3, <1>4 DEF Inv, TypeOK, RefsInv, Pair, Conflict
<1>8. TypeOK'
  BY <1>4, <1>6 DEF Inv, TypeOK
<1> QED BY <1>5, <1>7, <1>8 DEF Inv

LEMMA MergeInv ==
  ASSUME Inv, NEW pr \in PRs, Merge(pr)
  PROVE  Inv'
<1>0. Next
  BY DEF Next
<1>1. head[pr] \in HeadCommit
  BY CommitsDiffer DEF Inv, Merge, TypeOK
<1>2. UNCHANGED <<head, mergeRef, event, events, run, green, inProgress, orphans>>
  BY DEF Merge, eventVars, checkVars
<1>3. HeadsInv' /\ RefsInv' /\ EventsInv' /\ RunsInv' /\ GreenInv'
  BY <1>0, <1>2, Frame
<1>4. head[pr].tree \in Tree /\ main' = Append(main, head[pr].tree) /\ merged' = merged \cup {pr}
  BY <1>1 DEF Merge, HeadCommit
<1>5. TypeOK'
  BY <1>2, <1>4 DEF Inv, TypeOK
<1> QED BY <1>3, <1>5 DEF Inv
-----------------------------------------------------------------------------

LEMMA StartRunInv ==
  ASSUME Inv, NEW pr \in PRs, StartRun(pr)
  PROVE  Inv'
<1>0. Next
  BY DEF Next
<1>1. event[pr] \in MergeCommit /\ Pair(event[pr].onto, event[pr].head)
  BY DEF StartRun, Inv, TypeOK, EventsInv
<1> DEFINE r == [step |-> "start", base |-> event[pr].onto, head |-> event[pr].head,
                 candidate |-> None, job |-> "success", result |-> "none", ids |-> {}]
<1>2. r \in Run
  BY <1>1 DEF Run, MergeCommit, Steps
<1>3. RunInv(r)
  BY <1>1 DEF RunInv
<1>4. run' = [run EXCEPT ![pr] = r] /\ event' = [event EXCEPT ![pr] = None]
  BY DEF StartRun
<1>5. UNCHANGED <<main, head, merged, mergeRef, events, green, inProgress, orphans>>
  BY DEF StartRun, repoVars, checkVars
<1> HIDE DEF r
<1>6. RunsInv' /\ run' \in [PRs -> Run \cup {None}]
  BY <1>0, <1>2, <1>3, <1>4, RunUpdate
<1>7. HeadsInv' /\ RefsInv' /\ GreenInv'
  BY <1>0, <1>5, Frame
<1>8. EventsInv'
  BY <1>4, <1>5 DEF Inv, TypeOK, EventsInv, Pair
<1>9. TypeOK'
  BY <1>4, <1>5, <1>6 DEF Inv, TypeOK
<1> QED BY <1>6, <1>7, <1>8, <1>9 DEF Inv

\* The steps of a run: the new record of the run and the checks are what matters.
LEMMA RunOnly ==
  ASSUME Inv, Next, NEW pr \in PRs, NEW r \in Run \cup {None},
         r # None => RunInv(r), run' = [run EXCEPT ![pr] = r],
         UNCHANGED <<repoVars, eventVars>>, GreenInv',
         green' \subseteq HeadCommit \cup MergeCommit,
         inProgress' \subseteq HeadCommit \cup MergeCommit,
         orphans' \subseteq HeadCommit \cup MergeCommit
  PROVE  Inv'
<1>1. RunsInv' /\ run' \in [PRs -> Run \cup {None}]
  BY RunUpdate
<1>2. UNCHANGED <<main, head, merged, mergeRef, event, events>>
  BY DEF repoVars, eventVars
<1>3. HeadsInv' /\ RefsInv' /\ EventsInv'
  BY <1>2, Frame
<1>4. TypeOK'
  BY <1>1, <1>2 DEF Inv, TypeOK
<1> QED BY <1>1, <1>3, <1>4 DEF Inv

LEMMA QuietRunOnly ==
  ASSUME Inv, Next, NEW pr \in PRs, NEW r \in Run \cup {None},
         r # None => RunInv(r), run' = [run EXCEPT ![pr] = r],
         UNCHANGED <<repoVars, eventVars, green, inProgress>>,
         orphans' \subseteq HeadCommit \cup MergeCommit
  PROVE  Inv'
<1>1. GreenInv' /\ green' \subseteq HeadCommit \cup MergeCommit
      /\ inProgress' \subseteq HeadCommit \cup MergeCommit
  BY Frame DEF Inv, TypeOK
<1> QED BY <1>1, RunOnly

\* A job that fails or is cancelled goes on to its finishing steps.
LEMMA StoppedRun ==
  ASSUME Inv, NEW pr \in PRs, Active(pr), NEW job \in {"failure", "cancelled"},
         NEW step \in Finishing
  PROVE  LET r == [run[pr] EXCEPT !.job = job, !.step = step]
         IN  r \in Run /\ RunInv(r)
<1>1. run[pr] \in Run /\ RunInv(run[pr])
  BY DEF Inv, TypeOK, RunsInv, Active
<1> DEFINE r == [run[pr] EXCEPT !.job = job, !.step = step]
<1>2. r \in Run
  BY <1>1 DEF Run
<1>3. /\ r.base = run[pr].base /\ r.head = run[pr].head /\ r.candidate = run[pr].candidate
      /\ r.result = run[pr].result /\ r.step \in Finishing
  BY <1>1 DEF Run
<1>4. RunInv(r)
  BY <1>1, <1>3 DEF RunInv, Finishing
<1> QED BY <1>2, <1>4

\* A new check, of a commit that is one, makes nothing green.
LEMMA NewCheckInv ==
  ASSUME Inv, Next, NEW sha \in HeadCommit \cup MergeCommit, NewCheck(sha),
         UNCHANGED <<repoVars, eventVars>>
  PROVE  /\ GreenInv'
         /\ green' \subseteq HeadCommit \cup MergeCommit
         /\ inProgress' \subseteq HeadCommit \cup MergeCommit
<1>1. green' = green \ {sha} /\ inProgress' = inProgress \cup {sha}
  BY DEF NewCheck
<1>2. GreenInv'
  BY <1>1, Frame
<1> QED BY <1>1, <1>2 DEF Inv, TypeOK

LEMMA LeftOpenInv ==
  ASSUME Inv, Next, NEW sha \in HeadCommit \cup MergeCommit, LeftOpen(sha),
         UNCHANGED <<repoVars, eventVars>>
  PROVE  /\ GreenInv'
         /\ green' \subseteq HeadCommit \cup MergeCommit
         /\ inProgress' \subseteq HeadCommit \cup MergeCommit
         /\ orphans' \subseteq HeadCommit \cup MergeCommit
<1>1. NewCheck(sha) /\ orphans' = orphans \cup {sha}
  BY DEF LeftOpen
<1>2. orphans' \subseteq HeadCommit \cup MergeCommit
  BY <1>1 DEF Inv, TypeOK
<1> QED BY <1>1, <1>2, NewCheckInv

LEMMA CancelRunInv ==
  ASSUME Inv, NEW pr \in PRs, CancelRun(pr)
  PROVE  Inv'
<1>0. Next
  BY DEF Next
<1> DEFINE step == IF run[pr].step \in Finishing THEN run[pr].step ELSE "finishMerge"
           r    == [run[pr] EXCEPT !.job = "cancelled", !.step = step]
<1>1. step \in Finishing
  BY DEF Finishing
<1>2. run' = [run EXCEPT ![pr] = r]
  BY DEF CancelRun
<1>3. r \in Run /\ RunInv(r)
  BY <1>1, StoppedRun DEF CancelRun
<1>4. UNCHANGED <<repoVars, eventVars>>
  BY DEF CancelRun
<1>5. CASE UNCHANGED checkVars
  <2>1. UNCHANGED <<green, inProgress, orphans>>
    BY <1>5 DEF checkVars
  <2> QED BY <1>0, <1>2, <1>3, <1>4, <2>1, QuietRunOnly DEF Inv, TypeOK
<1>6. CASE ~UNCHANGED checkVars
  <2>1. PICK sha : /\ LeftOpen(sha)
                   /\ \/ run[pr].step = "start" /\ sha = run[pr].head
                      \/ run[pr].step = "startMerge" /\ sha = run[pr].candidate
    BY <1>6 DEF CancelRun
  <2>2. run[pr] \in Run /\ RunInv(run[pr])
    BY DEF Inv, TypeOK, RunsInv, CancelRun, Active
  <2>3. sha \in HeadCommit \cup MergeCommit
    BY <2>1, <2>2 DEF Run, RunInv
  <2>4. /\ GreenInv'
        /\ green' \subseteq HeadCommit \cup MergeCommit
        /\ inProgress' \subseteq HeadCommit \cup MergeCommit
        /\ orphans' \subseteq HeadCommit \cup MergeCommit
    BY <1>0, <1>4, <2>1, <2>3, LeftOpenInv
  <2> QED BY <1>0, <1>2, <1>3, <1>4, <2>4, RunOnly
<1> QED BY <1>5, <1>6

LEMMA LoseRunnerInv ==
  ASSUME Inv, NEW pr \in PRs, LoseRunner(pr)
  PROVE  Inv'
<1>0. Next
  BY DEF Next
<1>1. /\ run' = [run EXCEPT ![pr] = None] /\ orphans' \subseteq orphans \cup inProgress
      /\ UNCHANGED <<repoVars, eventVars, green, inProgress>>
  BY DEF LoseRunner, Orphan
<1>2. orphans' \subseteq HeadCommit \cup MergeCommit
  BY <1>1 DEF Inv, TypeOK
<1> QED BY <1>0, <1>1, <1>2, QuietRunOnly

LEMMA FailJobInv ==
  ASSUME Inv, NEW pr \in PRs, Active(pr), FailJob(pr)
  PROVE  \E r \in Run : RunInv(r) /\ run' = [run EXCEPT ![pr] = r]
<1> DEFINE r == [run[pr] EXCEPT !.job = "failure", !.step = "finishMerge"]
<1>1. r \in Run /\ RunInv(r)
  BY StoppedRun DEF Finishing
<1>2. run' = [run EXCEPT ![pr] = r]
  BY DEF FailJob
<1> QED BY <1>1, <1>2

LEMMA StepFailsInv ==
  ASSUME Inv, NEW pr \in PRs, StepFails(pr)
  PROVE  Inv'
<1>0. Next
  BY DEF Next, RunStep
<1>1. PICK r \in Run : RunInv(r) /\ run' = [run EXCEPT ![pr] = r]
  BY FailJobInv DEF StepFails
<1>2. UNCHANGED <<repoVars, eventVars, green, inProgress, orphans>>
  BY DEF StepFails, checkVars
<1> QED BY <1>0, <1>1, <1>2, QuietRunOnly DEF Inv, TypeOK
-----------------------------------------------------------------------------

LEMMA OpenCheckInv ==
  ASSUME Inv, Next, NEW pr \in PRs, Active(pr), NEW sha \in HeadCommit \cup MergeCommit,
         NEW id \in {"head", "merge"}, NEW next \in Steps,
         next \in {"startMerge", "scan"} => run[pr].candidate # None,
         OpenCheck(pr, sha, id, next)
  PROVE  Inv'
<1> DEFINE r == [run[pr] EXCEPT !.ids = @ \cup {id}, !.step = next]
<1>0. run[pr] \in Run /\ RunInv(run[pr])
  BY DEF Inv, TypeOK, RunsInv, Active
<1>1. r \in Run
  BY <1>0 DEF Run
<1>2. RunInv(r)
  <2>1. /\ r.base = run[pr].base /\ r.head = run[pr].head /\ r.candidate = run[pr].candidate
        /\ r.result = run[pr].result /\ r.step = next
    BY <1>0 DEF Run
  <2> QED BY <1>0, <2>1 DEF RunInv
<1>3. PICK q \in Run : RunInv(q) /\ run' = [run EXCEPT ![pr] = q]
  <2>1. CASE run' = [run EXCEPT ![pr].ids = @ \cup {id}, ![pr].step = next]
    <3>1. run' = [run EXCEPT ![pr] = r]
      BY <2>1
    <3> QED BY <1>1, <1>2, <3>1
  <2>2. CASE FailJob(pr)
    BY <2>2, FailJobInv
  <2> QED BY <2>1, <2>2 DEF OpenCheck
<1>4. /\ NewCheck(sha) /\ orphans' \subseteq orphans \cup {sha}
      /\ UNCHANGED <<repoVars, eventVars>>
  BY DEF OpenCheck, LeftOpen
<1>5. orphans' \subseteq HeadCommit \cup MergeCommit
  BY <1>4 DEF Inv, TypeOK
<1> QED BY <1>3, <1>4, <1>5, NewCheckInv, RunOnly

LEMMA StartHeadCheckInv ==
  ASSUME Inv, NEW pr \in PRs, StartHeadCheck(pr)
  PROVE  Inv'
<1>0. Next
  BY DEF Next, RunStep
<1>1. run[pr] \in Run
  BY DEF Inv, TypeOK, StartHeadCheck, Active
<1>2. run[pr].head \in HeadCommit
  BY <1>1 DEF Run
<1>3. PICK h : h = run[pr].head
  OBVIOUS
<1> QED BY <1>0, <1>2, <1>3, OpenCheckInv DEF StartHeadCheck, Steps

LEMMA StartMergeCheckInv ==
  ASSUME Inv, NEW pr \in PRs, StartMergeCheck(pr)
  PROVE  Inv'
<1>0. Next
  BY DEF Next, RunStep
<1>1. run[pr] \in Run /\ RunInv(run[pr]) /\ run[pr].step = "startMerge"
  BY DEF Inv, TypeOK, RunsInv, StartMergeCheck, Active
<1>2. run[pr].candidate # None /\ run[pr].candidate \in MergeCommit
  BY <1>1 DEF Run, RunInv
<1>3. PICK m : m = run[pr].candidate
  OBVIOUS
<1> QED BY <1>0, <1>2, <1>3, OpenCheckInv DEF StartMergeCheck, Steps

LEMMA FetchMergeInv ==
  ASSUME Inv, NEW pr \in PRs, FetchMerge(pr)
  PROVE  Inv'
<1>0. Next
  BY DEF Next, RunStep
<1>1. run[pr] \in Run /\ RunInv(run[pr])
  BY DEF Inv, TypeOK, RunsInv, FetchMerge, Active
<1>2. UNCHANGED <<repoVars, eventVars, green, inProgress, orphans>>
  BY DEF FetchMerge, checkVars
<1>3. PICK q \in Run : RunInv(q) /\ run' = [run EXCEPT ![pr] = q]
  <2>1. CASE mergeRef[pr] = [onto |-> run[pr].base, head |-> run[pr].head]
    <3> DEFINE r == [run[pr] EXCEPT !.candidate = mergeRef[pr], !.step = "startMerge"]
    <3>1. mergeRef[pr] \in MergeCommit
      BY <1>1, <2>1 DEF Run, MergeCommit
    <3>2. mergeRef[pr] # None /\ ~Conflict(run[pr].base, run[pr].head)
      BY <2>1, <3>1, CommitsDiffer DEF Inv, RefsInv
    <3>3. r \in Run
      BY <1>1, <3>1 DEF Run, Steps
    <3>4. /\ r.base = run[pr].base /\ r.head = run[pr].head /\ r.candidate = mergeRef[pr]
          /\ r.result = run[pr].result
      BY <1>1 DEF Run
    <3>5. RunInv(r)
      BY <1>1, <2>1, <3>2, <3>4 DEF RunInv
    <3>6. run' = [run EXCEPT ![pr] = r]
      BY <2>1 DEF FetchMerge
    <3> QED BY <3>3, <3>5, <3>6
  <2>2. CASE mergeRef[pr] # [onto |-> run[pr].base, head |-> run[pr].head]
    BY <2>2, FailJobInv DEF FetchMerge
  <2> QED BY <2>1, <2>2
<1> QED BY <1>0, <1>2, <1>3, QuietRunOnly DEF Inv, TypeOK

LEMMA ScanInv ==
  ASSUME Inv, NEW pr \in PRs, Scan(pr)
  PROVE  Inv'
<1>0. Next
  BY DEF Next, RunStep
<1> DEFINE b    == run[pr].base
           h    == run[pr].head
           base == main[b]
           cand == Merged(b, h)
<1>1. run[pr] \in Run /\ RunInv(run[pr]) /\ run[pr].step = "scan"
  BY DEF Inv, TypeOK, RunsInv, Scan, Active
<1>2. /\ run[pr].candidate # None /\ Pair(b, h) /\ ~Conflict(b, h)
      /\ run[pr].candidate.onto = b /\ run[pr].candidate.head = h
  BY <1>1 DEF RunInv
<1>3. base \in Tree /\ cand \in Tree
  BY <1>2, MergedIsATree DEF Inv
<1>4. PICK state \in Results(base, cand) :
         run' = [run EXCEPT ![pr].result = state, ![pr].step = "finishMerge",
                            ![pr].job = IF state = "pass" THEN @ ELSE "failure"]
  BY <1>2, Zenon DEF Scan
<1>a. PICK scans \in [before : Outcomes(base), after : Outcomes(cand)] :
         state = evaluate(base, cand, scans.before, scans.after)
  BY <1>4, Zenon DEF Results
<1>b. scans.before \in Outcomes(base) /\ scans.after \in Outcomes(cand)
  BY <1>a
<1>5. state \in {"pass", "block", "error"} /\ (state = "pass" => Harmless(b, h))
  <2>1. state \in {"pass", "block", "error"}
    BY <1>a DEF evaluate
  <2>2. ASSUME state = "pass" PROVE Flaws(cand) \subseteq Flaws(base)
    BY <1>3, <1>a, <1>b, <2>2, PassAddsNothing
  <2> QED BY <1>2, <2>1, <2>2 DEF Harmless
<1> DEFINE r == [run[pr] EXCEPT !.result = state, !.step = "finishMerge",
                                !.job = IF state = "pass" THEN @ ELSE "failure"]
<1>6. run' = [run EXCEPT ![pr] = r]
  BY <1>4, Zenon
<1>7. r \in Run
  BY <1>1, <1>5 DEF Run, Finishing
<1>8. /\ r.base = b /\ r.head = h /\ r.candidate = run[pr].candidate
      /\ r.result = state /\ r.step = "finishMerge"
  BY <1>1 DEF Run
<1>9. RunInv(r)
  BY <1>1, <1>2, <1>5, <1>8 DEF RunInv
<1>10. UNCHANGED <<repoVars, eventVars, green, inProgress, orphans>>
  BY Zenon DEF Scan, checkVars
<1> QED BY <1>0, <1>6, <1>7, <1>9, <1>10, QuietRunOnly DEF Inv, TypeOK
-----------------------------------------------------------------------------

\* What a conclusion adds to the commits whose check succeeded was earned.
LEMMA ConcludeInv ==
  ASSUME Inv, Next, NEW r \in Run, RunInv(r), NEW sha \in {r.candidate, r.head},
         conclude(r, sha)
  PROVE  /\ GreenInv'
         /\ green' \subseteq HeadCommit \cup MergeCommit
         /\ inProgress' \subseteq HeadCommit \cup MergeCommit
<1>1. inProgress' \subseteq HeadCommit \cup MergeCommit
  BY DEF conclude, Inv, TypeOK
<1>2. CASE ~(r.result = "pass" /\ r.job = "success")
  <2>1. green' \subseteq green
    BY <1>2 DEF conclude
  <2> QED BY <1>1, <2>1, Frame DEF Inv, TypeOK
<1>3. CASE r.result = "pass" /\ r.job = "success"
  <2>1. green' = green \cup {sha}
    BY <1>3 DEF conclude
  <2>2. /\ r.candidate = [onto |-> r.base, head |-> r.head] /\ r.candidate # None
        /\ Pair(r.base, r.head) /\ Harmless(r.base, r.head)
    BY <1>3 DEF RunInv
  <2>3. r.candidate \in MergeCommit /\ r.head \in HeadCommit
    BY <2>2 DEF Run
  <2>4. GreenMerge(r.candidate) /\ GreenHead(r.head)
    BY <2>2 DEF GreenMerge, GreenHead, Pair
  <2>5. sha \in HeadCommit => GreenHead(sha)
    BY <2>3, <2>4, CommitsDiffer
  <2>6. sha \in MergeCommit => GreenMerge(sha)
    BY <2>3, <2>4, CommitsDiffer
  <2>7. ASSUME NEW c \in green'
        PROVE  /\ c \in HeadCommit => GreenHead(c)'
               /\ c \in MergeCommit => GreenMerge(c)'
    <3>1. /\ c \in HeadCommit => GreenHead(c)
          /\ c \in MergeCommit => GreenMerge(c)
      BY <2>1, <2>5, <2>6, <2>7 DEF Inv, GreenInv
    <3> QED BY <3>1, FactsLast DEF Inv
  <2>8. GreenInv'
    BY <2>7 DEF GreenInv
  <2> QED BY <1>1, <2>1, <2>3, <2>8 DEF Inv, TypeOK
<1> QED BY <1>2, <1>3

LEMMA FinishInv ==
  ASSUME Inv, Next, NEW pr \in PRs, Active(pr), NEW id,
         NEW sha \in {run[pr].candidate, run[pr].head},
         NEW q \in Run \cup {None}, q # None => RunInv(q),
         NEW f \in Run \cup {None}, f # None => RunInv(f),
         Finish(pr, sha, id, [run EXCEPT ![pr] = q], [run EXCEPT ![pr] = f]),
         UNCHANGED <<repoVars, eventVars>>
  PROVE  Inv'
<1>1. run[pr] \in Run /\ RunInv(run[pr])
  BY DEF Inv, TypeOK, RunsInv, Active
<1>2. conclude(run[pr], sha) \/ UNCHANGED <<green, inProgress>>
  BY DEF Finish, checkVars
<1>3. /\ GreenInv'
      /\ green' \subseteq HeadCommit \cup MergeCommit
      /\ inProgress' \subseteq HeadCommit \cup MergeCommit
  <2>1. CASE conclude(run[pr], sha)
    BY <1>1, <2>1, ConcludeInv
  <2>2. CASE UNCHANGED <<green, inProgress>>
    BY <2>2, Frame DEF Inv, TypeOK
  <2> QED BY <1>2, <2>1, <2>2
<1>4. orphans' \subseteq HeadCommit \cup MergeCommit
  <2>1. orphans' \subseteq orphans \cup inProgress
    BY DEF Finish, checkVars, Orphan
  <2> QED BY <2>1 DEF Inv, TypeOK
<1>5. run' = [run EXCEPT ![pr] = q] \/ run' = [run EXCEPT ![pr] = f]
  BY DEF Finish
<1> QED BY <1>3, <1>4, <1>5, RunOnly

LEMMA FinishMergeCheckInv ==
  ASSUME Inv, NEW pr \in PRs, FinishMergeCheck(pr)
  PROVE  Inv'
<1>0. Next
  BY DEF Next, RunStep
<1>1. Active(pr) /\ run[pr] \in Run /\ RunInv(run[pr])
  BY DEF Inv, TypeOK, RunsInv, FinishMergeCheck, Active
<1> DEFINE q == [run[pr] EXCEPT !.step = "finishHead"]
           f == [run[pr] EXCEPT !.step = "finishHead", !.job = "failure"]
<1>2. q \in Run /\ f \in Run
  BY <1>1 DEF Run, Finishing
<1>3. /\ q.base = run[pr].base /\ q.head = run[pr].head /\ q.candidate = run[pr].candidate
      /\ q.result = run[pr].result /\ q.step = "finishHead"
      /\ f.base = run[pr].base /\ f.head = run[pr].head /\ f.candidate = run[pr].candidate
      /\ f.result = run[pr].result /\ f.step = "finishHead"
  BY <1>1 DEF Run
<1>4. RunInv(q) /\ RunInv(f)
  BY <1>1, <1>3 DEF RunInv
<1>5. [run EXCEPT ![pr].step = "finishHead"] = [run EXCEPT ![pr] = q]
      /\ [run EXCEPT ![pr].step = "finishHead", ![pr].job = "failure"] = [run EXCEPT ![pr] = f]
  OBVIOUS
<1>6. /\ Finish(pr, run[pr].candidate, "merge", [run EXCEPT ![pr] = q], [run EXCEPT ![pr] = f])
      /\ UNCHANGED <<repoVars, eventVars>>
  BY <1>5 DEF FinishMergeCheck
<1>7. PICK sha \in {run[pr].candidate, run[pr].head} : sha = run[pr].candidate
  OBVIOUS
<1> HIDE DEF q, f
<1> QED BY <1>0, <1>1, <1>2, <1>4, <1>6, <1>7, FinishInv

LEMMA FinishHeadCheckInv ==
  ASSUME Inv, NEW pr \in PRs, FinishHeadCheck(pr)
  PROVE  Inv'
<1>0. Next
  BY DEF Next, RunStep
<1>1. Active(pr)
  BY DEF FinishHeadCheck
<1>2. /\ Finish(pr, run[pr].head, "head", [run EXCEPT ![pr] = None], [run EXCEPT ![pr] = None])
      /\ UNCHANGED <<repoVars, eventVars>>
  BY DEF FinishHeadCheck
<1>3. PICK sha \in {run[pr].candidate, run[pr].head} : sha = run[pr].head
  OBVIOUS
<1> QED BY <1>0, <1>1, <1>2, <1>3, FinishInv
-----------------------------------------------------------------------------

LEMMA Stuttering ==
  ASSUME Inv, UNCHANGED vars
  PROVE  Inv'
<1>1. UNCHANGED <<main, head, merged, mergeRef, event, events, run, green, inProgress, orphans>>
  BY DEF vars, repoVars, eventVars, checkVars
<1>2. TypeOK'
  BY <1>1 DEF Inv, TypeOK
<1>3. HeadsInv' /\ RefsInv' /\ EventsInv'
  BY <1>1 DEF Inv, HeadsInv, RefsInv, EventsInv, Pair, Conflict
<1>4. RunsInv'
  BY <1>1 DEF Inv, RunsInv, RunInv, Pair, Harmless, Conflict, Merged
<1>5. GreenInv'
  BY <1>1 DEF Inv, GreenInv, GreenHead, GreenMerge, Pair, Harmless, Conflict, Merged
<1> QED BY <1>2, <1>3, <1>4, <1>5 DEF Inv

LEMMA InvNext ==
  ASSUME Inv, [Next]_vars
  PROVE  Inv'
<1>1. ASSUME NEW pr \in PRs, RunStep(pr) PROVE Inv'
  BY <1>1, StepFailsInv, StartHeadCheckInv, FetchMergeInv, StartMergeCheckInv, ScanInv,
     FinishMergeCheckInv, FinishHeadCheckInv, Zenon DEF RunStep
<1>2. CASE Next
  BY <1>1, <1>2, PushInv, RetriggerInv, RefreshMergeRefInv, MergeInv, StartRunInv,
     CancelRunInv, LoseRunnerInv, Zenon DEF Next
<1> QED BY <1>2, Stuttering, Zenon

LEMMA InitInv == Init => Inv
<1> SUFFICES ASSUME Init PROVE Inv
  OBVIOUS
<1>1. PICK tree \in Initial : main = <<tree>>
  BY DEF Init
<1>2. main \in Seq(Tree) /\ main # <<>>
  BY <1>1, PrGateAssumption
<1>3. TypeOK
  BY <1>2 DEF Init, TypeOK
<1>4. HeadsInv /\ RefsInv /\ EventsInv /\ RunsInv /\ GreenInv
  BY DEF Init, HeadsInv, RefsInv, EventsInv, RunsInv, GreenInv
<1> QED BY <1>3, <1>4 DEF Inv

\* The inductive invariant holds in every reachable state.
THEOREM InvHolds == Spec => []Inv
<1>1. Init => Inv
  BY InitInv
<1>2. Inv /\ [Next]_vars => Inv'
  BY InvNext
<1> QED BY <1>1, <1>2, PTL DEF Spec

\* Every variable keeps its type.
THEOREM TypeCorrect == Spec => []TypeOK
<1>1. Inv => TypeOK
  BY DEF Inv
<1> QED BY <1>1, InvHolds, PTL

(***************************************************************************)
(* A green check was earned by a scan of that very merge, whatever was     *)
(* pushed, merged, cancelled or lost meanwhile (kuro-pr-gate.yml:54-103).  *)
(***************************************************************************)
THEOREM ChecksAreEarned == Spec => []SuccessIsEarned
<1>1. Inv => SuccessIsEarned
  <2> SUFFICES ASSUME Inv, NEW sha \in green
               PROVE  IF sha \in HeadCommit THEN \E b \in sha.base .. Len(main) : Harmless(b, sha)
                      ELSE Harmless(sha.onto, sha.head)
    BY DEF SuccessIsEarned
  <2>1. CASE sha \in HeadCommit
    <3>1. PICK b \in 1 .. Len(main) : sha.base <= b /\ Harmless(b, sha)
      BY <2>1 DEF Inv, GreenInv, GreenHead
    <3>2. sha.base \in Nat /\ b \in sha.base .. Len(main)
      BY <2>1, <3>1 DEF HeadCommit, Inv, TypeOK
    <3> QED BY <2>1, <3>1, <3>2
  <2>2. CASE sha \notin HeadCommit
    BY <2>2 DEF Inv, TypeOK, GreenInv, GreenMerge
  <2> QED BY <2>1, <2>2
<1> QED BY <1>1, InvHolds, PTL

-----------------------------------------------------------------------------

\* The abstract specification speaks of the same trees and flaws.
LEMMA SameFlaws == Promised!Tree = Tree /\ \A tree : Promised!Flaws(tree) = Flaws(tree)
<1>1. ASSUME NEW tree PROVE Promised!Present(tree) = Present(tree)
  BY DEF Promised!Present, Present, Promised!Finding, Finding
<1>2. ASSUME NEW f PROVE Promised!Reads(f) = Reads(f)
  BY DEF Promised!Reads, Reads
<1> QED BY <1>1, <1>2 DEF Promised!Tree, Tree, Promised!Flaws, Flaws

\* A merge is a step of the protected branch.
LEMMA MergeExtends ==
  ASSUME Inv, NEW pr \in PRs, Merge(pr)
  PROVE  Promised!Extend
<1> DEFINE h == head[pr]
<1>1. h \in HeadCommit /\ h \in green /\ h.base = Len(main) /\ main' = Append(main, h.tree)
  BY CommitsDiffer DEF Inv, Merge, TypeOK
<1>2. PICK b \in 1 .. Len(main) : h.base <= b /\ Harmless(b, h)
  BY <1>1 DEF Inv, GreenInv, GreenHead
<1>3. h.tree \in Tree /\ main \in Seq(Tree) /\ Len(main) \in Nat /\ b = Len(main)
  BY <1>1, <1>2 DEF HeadCommit, Inv, TypeOK
<1>4. Merged(b, h) = h.tree
  <2>1. h.tree = [f \in Files |-> h.tree[f]]
    BY <1>3 DEF Tree
  <2>2. \A f \in Files : (IF h.tree[f] = main[h.base][f] THEN main[b][f] ELSE h.tree[f]) = h.tree[f]
    BY <1>1, <1>3
  <2> QED BY <2>1, <2>2 DEF Merged
<1>5. Flaws(h.tree) \subseteq Flaws(main[Len(main)])
  BY <1>2, <1>3, <1>4 DEF Harmless
<1>6. Len(main') = Len(main) + 1
  BY <1>1, <1>3
<1> QED BY <1>1, <1>3, <1>5, <1>6, SameFlaws DEF Promised!Extend

(***************************************************************************)
(* The gate implements the protected branch: no version of main has a flaw *)
(* that the version before it did not have (docs/CI_GATE.md:9-19).         *)
(***************************************************************************)
THEOREM GateProtectsTheBranch == Spec => ImplementsProtectedBranch
<1>1. Init => Promised!Init
  BY PrGateAssumption, SameFlaws DEF Init, Promised!Init
<1>2. Inv /\ [Next]_vars => [Promised!Extend]_main
  <2> SUFFICES ASSUME Inv, [Next]_vars PROVE [Promised!Extend]_main
    OBVIOUS
  <2>1. CASE Next
    <3>1. PICK pr \in PRs :
             \/ Push(pr) \/ Retrigger(pr) \/ RefreshMergeRef(pr) \/ Merge(pr)
             \/ StartRun(pr) \/ CancelRun(pr) \/ LoseRunner(pr) \/ RunStep(pr)
      BY <2>1, Zenon DEF Next
    <3> QED BY <3>1, MergeExtends, OtherStepsStutter, Zenon
  <2>2. CASE UNCHANGED vars
    BY <2>2 DEF vars, repoVars
  <2> QED BY <2>1, <2>2
<1> QED BY <1>1, <1>2, InvHolds, PTL DEF Spec, ImplementsProtectedBranch, Promised!Spec

\* From one version of the protected branch to any later one.
OnlyCleaner ==
  \A i, j \in DOMAIN main : i <= j => Flaws(main[j]) \subseteq Flaws(main[i])

(***************************************************************************)
(* Whatever happens, and however many pull requests are merged: what is    *)
(* wrong with a version of the branch was wrong, with the same inputs, in  *)
(* each version before it.  A flaw that was removed never comes back, and  *)
(* a branch that starts without flaws never has one (docs/CI_GATE.md:9-19).*)
(***************************************************************************)
THEOREM FlawsOnlyGo == Spec => []OnlyCleaner
<1>1. Init => OnlyCleaner
  BY DEF Init, OnlyCleaner
<1>2. ASSUME OnlyCleaner, main \in Seq(Tree), main # <<>>, [Promised!Extend]_main
      PROVE  OnlyCleaner'
  <2>1. CASE Promised!Extend
    <3>1. PICK tree \in Tree :
            main' = Append(main, tree) /\ Flaws(tree) \subseteq Flaws(main[Len(main)])
      BY <2>1, SameFlaws DEF Promised!Extend
    <3>2. /\ DOMAIN main' = 1 .. Len(main) + 1 /\ DOMAIN main = 1 .. Len(main)
          /\ \A i \in DOMAIN main : main'[i] = main[i]
          /\ main'[Len(main) + 1] = tree /\ Len(main) \in Nat \ {0}
      BY <1>2, <3>1
    <3>3. ASSUME NEW i \in DOMAIN main', NEW j \in DOMAIN main', i <= j
          PROVE  Flaws(main'[j]) \subseteq Flaws(main'[i])
      <4>1. CASE j \in DOMAIN main
        BY <1>2, <3>2, <3>3, <4>1 DEF OnlyCleaner
      <4>2. CASE j = Len(main) + 1 /\ i \in DOMAIN main
        <5>1. Flaws(main[Len(main)]) \subseteq Flaws(main[i])
          BY <1>2, <3>2, <4>2 DEF OnlyCleaner
        <5> QED BY <3>1, <3>2, <4>2, <5>1
      <4>3. CASE j = Len(main) + 1 /\ i = Len(main) + 1
        BY <4>3
      <4> QED BY <3>2, <3>3, <4>1, <4>2, <4>3
    <3> QED BY <3>3, Zenon DEF OnlyCleaner
  <2>2. CASE UNCHANGED main
    BY <1>2, <2>2 DEF OnlyCleaner
  <2> QED BY <1>2, <2>1, <2>2
<1>3. Inv => main \in Seq(Tree) /\ main # <<>>
  BY DEF Inv, TypeOK
<1>4. Spec => [][Promised!Extend]_main
  BY GateProtectsTheBranch, PTL DEF ImplementsProtectedBranch, Promised!Spec
<1> QED BY <1>1, <1>2, <1>3, <1>4, InvHolds, PTL DEF Spec
=============================================================================
