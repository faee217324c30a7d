------------------------------- MODULE PrGate -------------------------------
(***************************************************************************)
(* The pull request gate (.github/workflows/kuro-pr-gate.yml): one run at  *)
(* a time and pull request, which opens a check on the head, verifies that *)
(* GitHub's proposed merge joins the base and the head of its event, opens *)
(* a check on that merge, scans both trees (pr-gate.py) and concludes the  *)
(* checks (publish-check.py).  Meanwhile authors push, other pull requests *)
(* are merged, newer events cancel the run, requests to GitHub fail and    *)
(* runners disappear.                                                      *)
(*                                                                         *)
(* GitHub is external.  It merges a head whose latest check succeeded and  *)
(* that is up to date with the branch (docs/SECURITY_DEBT.md:7).           *)
(***************************************************************************)
EXTENDS PrFindings, Sequences

CONSTANTS
  PRs,          \* pull requests
  Initial,      \* the trees main may start from
  Pushed,       \* the trees that are pushed to the pull requests
  MaxEvents,    \* bound on the events of the pull requests
  MaxVersions   \* bound on the versions of main

ASSUME PrGateAssumption == Initial \cup Pushed \subseteq Tree /\ {MaxEvents, MaxVersions} \subseteq Nat

VARIABLES
  main,        \* the trees of the protected branch, oldest first
  head,        \* the head commit of each pull request
  merged,      \* the pull requests that were merged
  mergeRef,    \* refs/pull/<n>/merge: what GitHub last proposed
  event,       \* the event whose run waits for the concurrency group
  events,      \* how many there were
  run,         \* the run of each pull request
  green,       \* the commits whose latest check succeeded
  inProgress,  \* the commits whose latest check is in progress
  orphans      \* the commits whose latest check no run is going to conclude (history)

repoVars  == <<main, head, merged, mergeRef>>
eventVars == <<event, events>>
checkVars == <<green, inProgress, orphans>>
vars      == <<repoVars, eventVars, run, checkVars>>

\* A head commit, and the version of main its author last merged or started from.
HeadCommit  == [pr : PRs, tree : Tree, base : Nat \ {0}]
\* A proposed merge commit, by its two parents.
MergeCommit == [onto : Nat \ {0}, head : HeadCommit]
None    == [onto |-> 0]

Steps     == {"start", "fetch", "startMerge", "scan"}
Finishing == {"finishMerge", "finishHead"}

\* ids: the checks whose check_id the run knows.
Run == [step : Steps \cup Finishing, base : Nat \ {0}, head : HeadCommit, candidate : MergeCommit \cup {None},
        job : {"success", "failure", "cancelled"}, result : {"none", "pass", "block", "error"},
        ids : SUBSET {"head", "merge"}]

Active(pr) == run[pr] # None

TypeOK ==
  /\ main \in Seq(Tree) /\ main # <<>>
  /\ head \in [PRs -> HeadCommit \cup {None}]
  /\ merged \subseteq PRs
  /\ mergeRef \in [PRs -> MergeCommit \cup {None}]
  /\ event \in [PRs -> MergeCommit \cup {None}]
  /\ events \in Nat
  /\ run \in [PRs -> Run \cup {None}]
  /\ green \subseteq HeadCommit \cup MergeCommit
  /\ inProgress \subseteq HeadCommit \cup MergeCommit
  /\ orphans \subseteq HeadCommit \cup MergeCommit

Init ==
  /\ \E tree \in Initial : main = <<tree>>
  /\ head = [pr \in PRs |-> None]
  /\ merged = {}
  /\ mergeRef = [pr \in PRs |-> None]
  /\ event = [pr \in PRs |-> None]
  /\ events = 0
  /\ run = [pr \in PRs |-> None]
  /\ green = {}
  /\ inProgress = {}
  /\ orphans = {}

-----------------------------------------------------------------------------

\* The three-way merge of a head into a version of main.
Conflict(b, h) ==
  \E f \in Files : /\ h.tree[f] # main[h.base][f]
                   /\ main[b][f] # main[h.base][f]
                   /\ h.tree[f] # main[b][f]

Merged(b, h) ==
  [f \in Files |-> IF h.tree[f] = main[h.base][f] THEN main[b][f] ELSE h.tree[f]]

\* The event carries the base and the head of its moment; a run that waits for
\* an older one is replaced.
Emit(pr, h) ==
  /\ events < MaxEvents
  /\ events' = events + 1
  /\ event' = [event EXCEPT ![pr] = [onto |-> Len(main), head |-> h]]

\* opened, synchronize: the author's commit starts from some version of main.
Push(pr) ==
  /\ pr \notin merged
  /\ \E tree \in Pushed, base \in 1 .. Len(main) :
       LET h == [pr |-> pr, tree |-> tree, base |-> base]
       IN  head' = [head EXCEPT ![pr] = h] /\ Emit(pr, h)
  /\ UNCHANGED <<main, merged, mergeRef, run, checkVars>>

\* reopened, ready_for_review: the same head again.
Retrigger(pr) ==
  /\ pr \notin merged
  /\ head[pr] # None
  /\ Emit(pr, head[pr])
  /\ UNCHANGED <<repoVars, run, checkVars>>

\* GitHub works out the proposed merge some time after the head or main moved.
RefreshMergeRef(pr) ==
  /\ head[pr] # None
  /\ ~Conflict(Len(main), head[pr])
  /\ mergeRef' = [mergeRef EXCEPT ![pr] = [onto |-> Len(main), head |-> head[pr]]]
  /\ UNCHANGED <<main, head, merged, eventVars, run, checkVars>>

\* The pull request is merged: its head holds all of main.
Merge(pr) ==
  /\ head[pr] \in green
  /\ pr \notin merged
  /\ head[pr].base = Len(main)
  /\ Len(main) < MaxVersions
  /\ main' = Append(main, head[pr].tree)
  /\ merged' = merged \cup {pr}
  /\ UNCHANGED <<head, mergeRef, eventVars, run, checkVars>>

-----------------------------------------------------------------------------

\* The group is free, and the run that waits begins.
StartRun(pr) ==
  /\ event[pr] # None
  /\ ~Active(pr)
  /\ run' = [run EXCEPT ![pr] =
       [step |-> "start", base |-> event[pr].onto, head |-> event[pr].head, candidate |-> None,
        job |-> "success", result |-> "none", ids |-> {}]]
  /\ event' = [event EXCEPT ![pr] = None]
  /\ UNCHANGED <<repoVars, events, checkVars>>

\* GitHub has a new check of the commit, the latest one.
NewCheck(sha) ==
  /\ green' = green \ {sha}
  /\ inProgress' = inProgress \cup {sha}

\* Nobody goes on to conclude the checks of these commits that are in progress.
Orphan(shas) == orphans' = orphans \cup (shas \cap inProgress)

\* A new check whose check_id gets to nobody.
LeftOpen(sha) == NewCheck(sha) /\ orphans' = orphans \cup {sha}

\* cancel-in-progress, or the 45 minutes: only the steps with always() remain.  It
\* may come when the request for a check is out.
CancelRun(pr) ==
  /\ Active(pr)
  /\ run' = [run EXCEPT ![pr].job = "cancelled",
                        ![pr].step = IF @ \in Finishing THEN @ ELSE "finishMerge"]
  /\ \/ UNCHANGED checkVars
     \/ run[pr].step = "start" /\ LeftOpen(run[pr].head)
     \/ run[pr].step = "startMerge" /\ LeftOpen(run[pr].candidate)
  /\ UNCHANGED <<repoVars, eventVars>>

\* A step fails, and with it the job.
FailJob(pr) == run' = [run EXCEPT ![pr].job = "failure", ![pr].step = "finishMerge"]

StepFails(pr) ==
  /\ Active(pr)
  /\ run[pr].step \in Steps
  /\ FailJob(pr)
  /\ UNCHANGED <<repoVars, eventVars, checkVars>>

\* The runner disappears: nothing more is published.
LoseRunner(pr) ==
  /\ Active(pr)
  /\ run' = [run EXCEPT ![pr] = None]
  /\ Orphan({run[pr].head, run[pr].candidate})
  /\ UNCHANGED <<repoVars, eventVars, green, inProgress>>

\* The POST of publish-check.py.  Its answer, with the check_id, may get lost.
OpenCheck(pr, sha, id, next) ==
  /\ \/ /\ run' = [run EXCEPT ![pr].ids = @ \cup {id}, ![pr].step = next]
        /\ NewCheck(sha) /\ orphans' = orphans \ {sha}
     \/ FailJob(pr) /\ LeftOpen(sha)
  /\ UNCHANGED <<repoVars, eventVars>>

StartHeadCheck(pr) ==
  /\ Active(pr)
  /\ run[pr].step = "start"
  /\ OpenCheck(pr, run[pr].head, "head", "fetch")

\* Mutant: whatever merge is proposed is taken.
FetchAnyMerge(pr) ==
  /\ Active(pr)
  /\ run[pr].step = "fetch"
  /\ mergeRef[pr] # None
  /\ run' = [run EXCEPT ![pr].candidate = mergeRef[pr], ![pr].step = "startMerge"]
  /\ UNCHANGED <<repoVars, eventVars, checkVars>>

\* The proposed merge is fetched; its parents are the base and the head of the
\* event, or the step fails.
FetchMerge(pr) ==
  /\ Active(pr)
  /\ run[pr].step = "fetch"
  /\ IF mergeRef[pr] = [onto |-> run[pr].base, head |-> run[pr].head]
     THEN run' = [run EXCEPT ![pr].candidate = mergeRef[pr], ![pr].step = "startMerge"]
     ELSE FailJob(pr)
  /\ UNCHANGED <<repoVars, eventVars, checkVars>>

StartMergeCheck(pr) ==
  /\ Active(pr)
  /\ run[pr].step = "startMerge"
  /\ OpenCheck(pr, run[pr].candidate, "merge", "scan")

\* pr-gate.py: exit status 1, which fails the job, for all but a pass.
Scan(pr) ==
  /\ Active(pr)
  /\ run[pr].step = "scan"
  /\ \E state \in Results(main[run[pr].base], Merged(run[pr].candidate.onto, run[pr].candidate.head)) :
       run' = [run EXCEPT ![pr].result = state, ![pr].step = "finishMerge",
                          ![pr].job = IF state = "pass" THEN @ ELSE "failure"]
  /\ UNCHANGED <<repoVars, eventVars, checkVars>>

\* Mutant: no conclusion is published for a run that did not get to a result.
concludeResults(r, sha) ==
  /\ inProgress' = IF r.result = "none" THEN inProgress ELSE inProgress \ {sha}
  /\ green' = IF r.result = "pass" /\ r.job = "success" THEN green \cup {sha} ELSE green \ {sha}

\* The PATCH of publish-check.py: success takes a result that passes and a job
\* that has not failed or been cancelled.
conclude(r, sha) ==
  /\ inProgress' = inProgress \ {sha}
  /\ green' = IF r.result = "pass" /\ r.job = "success" THEN green \cup {sha} ELSE green \ {sha}

\* A finishing step runs always(), if the check_id is known; the request or its
\* answer may get lost, which fails the job.
Finish(pr, sha, id, after, failed) ==
  \/ id \notin run[pr].ids /\ run' = after /\ UNCHANGED checkVars
  \/ id \in run[pr].ids /\ run' = after /\ conclude(run[pr], sha) /\ UNCHANGED orphans
  \/ /\ id \in run[pr].ids
     /\ run' = failed
     /\ \/ conclude(run[pr], sha) /\ UNCHANGED orphans
        \/ Orphan({sha}) /\ UNCHANGED <<green, inProgress>>

FinishMergeCheck(pr) ==
  /\ Active(pr)
  /\ run[pr].step = "finishMerge"
  /\ Finish(pr, run[pr].candidate, "merge",
            [run EXCEPT ![pr].step = "finishHead"],
            [run EXCEPT ![pr].step = "finishHead", ![pr].job = "failure"])
  /\ UNCHANGED <<repoVars, eventVars>>

FinishHeadCheck(pr) ==
  /\ Active(pr)
  /\ run[pr].step = "finishHead"
  /\ Finish(pr, run[pr].head, "head", [run EXCEPT ![pr] = None], [run EXCEPT ![pr] = None])
  /\ UNCHANGED <<repoVars, eventVars>>

RunStep(pr) == StepFails(pr) \/ StartHeadCheck(pr) \/ FetchMerge(pr) \/ StartMergeCheck(pr)
                 \/ Scan(pr) \/ FinishMergeCheck(pr) \/ FinishHeadCheck(pr)

Next == \E pr \in PRs : \/ Push(pr) \/ Retrigger(pr) \/ RefreshMergeRef(pr) \/ Merge(pr)
                        \/ StartRun(pr) \/ CancelRun(pr) \/ LoseRunner(pr) \/ RunStep(pr)

\* The runner goes on with the steps of a run; everybody else may do nothing.
Fairness == \A pr \in PRs : WF_vars(RunStep(pr))

Spec == Init /\ [][Next]_vars /\ Fairness

-----------------------------------------------------------------------------

(***************************************************************************)
(* A check that succeeded, on a head or on a proposed merge, was earned:   *)
(* that merge into a version of main brings no flaw that this version does *)
(* not have already.  Scans that failed, suppressions, merges proposed for *)
(* another head or base and cancelled runs never lead there                *)
(* (docs/CI_GATE.md:14-17, kuro-pr-gate.yml, publish-check.py:29).         *)
(***************************************************************************)
Harmless(b, h) == ~Conflict(b, h) /\ Flaws(Merged(b, h)) \subseteq Flaws(main[b])

SuccessIsEarned ==
  \A sha \in green :
    IF sha \in HeadCommit THEN \E b \in sha.base .. Len(main) : Harmless(b, sha)
                    ELSE Harmless(sha.onto, sha.head)

(***************************************************************************)
(* The gate implements the protected branch: no merge adds a flaw, however *)
(* pushes, events, runs and merges of other pull requests interleave       *)
(* (docs/CI_GATE.md:9-19).                                                 *)
(***************************************************************************)
Promised == INSTANCE ProtectedBranch

ImplementsProtectedBranch == Promised!Spec

(***************************************************************************)
(* A check on the current head of a pull request does not stay in          *)
(* progress, also when its run fails or is cancelled.  It does if its run  *)
(* never learned of it or could not say so: a lost answer, a runner that   *)
(* disappeared, or a cancellation just when the check was being opened.    *)
(* The check of a later run on that head comes to a conclusion again       *)
(* (kuro-pr-gate.yml:88-104, docs/CI_GATE.md:42).                          *)
(***************************************************************************)
ChecksConclude ==
  \A pr \in PRs : head[pr] \in inProgress ~> (head[pr] \notin inProgress \ orphans)
=============================================================================
