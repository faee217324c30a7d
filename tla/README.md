# Kuro Core in TLA+

Kuro Core is a security gate in front of `git push`. `kuro scan` runs scanner
containers over a directory and turns their findings into *pass*, *review* or
*block*; the git proxy takes pushes, has the pushed trees scanned and forwards
to the upstream repository what passes. This directory models that core, checks
it with TLC and proves its safety with TLAPS. Paths below are relative to `src/`.

## Inventory

| part | state | operations | what is hard |
|---|---|---|---|
| policy engine (`cli/internal/orchestrator/policy.go`) | a list of rules | validate, match, evaluate | thresholds, PASS rules and floors together; order of findings |
| scanner adapters, parsers (`scanners.go`, `semgrep_run.go`, `container.go`, `parsers.go`) | none | run a container, believe or reject its report | exit statuses, half reports, killed containers |
| fleet (`adapter_local.go`) | semaphore, results channel, one goroutine per scanner, three deadlines | launch, acquire, give up, finish, release, collect, return | interleavings, cancellation, slots, a collector that counts |
| pipeline (`orchestrator.go`, `cli/cmd/scan.go`) | the scan result, the phase, the exit status | six phases, early returns | a failure after a success; result, JSON and exit status agree |
| file cache (`cache.go`) | a map of file hashes on disk | is-changed, mark, save, load | concurrent processes, crash while writing |
| terminal UI (`cli/internal/tui`) | phase list, event channel | event, key, quit | quit condition against a scan that failed |
| remote adapter (`adapter_remote.go`) | a scan id | start, poll, convert | retries, timeouts, reading of the remote verdict |
| scan clients of the proxy (`services/git-proxy/server/local_scan.go`, `config_client.go`) | none | read a report, an exit status, a response | error or verdict |
| rate limiter (`config_client.go`) | request times per client | allow, sweep | windows, sweeps between requests |
| push handler (`handler.go`, `git.go`) and approval cache (`config_client.go`) | temporary directories, cached approvals | unpack, extract, scan, decide, forward | concurrent pushes, stale approvals, several refs, upstream timeouts |
| database updater (`scripts/update-trivy-db.sh`, `trivy_db.go`) | directories, a lock | lock, stage, swap, clean up; check, open | scans in between, crashes |
| fix and suppressions (`cli/cmd/fix.go`) | source files, a suppression file | replace, suppress | atomic writes, concurrent runs |
| pull request gate (`.github/workflows/kuro-pr-gate.yml`, `scripts/ci/pr-gate.py`, `publish-check.py`) | checks on commits, two reports | fetch and verify the proposed merge, scan base and candidate, compare, publish | runs against pushes and merges, cancelled runs, lost answers, moved findings |
| proxy server (`run.go`) | the listener | start, forward reads, shut down | a shutdown shorter than a scan |
| update, canary, attest, doctor, configuration and service commands | files | thin | replacement of the binary |

Interaction: `kuro scan` calls the orchestrator, which calls the adapter's Fetch,
Scope and Run and then the policy engine. The proxy starts `kuro scan --json` as a
process and reads its output and exit status, or posts to a remote API. Each push
is a goroutine; they share the rate limiter and the approval cache.

`PROJECT.json` lists the same parts with the modules that model them, and under
`hazards` what is hard to test, line by line.

## Modules

```
 Policy <- ScannerReports <- ScanFleet <- ScanPipeline -> FailClosedGate (abstract)
   ^                                          |
   |                      ScanClients <-------+
   |                           ^------------- PushGate -> VerifiedPush (abstract)
 PolicyEvolution               ^
 Policy, ScanClients <- RemoteAdapter <- ScanSession -> TuiSession
 RateLimiter -> SlidingWindow (abstract)
 PrFindings <- PrGate -> ProtectedBranch (abstract)
 TrivyDb      Fix
 proofs: PolicyProofs, ScanProofs, PushGateProofs, ScanSessionProofs, PrGateProofs,
         RateLimiterProofs, TrivyDbProofs, FixProofs
```

`A <- B` says that B extends A, `->` is a refinement that is checked. The `MC` modules
hold the constants of the runs.

* **Policy**: rules, globs, matching, floors and `Evaluate` as operators. Letter
  case is abstracted, a glob is the set of trimmed paths that it matches.
  **PolicyEvolution** lets findings and rules arrive one by one, which is how the
  collector and the owners of a policy feed the engine.
* **ScannerReports**: what a container did (exit, shape of its output, items) and
  whether the adapter believes it; the choice of scanners for a target.
* **ScanFleet**: `LocalAdapter.Run`. `pc[t]` is where the goroutine of a tool is,
  `sem` the tokens in the semaphore channel, `results` the channel; the steps are
  the branches of the `select`, the end of the container with the send, the
  deferred release, one iteration of the collector, and its return.
* **ScanPipeline**: `Orchestrator.Run` and the exit of `kuro scan` around the
  fleet. **FailClosedGate** is what it promises.
* **ScanClients**: `printJSON`, the exit status, and the two readers in the proxy.
* **RateLimiter**: `Allow` and `sweep`, one step each because both hold the mutex.
  **SlidingWindow** is a limiter that never forgets.
* **PushGate**: `handleReceivePack` and `cachedKuroClient`: a `pc` per push, the
  scan directory, the cache, and the time at which an object becomes known to be
  bad. `Stop` is the shutdown of the proxy and its next start: handlers are cut off where
  they are, the approvals are gone, and what is at the upstream repository goes on.
  **VerifiedPush** is what all that promises.
* **TuiSession**: `kuro scan` with its terminal UI. `eventsCh` is the channel of
  `reportPhase`, `waiter` and `msg` the command `waitForEvent`, `ctx` the context
  that the scan and the UI share. The orchestrator is reduced to its reports.
* **ScanSession**: the process of a scan with its terminal UI: TuiSession with the phases
  done by an adapter. The remote one is RemoteAdapter request by request; of the local
  one only the outcome is kept, because ScanPipeline has the rest.
* **RemoteAdapter**: the polling loop, with `clock` in units of its five second
  sleep. The server is external: it may lose, delay or refuse any request.
* **TrivyDb**: each command of `update-trivy-db.sh` is a step and `upc` says where a run
  of the script is. A failing command or a signal goes to the cleanup (`Stop`), unless it
  comes before the traps are set (`StopEarly`) or in the cleanup itself, whose rest is
  skipped then (`AbortCleanup`): `set -e` and the traps of the signals are in force there
  too. `Kill` runs no trap anywhere. `lost` and `stale` record that such an end left no
  database or the lock. A scan is `validateTrivyDB` in two steps and the container that
  opens the database later. A database is the time it was made.
* **PrFindings**: trees as functions from files to contents, what a scan of one finds and
  suppresses, the identity of a finding, and the comparison of two reports.
  **PrGate**: the workflow. `event` is the run that waits for the concurrency group of a
  pull request, `run` the one in progress with its step, job result and known check ids,
  `main` the versions of the protected branch, `green` and `inProgress` the latest checks,
  `orphans` those that no run is going to conclude. A newer event cancels the run, also
  while the request that opens a check is out; any request may fail or get no answer, a
  runner may disappear. GitHub merges a head that is green and up to date. **ProtectedBranch** is what
  that adds up to: a version of the branch has no flaw that the one before did not have.
* **Fix**: sessions of `kuro fix` over a shared tree. A read and the rename that
  follows it are two steps. A line is the list of the occurrences of values in it, in the
  order in which the detectors look; each is in quotes of a kind or bare, and recognized
  or not, because the last detector (`fix.go:66`) finds a value by the name before it. Of a
  line only the first recognized one is reported, and what is replaced is the first
  occurrence of its value in the file, recognized or not. Of the imports a file keeps
  three things: whether the module is imported, whether the text that is searched for is
  anywhere in it, and whether an import would be put where it is read. `origin` is the tree
  before the first session. What a scan finds is a set; `TreeWalk` puts it in the order of
  the walk.

## Runs, bounds and what they show

| run | bounds | shows |
|---|---|---|
| `policy_evolution` | 4 policies, 7 rules (at most 3 at once), reports of at most 3 of 6 findings | floors cannot be relaxed; more findings or rules never relax; order is irrelevant |
| `scan_fleet` | 2 slots, all targets, 2 outcomes per tool | slots are counted right, no scanner outlives Run, a run without an error is complete, Run returns |
| `scan_pipeline` | 1 slot, 3 targets, 3 policies, caching on and off, 2 to 4 outcomes per tool | the budget suffices; refinement of the gate; the proxy reads what the process meant; only passes are cached; the scan ends |
| `rate_limiter` | 2 clients, limit 2, window 2, horizon 3, 6 requests, 6 ticks | refinement of the sliding window; the bound for every window, wherever it ends |
| `push_gate` | 2 concurrent pushes of one commit, lifetime 2, scans of up to 1, 3 ticks, three modes, any number of stops | refinement of the verified push; what has been known long enough does not get through |
| `push_refs` | 2 pushes out of 4 ref lists, both kinds of scan, no time, any number of stops | a cached approval covers the push; each push is answered or cut off |
| `scan_session` | both adapters; timeouts scaled to HTTP 2, grace 2, limit 4, budget 9; 3 reports | nothing is lost on the way to the screen; the UI stays to the end; completed and interrupted sessions end; polling stays in the budget; passing takes a finished scan; the remote scan ends by itself as the session assumes |
| `pr_gate` | 2 pull requests, 2 events, 3 versions of the branch, trees of 3 files | a check that succeeds is earned; refinement of the protected branch; checks on a current head come to a conclusion |
| `trivy_db` | 2 updates, 1 scan, 3 ticks, lifetime 2 | the lock serializes; the newest database survives a failure or a signal anywhere; scans never step back; the lock is released unless the script ends before it can |
| `fix` | 2 sessions, all flags, 4 trees of 2 files, 2 reports | alone, success takes away an occurrence for each finding and suppressions are kept; together, no reference without its import in a file that does not mislead the code |
| `push_old_ref` | 1 push | a disagreement, see below |
| `remote_failed` | the remote adapter with the timeouts of the code, in units of 5 seconds | a disagreement, see below |

The bounds are chosen so that every branch is taken. Three rules and findings reach a
threshold of two from both sides and leave room for one more. Four tools on two slots
is the largest set Scope returns on the default concurrency, so goroutines queue, run,
release and give up at once; one slot is the worst case for the deadlines. Six ticks
let a request leave the window and then the horizon of a sweep. Three ticks let an
approval be stored, age to the last tick of its life and expire, with a scan that
started a tick before its answer. Two pushes are enough for one to use, replace or miss
the approval of the other. The timeouts of `scan_session` keep the order of the real
ones (6, 6, 360 and 420 units of five seconds) and the tightness of their sum: two
requests, the limit and one sleep make nine. In `pr_gate` two events are the least that
let a run be cancelled or meet a branch that moved, and three versions of the branch let
both pull requests be merged. In `trivy_db` three ticks let a database be published,
installed, age and expire, and two updates are enough for one to meet the lock, the
leftovers or the database of the other. The trees of `Fix` have a value twice, in both
kinds of quotes, bare, beside another one, beside itself, in a place where it is not
recognized and in a file that is not rewritten; and files that import the module, lack it,
only mention it, or have no place where an import would be read. `MaxNow`, `MaxCalls`,
`MaxFindings` and `MaxRules` bound counters only; deadlock is not checked because these
systems come to rest at their bounds or when the scan, the session or the pushes are
over.

Type correctness of every module with state is proved. Where a run leaves `TypeOK` out,
it spends its time on other properties.

Each property of a passing run has a mutant in `PROJECT.json`: an operator beside
the definition (marked "Mutant") that changes it as a bug would, with which TLC
finds the property violated.

## Fairness

* ScanFleet and ScanPipeline: weak fairness of each goroutine's steps, of the
  collector, of the phases and of time. A container is only assumed to end once its
  context is over: `exec.CommandContext` kills it then. Nothing is assumed of
  cancellation. Time is in units of five minutes, and does not pass while a
  goroutine could take a free slot or a killed process could be reaped.
* PushGate: weak fairness of each handler goroutine, its scan and its request
  upstream included, because both carry timeouts (30 minutes or 180 seconds, and 30
  seconds). Pushes need not come, the upstream repository owes no answer, and the proxy
  need not stop.
* TuiSession: weak fairness of the goroutine of the scan, which ends by itself
  (`scan_pipeline`), and of the UI's event loop and command. No key is owed.
* ScanSession: weak fairness of the goroutine of the scan, whose requests time out, and
  of the program around it. The server owes no progress. `ImplementsTuiSession` shows
  that this gives the fairness TuiSession assumes.
* PrGate: weak fairness of the steps of a run that was started. Nobody has to push, merge
  or rerun. A check is excused that no run can conclude any more (`orphans`): its answer
  was lost, its runner disappeared, or its run was cancelled while it was being opened.
* TrivyDb: weak fairness of the commands on files of a script that runs. Pull and download
  (`update-trivy-db.sh:27-31`) have no timeout and are owed nothing: one that hangs holds
  the lock, and `LockIsReleased` speaks of what comes after them. Nobody has to start a
  script or to remove a stale lock. Fix has no liveness property and no fairness: its
  sessions are straight lines that wait for a key.

## What is proved

Each theorem holds for every value of the constants that satisfies the named ASSUMEs of
its module. `PROJECT.json` lists them with the properties of the runs they state.

**PolicyProofs** (inputs have their types): the floors hold (`FloorsAlwaysHold`), neither
a finding nor a rule that is added relaxes a decision (`LaterFindingsNeverRelax`,
`LaterRulesNeverRelax`), and a rearranged report is decided alike (`DecisionIsOrderless`).
What a rule matches is a finite set of positions. It only grows with the report, so a
rule that fires goes on firing; and a rearrangement is a bijection of positions, so each
rule counts as many in both reports. Blocking and review are
disjunctions of such facts. An invalid policy is decided *block*, which is why adding
rules needs a valid one.

**ScanProofs** (at least one slot; outcomes, targets and policies have their types; the
set of tools is the concrete one). The laws of the policy engine are those of
PolicyProofs, instantiated for one report; `SameEngine` says that both speak of one engine.

* The fleet. The semaphore counts exactly the goroutines that hold a slot
  (`ConcurrencyBounded`), and no scanner is running or queued when `Run` returns
  (`RunOutlivesScanners`). `Run` counts results and does not wait for goroutines, so the
  second rests on `EachSentOnce`: each goroutine past its send has exactly one result, in
  the channel or with the collector. `NoGoroutineIsStuck` is the safety below "Run
  returns": there is always a result to receive or a goroutine that waits for nobody
  (a full semaphore has a holder), and the channel has room for each result that is yet
  to be sent. The model lets a goroutine send at any time; this is why it may.
* What was collected. `Collected` says that the findings collected so far are those of
  the scanners received without an error, each exactly once: there is a bijection between
  the positions in `allFindings` and the positions in their reports (`Lists`). It is
  stated without recursion, and a receive extends it. `CleanRunsAreComplete` is about
  order: the report of a scanner is appended at once, and the scanners of one scope
  report under different names (`OneSourceEach`), so what is under its name is its report,
  whole and in one piece (`InPieces`). What is appended later does not move it.
* The pipeline. `Phased` ties the phase to the fleet and the error, `VerdictInv` the
  decision to the findings. From these follow `PipelineTyped`, `ProxyAgrees` and
  `CachedTreesPassed`. `FleetKeepsItsWord` carries the theorems of the fleet over, although
  in the pipeline Ctrl-C comes at other times too. `ExitStatusIsHonest` goes from the
  item in the output of a container, through adapter, collector and policy, to the exit
  status: 0 or 2 takes that every scanner of the scope was believed and listed no secret
  and nothing CRITICAL, 0 that it listed nothing HIGH.
* The refinement `ScanFailsClosed`. The gate concatenates the reports of the scope in a
  fixed order; two lists of the same reports are rearrangements of each other, and by
  `DecisionIgnoresOrder` the policy decides both alike.
* The deadlines, `BudgetHolds`. `BudgetSuffices` says nothing of the past, so the
  invariant `Timed` does: `Spent` is the sum of the timeouts of the scanners that are
  done, a container was started no later than `Spent`, and while a scanner waits beside a
  free slot no more than `Spent` has passed. The scanners of a scan are of one kind, and
  all of a kind take at most 6 of the 7 units. So one that waits never sees the deadline.

**PushGateProofs** (lifetimes are positive; null values are no requests and no evidence):
any number of pushes, objects, refs and stops. `StaleApprovalsAreBounded` needs that what
is cached or carried was pure when its scan began, no older than a scan when stored, and
a lifetime when used (`Dated`, `CachePure`, `VouchersPure`). `VouchersCoverThePush` says
which objects of a push were read by the scan that vouches for it, its own or a cached one
(`ReadFor`, kept by `AllRead`): those that could be exported, whose archive succeeded and
whose directory no later ref took, and no others. The two ways in which the code misses an
object without a word, a failing archive (`git.go:126`) and a shared directory
(`git.go:150`), are thereby the only ones, and where neither happened all were read, which
is `EvidenceCoversPush`. `WhatIsForwardedIsSound` adds that a push that went
upstream was approved, is never answered with a refusal, and carries only commits if it
carries several refs, which is the part of `git.go:162` that holds (`push_old_ref` shows
the part that does not). `PushGateTyped` is type correctness. `PushesAreVerified` maps every step of a handler, of the
upstream repository and of the proxy to a step of VerifiedPush or to none.

**ScanSessionProofs** (a request, either limit, a sleep and a request fit the budget; the
policy is valid): `ProcessIsASession` shows that each step of the process is a step of
TuiSession or leaves it alone. `ReportsAreNotLost` and `ScreenIsLeftComplete` follow from
`SessionInv`: reports come in pairs of a beginning and an end, so twelve at most and the
channel never fills; what the log shows is the state of the phases. From `RemoteInv`
follow `RemoteScanFitsTheBudget` (`Timing`: the clock is within what the state of the
loop allows) and `ZeroTakesAFinishedScan` (`Grounds`, `Settled`). `SessionTypeCorrect`
adds `Verdicts`, the types of what neither of these speaks of: verdict and exit status.

**PrGateProofs** (trees, files and lock files are what they are called): `ChecksAreEarned`
and `GateProtectsTheBranch`. The invariant says of every event, run and proposed merge
that its base is a version of the branch that exists and its head one that was pushed; of
a run past its scan that its result is the comparison of its two trees; and of a green
commit that it was earned (`GreenInv`). A merge of an up-to-date head then yields the
tree that was scanned. `FlawsOnlyGo` draws the conclusion over the whole history: what is
wrong with a version was wrong with each one before it, so a flaw that was removed does
not come back, and a branch that starts clean stays clean.

**RateLimiterProofs** (the limit is positive, the sweep's horizon not shorter than the
window, as in `config_client.go`): `EveryWindowBounded` and `Refinement`. `WindowBound`
alone is not inductive: what `Allow` counts is the map, and the map forgets. The invariant
adds `RecordFaithful` (the map may have forgotten a request, but none that a window ending
now or later still counts) and `GrantedInPast`.

**TrivyDbProofs** (ages and bounds are numbers): `OneWriter`, `NoUpdateLosesTheDatabase`
and `ChecksOutliveUpdates`, from `IInv`: where an update is in the swap says which of the
two directories holds the newest database (`BackupWhileSwapping`, `InPlace`), a database
that is moved away during a cleanup belongs to an update that was stopped
(`MovedByStopped`), so that the first stop is never the loss, and what is
installed, staged or kept as a backup is never newer than what the registry serves, nor
the database in place newer than the one that replaces it (`ChecksAreOld`).
`TrivyDbTyped` is type correctness.

**FixProofs** (the references of the initial trees resolve, reports are lists of positions,
no secret is empty): any number of sessions, files and secrets.

* `SuccessMeansFixed`. A fix replaces the first occurrence of a value and not the one
  that was found, so the finding ahead of a session need not be about a line that still
  holds its secret. The invariant counts (`Covered`): of each value, no more occurrences
  are left in a file than it had unreported ones at first and findings about it are ahead.
  A walk lists each line once; a fix takes one occurrence and one finding; a fix that finds
  nothing to replace counts as a failure. `SuccessMeansNoSecret` draws the conclusion for
  files in which each occurrence is recognized and on a line of its own: none is left.
  For other files the code does not give that, see the disagreements.
* `NoDanglingReference` also speaks of the copies that sessions hold in memory
  (`Sound`, `FilesResolve`): each was made from a file whose references resolved. It
  leaves out the files that misled the code from the start (`Misleads`).
* `SuppressionsSurvive` rests on `ManifestInv`: a manifest about to be written was read
  from one that parsed, and contains it if the session is alone.
* `FixTypeCorrect` is type correctness.

Only model-checked: liveness (`RunReturns`, `ScanEndsEventually`, `PushesAreAnswered`,
`SessionEnds`, `ChecksConclude`, `LockIsReleased`, and the fairness that
`ImplementsTuiSession` includes; its steps are `ProcessIsASession`), since the provers do
not reason about fairness. Every invariant, action property and other refinement that a
passing run checks is a theorem.

## Disagreements found while modelling

Two have a run, which fails as long as they last:

* `push_old_ref`: `git.go:162` says that an object that is missing is a hard error.
  With a single ref nothing checks that: the archive fails silently, an empty
  directory is scanned, and the push is forwarded. A branch created at an older
  commit, which the depth-1 fetch does not bring, gets there.
* `remote_failed`: `README.md:39` excludes silent passes on scanner failure. A remote
  scan with status `failed` and no findings listed is decided *pass*.

The others were met in the same way, with a property added to the run of the module,
and are written down here only:

* PushGate: `.env.example:92` calls `PROXY_FAIL_MODE=open` a pass-through. The caching
  client returns *not blocked* together with the error, and the handler refuses on
  every error (`handler.go:184`). The mode changes a log line.
* PushGate: `git.go:161` gives each ref a folder of its own. Names that differ only in
  replaced characters share one (`apart` in the model).
* TuiSession: `model.go:114` means to quit when the channel is closed. The command then
  returns nil, which Bubble Tea's event loop does not hand to `Update`; after a failed
  scan `RunScan` waits for Ctrl-C.
* RemoteAdapter: `model.go:72` says that Ctrl-C cancels the scan. The polling loop does
  not look at its context.
* TrivyDb: `update-trivy-db.sh:15` says that a failed update keeps the old database. A
  kill between the two renames leaves none until an update installs one. So does a failure
  of the second rename or a signal after the first, if another signal arrives, or the `mv`
  of the cleanup fails, before the backup is back: the traps stay set during the cleanup
  (line 26), and `set -e` ends it. With one failure or one signal it holds
  (`NewestIsInPlace`).
* TrivyDb: line 17 takes a lock that is left behind for the sign of a crash. A failing
  `mktemp` or a signal before the traps (lines 17-25), or one inside the cleanup, leaves it
  as well, and later updates are refused until somebody removes it (`stale`).
* PrGate: `docs/CI_GATE.md:42` says that canceled runs may leave an in-progress check. They
  do only if they are cancelled while the check is being opened, before the run knows its
  number (`LeftOpen`); after that the finishing steps run `always()` and conclude it
  (`ChecksConclude`). The document is wider than the workflow, not contradicted by it.
* Fix: `README.md:43`, `docs/ARCHITECTURE.md:55` and `fix.go:205` limit replacements to
  recognized secrets. When a value stands earlier in the file where the detector does not
  recognize it (`fix.go:66`), that occurrence is replaced (`fix.go:241-246`), the
  recognized one stays, and the session still ends with status 0. A second value on a line
  is not reported (`fix.go:448-463`) and stays too. A second session finds what the first
  one left, if the detector recognizes it.
* Fix: the import is left out when the text `"os"` or `import os` is anywhere in the file
  (`fix.go:224,229`): in a literal, a comment, or `import osmnx`. A Go file whose clause
  `package` does not begin a line, or whose first `import (` is inside a comment or a
  literal, gets none that is read (`fix.go:428-446`). The reference does not resolve then
  (`Misleads`).
* Fix: quitting returns 0 after a failed fix, where `fix.go:207` promises 1; with
  `--dry-run`, suppressing writes the manifest, where `fix.go:200` promises that nothing
  is written; and overlapping sessions undo each other's fixes and suppressions and
  still report success.

## Not modelled

Rendering, wording and logging. The Git object format: unpacking and archiving are
outcomes. The rate limiter is one outcome of the handler, and its own module; a restart
of the proxy empties it, which its documents do not exclude. The container engine: a slot
stands for the client process that the adapter starts, and killing that is taken to end
the container. Reading the body of a push has no timeout of its own and is taken as done; so is the
export of its objects, `git archive` into `tar` (`git.go:105-127`), which unlike the other
commands has none either, and on which `PushesAreAnswered` rests. That an archive of a
commit fails without a word is in the model (`Extract`), and no property says that it is
noticed: it is not. `push_old_ref` is about objects that are missing.
The registry of the vulnerability database is assumed never to go back to an older one.
A stale lock of the updater is taken to be removed only while no update runs, as its
message asks (`update-trivy-db.sh:17`). In `Fix`, no value is a part of another one, and
lines that an import adds are not counted. In `PrGate`, GitHub, git's merge and the
scanners are external; a merge is three-way by file. Of the scanners PrFindings assumes
which files a finding and its suppression may depend on; configuration that a scanner takes
from the candidate itself, such as a `.checkov.yaml`, is outside that assumption.

Parts without a module, and why:

* The file cache (`cache.go`) counts files for one line of statistics and decides nothing;
  overlapping scans overwrite it, the last writer wins, and no document says otherwise.
  When a scan commits it is part of ScanPipeline.
* Self update (`update.go`) is one sequence of file operations. When the rename fails it
  falls back to `cp`, which truncates the binary in place; nothing promises that an
  interrupted update leaves a working one, so there is no property to check.
* Canary tokens (`canary.go`): one command at a time over a manifest that no other part
  reads.
* The attestation viewer (`attest.go`) verifies and prints in one pass: a function of its
  inputs whose cryptography is a library.
* Doctor, configuration, login, licence, webhook and service commands: wrappers around
  files, environment and HTTP calls, without state that outlives a call.

ScanPipeline and ScanSession are two views of `kuro scan`, without and with a terminal.
They share the adapters' outcomes and `ExitCode`, not their state: their product would
multiply the interleavings of the fleet with those of the UI, which meet only in the
reports and in the context.
