------------------------------ MODULE PushGate ------------------------------
(***************************************************************************)
(* The push handler of the git proxy (services/git-proxy/server): one      *)
(* goroutine per push takes the objects apart, extracts every pushed ref   *)
(* into a directory, has the directory scanned - through the approval      *)
(* cache when the scanner is the remote API - and forwards the body of the *)
(* push to the upstream repository or refuses it.                          *)
(*                                                                         *)
(* The content of an object is the object: a tree is the set of objects    *)
(* whose files are in the scan directory.  What the scanners know to be    *)
(* wrong grows while the proxy runs.  The state of a goroutine that has    *)
(* answered is gone; what vouched for a push is kept, as history, for the  *)
(* pushes that went upstream.                                              *)
(***************************************************************************)
EXTENDS ScanClients, Sequences

CONSTANTS
  PushIds,     \* requests; a retry is a request of its own
  Repos,
  Objects,
  KindOf,      \* [Objects -> Kinds]: what the object database says of an object
  RefLists,    \* the ref commands a push may carry, as sequences
  TTL,         \* one hour: how long an approval is cached
  ScanMax,     \* how long a scan may take: 30 minutes, or 180 seconds remotely
  MaxNow,      \* bound on the clock
  Modes,       \* the values of SCAN_MODE and PROXY_FAIL_MODE to consider
  NoRequest, NoEvidence

Kinds == {"commit", "tag", "tree", "blob", "missing"}
Zero  == "zero"    \* the object name of a deletion
Never == MaxNow + TTL + ScanMax + 1

ASSUME PushGateAssumption ==
  /\ KindOf \in [Objects -> Kinds]
  /\ Zero \notin Objects
  /\ \A cmds \in RefLists : \A i \in DOMAIN cmds : cmds[i].sha \in Objects \cup {Zero}
  /\ Modes \subseteq [scan : {"local", "api"}, fail : {"closed", "open"}]
  /\ TTL \in Nat \ {0} /\ ScanMax \in Nat \ {0} /\ MaxNow \in Nat

VARIABLES
  mode,       \* [scan, fail]: SCAN_MODE and PROXY_FAIL_MODE
  now,        \* the clock
  since,      \* when the scanners came to know that an object is bad, or Never
  cache,      \* cachedKuroClient.cache: approvals by repository and objects
  pc,         \* where the goroutine of each push is
  request,    \* [repo, cmds], NoRequest before it arrives
  scanDir,    \* what was extracted for each push
  began,      \* when the push asked for its verdict
  evidence,   \* what the scan that answered for the push saw, and when it began
  reply,      \* what Kuro.Scan returned
  upstream,   \* what happened to the request at the upstream repository
  answer      \* the status of the response: "refused" for 400, 429 and 500,
              \* "lost" when the connection broke instead

modelVars == <<mode, now, since>>
pushVars  == <<request, scanDir, began, evidence, reply, upstream, answer>>
vars      == <<modelVars, cache, pc, pushVars>>

Refusals == {"refused", "403"}
Answers  == {"none", "relayed", "502", "lost"} \cup Refusals

-----------------------------------------------------------------------------

\* sanitizeRefDir; a ref name is the sequence of its characters.
Plain == {"a", "b", "f", "r", "e", ".", "-", "_"}

sanitizeRefDir(ref) ==
  LET dir == [i \in DOMAIN ref |-> IF ref[i] \in Plain THEN ref[i] ELSE "_"]
  IN  IF dir \in {<<>>, <<".">>, <<".", ".">>} THEN <<"r", "e", "f">> ELSE dir

\* parsePushRefs: deletions are skipped.
parsePushRefs(cmds) == SelectSeq(cmds, LAMBDA c : c.sha # Zero)

refs(p) == parsePushRefs(request[p].cmds)

IsCommitish(obj) == KindOf[obj] \in {"commit", "tag"}
Exportable(obj)  == obj \in Objects /\ KindOf[obj] \in {"commit", "tag", "tree"}

\* Mutant: the first object stands for the whole push.
ScanKeyOfFirst(p) == [repo |-> request[p].repo, shas |-> <<refs(p)[1].sha>>]

\* The identity of a scan: the repository and every pushed object, in order.
Shas(rs)   == [i \in DOMAIN rs |-> rs[i].sha]
ScanKey(p) == [repo |-> request[p].repo, shas |-> Shas(refs(p))]

-----------------------------------------------------------------------------

\* What a scan directory holds: the objects whose files are there, whether every
\* archive was exported and extracted, whether each ref had its own directory.
Dir   == [tree : SUBSET Objects, whole : BOOLEAN, apart : BOOLEAN]
NoDir == [tree |-> {}, whole |-> FALSE, apart |-> FALSE]

Times    == 0 .. MaxNow
Evidence == [dir : Dir, began : Times, approved : BOOLEAN]

ASSUME NullAssumption ==
  NoRequest \notin [repo : Repos, cmds : RefLists] /\ NoEvidence \notin Evidence

TypeOK ==
  /\ mode \in Modes
  /\ now \in Times
  /\ since \in [Objects -> Times \cup {Never}]
  /\ \A k \in DOMAIN cache : mode.scan = "api" /\ cache[k] \in [at : Times, evidence : Evidence]
  /\ pc \in [PushIds -> {"new", "unpacked", "extracted", "scanning", "decide", "forward", "sent",
                         "done"}]
  /\ request \in [PushIds -> [repo : Repos, cmds : RefLists] \cup {NoRequest}]
  /\ scanDir \in [PushIds -> Dir]
  /\ began \in [PushIds -> Times]
  /\ evidence \in [PushIds -> Evidence \cup {NoEvidence}]
  /\ reply \in [PushIds -> Reply]
  /\ upstream \in [PushIds -> {"none", "inflight", "applied", "rejected"}]
  /\ answer \in [PushIds -> Answers]

Init ==
  /\ mode \in Modes
  /\ now = 0
  /\ since = [o \in Objects |-> Never]
  /\ cache = [k \in {} |-> NoEvidence]
  /\ pc = [p \in PushIds |-> "new"]
  /\ request = [p \in PushIds |-> NoRequest]
  /\ scanDir = [p \in PushIds |-> NoDir]
  /\ began = [p \in PushIds |-> 0]
  /\ evidence = [p \in PushIds |-> NoEvidence]
  /\ reply = [p \in PushIds |-> Fail]
  /\ upstream = [p \in PushIds |-> "none"]
  /\ answer = [p \in PushIds |-> "none"]

-----------------------------------------------------------------------------

At(p, from, to) == pc[p] = from /\ pc' = [pc EXCEPT ![p] = to]

\* The response is sent; the deferred RemoveAll deletes the directory the push was
\* extracted into.  The copy made for the worker stays, but no step reads it again.
Respond(p, from, status) ==
  /\ At(p, from, "done")
  /\ answer' = [answer EXCEPT ![p] = status]
  /\ scanDir' = [scanDir EXCEPT ![p] = NoDir]
  /\ reply' = [reply EXCEPT ![p] = Fail]

Refuse(p, from, status) ==
  /\ Respond(p, from, status)
  /\ began' = [began EXCEPT ![p] = 0]
  /\ evidence' = [evidence EXCEPT ![p] = NoEvidence]
  /\ UNCHANGED <<modelVars, cache, upstream>>

GoOn(p, from, to) ==
  /\ At(p, from, to)
  /\ UNCHANGED <<modelVars, cache, request, began, evidence, reply, answer>>

(***************************************************************************)
(* A push arrives.  It is over the rate limit (429), its repository cannot *)
(* be set up (400), its body not read or its objects not unpacked (400 or  *)
(* 500), or the handler goes on.  A push that only deletes carries no      *)
(* pack, which git refuses to unpack.                                      *)
(***************************************************************************)
Receive(p) ==
  \E r \in Repos, cmds \in RefLists :
    /\ request' = [request EXCEPT ![p] = [repo |-> r, cmds |-> cmds]]
    /\ \/ Refuse(p, "new", "refused")
       \/ /\ At(p, "new", "unpacked")
          /\ parsePushRefs(cmds) # <<>>
          /\ UNCHANGED <<modelVars, cache, scanDir, began, evidence, reply, upstream, answer>>

\* Mutant: all refs are extracted into the same directory.
ExtractFlat(p) ==
  /\ GoOn(p, "unpacked", "extracted")
  /\ \A i \in DOMAIN refs(p) : Exportable(refs(p)[i].sha)
  /\ scanDir' = [scanDir EXCEPT ![p] =
       [tree |-> {refs(p)[Len(refs(p))].sha}, whole |-> TRUE, apart |-> TRUE]]
  /\ UNCHANGED upstream

\* Of the refs rs those of ok are exported; an archive that fails leaves nothing and
\* says nothing.  A ref extracted into the directory of an earlier one overwrites it.
Shown(rs, ok) ==
  LET dir(i) == sanitizeRefDir(rs[i].ref)
  IN  {i \in ok : \A j \in ok \ {i} : j < i \/ dir(j) # dir(i)}

Extracted(rs, ok) ==
  LET dir(i) == sanitizeRefDir(rs[i].ref)
  IN  [tree  |-> {rs[i].sha : i \in Shown(rs, ok)},
       whole |-> ok = DOMAIN rs,
       apart |-> \A i, j \in DOMAIN rs : i # j => dir(i) # dir(j)]

\* One ref is extracted as it is, whatever it names; several only if each one
\* is a commit.
Extract(p) ==
  /\ GoOn(p, "unpacked", "extracted")
  /\ Len(refs(p)) > 1 => \A i \in DOMAIN refs(p) : IsCommitish(refs(p)[i].sha)
  /\ \E ok \in SUBSET {i \in DOMAIN refs(p) : Exportable(refs(p)[i].sha)} :
       scanDir' = [scanDir EXCEPT ![p] = Extracted(refs(p), ok)]
  /\ UNCHANGED upstream

\* One of several refs is no commit, or the copy for the worker fails.
ExtractFails(p) ==
  /\ \/ /\ Refuse(p, "unpacked", "403")
        /\ Len(refs(p)) > 1
        /\ \E i \in DOMAIN refs(p) : ~IsCommitish(refs(p)[i].sha)
     \/ Refuse(p, "unpacked", "refused")
  /\ UNCHANGED request

-----------------------------------------------------------------------------

\* Mutant: an approval is good for one more tick.
HitTooLong(k) == mode.scan = "api" /\ k \in DOMAIN cache /\ now - cache[k].at <= TTL

\* Only the remote client has a cache.
Hit(k) == mode.scan = "api" /\ k \in DOMAIN cache /\ now - cache[k].at < TTL

\* cachedKuroClient.Scan finds an approval.
CacheHit(p) ==
  /\ At(p, "extracted", "decide")
  /\ Hit(ScanKey(p))
  /\ evidence' = [evidence EXCEPT ![p] = cache[ScanKey(p)].evidence]
  /\ began' = [began EXCEPT ![p] = now]
  /\ reply' = [reply EXCEPT ![p] = Approve]
  /\ UNCHANGED <<modelVars, cache, request, scanDir, upstream, answer>>

\* There is no cache, or it has no approval: the scanner is called.
ScanBegins(p) ==
  /\ At(p, "extracted", "scanning")
  /\ ~Hit(ScanKey(p))
  /\ began' = [began EXCEPT ![p] = now]
  /\ UNCHANGED <<modelVars, cache, request, scanDir, evidence, reply, upstream, answer>>

(***************************************************************************)
(* What the scanner may say of the directory of p: it reads its rules at   *)
(* some moment of the scan, and it can fail, be unreachable or be cut off. *)
(***************************************************************************)
Pure(p)    == \A o \in scanDir[p].tree : since[o] >= began[p]
Tainted(p) == \E o \in scanDir[p].tree : since[o] <= now

LocalReplies(p) ==
  {LocalScan({}, -1), LocalScan({JsonReport("failed", "block", TRUE, FALSE)}, 1)}
    \cup {LocalScan({JsonReport("completed", d, FALSE, d # "pass")}, ExitCode(d, FALSE)) :
            d \in (IF Pure(p) THEN {"pass"} ELSE {}) \cup (IF Tainted(p) THEN {"review", "block"} ELSE {})}

RemoteReplies(p) ==
  {RemoteScan([answered |-> FALSE, class |-> "none", blocked |-> FALSE]),
   RemoteScan([answered |-> TRUE, class |-> "5xx", blocked |-> FALSE])}
    \cup (IF Pure(p) THEN {RemoteScan([answered |-> TRUE, class |-> "2xx", blocked |-> FALSE])} ELSE {})
    \cup (IF Tainted(p) THEN {RemoteScan([answered |-> TRUE, class |-> c, blocked |-> TRUE]) :
                                c \in {"2xx", "403"}} ELSE {})

ScanReplies(p) == IF mode.scan = "local" THEN LocalReplies(p) ELSE RemoteReplies(p)

\* What the caching client makes of a failure: blocked unless it fails open,
\* and an error either way.
FailReply == [blocked |-> mode.scan = "api" /\ mode.fail = "closed", err |-> TRUE]

\* The cache with e as the approval of the objects of p.
Stored(p, e) ==
  [k \in DOMAIN cache \cup {ScanKey(p)} |->
     IF k = ScanKey(p) THEN [at |-> now, evidence |-> e] ELSE cache[k]]

\* What the scan of p saw, and whether it approved.
SeenBy(p, r) == [dir |-> scanDir[p], began |-> began[p], approved |-> r = Approve]

\* Mutant: what does not block is cached, a failure that fails open too.
ScanEndsCachingFailures(p) ==
  /\ At(p, "scanning", "decide")
  /\ \E r \in ScanReplies(p) :
       /\ reply' = [reply EXCEPT ![p] = IF r.err THEN FailReply ELSE r]
       /\ evidence' = [evidence EXCEPT ![p] = SeenBy(p, r)]
       /\ cache' = IF mode.scan = "api" /\ ~reply'[p].blocked THEN Stored(p, evidence'[p]) ELSE cache
  /\ UNCHANGED <<modelVars, request, scanDir, began, upstream, answer>>

\* Mutant: the approvals of the local scanner are cached too.
ScanEndsCachingLocally(p) ==
  /\ At(p, "scanning", "decide")
  /\ \E r \in ScanReplies(p) :
       /\ reply' = [reply EXCEPT ![p] = IF r.err THEN FailReply ELSE r]
       /\ evidence' = [evidence EXCEPT ![p] = SeenBy(p, r)]
       /\ cache' = IF r = Approve THEN Stored(p, evidence'[p]) ELSE cache
  /\ UNCHANGED <<modelVars, request, scanDir, began, upstream, answer>>

\* The scanner answers; only approvals are cached, with the time of the answer.
ScanEnds(p) ==
  /\ At(p, "scanning", "decide")
  /\ \E r \in ScanReplies(p) :
       /\ reply' = [reply EXCEPT ![p] = IF r.err THEN FailReply ELSE r]
       /\ evidence' = [evidence EXCEPT ![p] = SeenBy(p, r)]
       /\ cache' = IF mode.scan = "api" /\ r = Approve THEN Stored(p, evidence'[p]) ELSE cache
  /\ UNCHANGED <<modelVars, request, scanDir, began, upstream, answer>>

-----------------------------------------------------------------------------

\* Mutant: only the verdict is looked at, not the error.
DecideOnVerdict(p) ==
  \/ reply[p].blocked /\ Refuse(p, "decide", "403") /\ UNCHANGED request
  \/ ~reply[p].blocked /\ GoOn(p, "decide", "forward") /\ UNCHANGED <<scanDir, upstream>>

\* An error refuses the push whatever the fail mode says; so does a verdict.
Decide(p) ==
  \/ reply[p] # Approve /\ Refuse(p, "decide", "403") /\ UNCHANGED request
  \/ reply[p] = Approve /\ GoOn(p, "decide", "forward") /\ UNCHANGED <<scanDir, upstream>>

\* The body is read back (or not: 500) and posted upstream.
Forward(p) ==
  \/ Refuse(p, "forward", "refused") /\ UNCHANGED request
  \/ /\ GoOn(p, "forward", "sent")
     /\ upstream' = [upstream EXCEPT ![p] = "inflight"]
     /\ UNCHANGED scanDir

\* The upstream repository takes or rejects the push, even after the proxy gave up.
Upstream(p) ==
  /\ upstream[p] = "inflight"
  /\ \E outcome \in {"applied", "rejected"} : upstream' = [upstream EXCEPT ![p] = outcome]
  /\ UNCHANGED <<modelVars, cache, pc, request, scanDir, began, evidence, reply, answer>>

\* Mutant: the request upstream has no timeout.
AwaitUpstream(p) ==
  /\ upstream[p] # "inflight"
  /\ Respond(p, "sent", "relayed")
  /\ UNCHANGED <<modelVars, cache, request, began, evidence, upstream>>

\* Its response is relayed, or the request fails or times out after 30 seconds.
Relay(p) ==
  /\ \/ upstream[p] # "inflight" /\ Respond(p, "sent", "relayed")
     \/ Respond(p, "sent", "502")
  /\ UNCHANGED <<modelVars, cache, request, began, evidence, upstream>>

-----------------------------------------------------------------------------

\* A rule or a vulnerability record arrives that makes an object bad.
Discover(o) ==
  /\ since[o] = Never
  /\ since' = [since EXCEPT ![o] = now]
  /\ UNCHANGED <<mode, now, cache, pc, pushVars>>

\* Time passes, but no scan outlives its deadline.
Tick ==
  /\ now < MaxNow
  /\ \A p \in PushIds : pc[p] = "scanning" => now - began[p] < ScanMax
  /\ now' = now + 1
  /\ UNCHANGED <<mode, since, cache, pc, pushVars>>

(***************************************************************************)
(* The proxy stops and is started again.  It stops listening and waits ten *)
(* seconds, less than a scan or the upstream repository may take: handlers *)
(* are cut off wherever they are, and the approvals are gone.  What was    *)
(* sent upstream may be applied all the same.                              *)
(***************************************************************************)
Forwarded(p) == upstream[p] # "none"
Handled      == {p \in PushIds : pc[p] \notin {"new", "done"}}

Stop ==
  /\ Handled # {}
  /\ cache' = [k \in {} |-> NoEvidence]
  /\ pc' = [p \in PushIds |-> IF p \in Handled THEN "done" ELSE pc[p]]
  /\ answer' = [p \in PushIds |-> IF p \in Handled THEN "lost" ELSE answer[p]]
  /\ scanDir' = [p \in PushIds |-> NoDir]
  /\ reply' = [p \in PushIds |-> Fail]
  /\ began' = [p \in PushIds |-> IF Forwarded(p) THEN began[p] ELSE 0]
  /\ evidence' = [p \in PushIds |-> IF Forwarded(p) THEN evidence[p] ELSE NoEvidence]
  /\ UNCHANGED <<modelVars, request, upstream>>

Handle(p) ==
  \/ Extract(p) \/ ExtractFails(p)
  \/ CacheHit(p) \/ ScanBegins(p) \/ ScanEnds(p)
  \/ Decide(p) \/ Forward(p) \/ Relay(p)

Next ==
  \/ Tick \/ Stop
  \/ \E o \in Objects : Discover(o)
  \/ \E p \in PushIds : Receive(p) \/ Handle(p) \/ Upstream(p)

(***************************************************************************)
(* Each handler goroutine is scheduled; its scan and its request upstream  *)
(* end because both carry a timeout.  Pushes need not arrive, and the      *)
(* upstream repository owes no answer.                                     *)
(***************************************************************************)
Spec == Init /\ [][Next]_vars /\ \A p \in PushIds : WF_vars(Handle(p))

-----------------------------------------------------------------------------

\* How old the knowledge behind an approval may be when it is used.
Lag == IF mode.scan = "api" THEN TTL + ScanMax ELSE 1

(***************************************************************************)
(* What the scanners had known for longer than the life of a cached        *)
(* approval and the length of a scan when the push asked for its verdict   *)
(* does not get through, if it was in the tree that was scanned; without   *)
(* the cache, not even what they knew at that moment.                      *)
(***************************************************************************)
KnownBadNeverLands ==
  \A p \in PushIds : Forwarded(p) =>
    \A o \in evidence[p].dir.tree : since[o] + Lag > began[p]

(***************************************************************************)
(* The scan that vouches for a push, its own or one out of the cache, read *)
(* all objects of the push, provided that no archive failed and that the   *)
(* refs of the scanned push had directories of their own.                  *)
(***************************************************************************)
Covered(p) == {refs(p)[i].sha : i \in DOMAIN refs(p)} \subseteq evidence[p].dir.tree

EvidenceCoversPush ==
  \A p \in PushIds :
    Forwarded(p) /\ evidence[p].dir.whole /\ evidence[p].dir.apart => Covered(p)

(***************************************************************************)
(* The handler and its cache are a verified push: no interleaving of       *)
(* concurrent pushes, retries, failed scans, expiring approvals and stops  *)
(* lets a push through without a fresh approval of a scan of the same      *)
(* objects, and a push that was refused, or cut off before it was sent, is *)
(* never applied.                                                          *)
(***************************************************************************)
Identity(p) == IF request[p] = NoRequest THEN NoRequest ELSE ScanKey(p)

Approval(i, e) == [identity |-> i, at |-> e.began]

Approvals ==
  {Approval(k, cache[k].evidence) : k \in {k2 \in DOMAIN cache : cache[k2].evidence.approved}}
    \cup {Approval(Identity(p), evidence[p]) :
            p \in {q \in PushIds : evidence[q] # NoEvidence /\ evidence[q].approved}}

Stage(p) ==
  IF upstream[p] = "applied" THEN "applied"
  ELSE IF upstream[p] # "none" THEN "forwarded"
  ELSE IF answer[p] \in Refusals \cup {"lost"} THEN "refused"
  ELSE IF pc[p] = "forward" \/ (pc[p] = "decide" /\ reply[p] = Approve) THEN "cleared"
  ELSE "open"

Promise == INSTANCE VerifiedPush WITH
  Staleness  <- TTL + ScanMax,
  identity   <- [p \in PushIds |-> Identity(p)],
  approvals  <- Approvals,
  stage      <- [p \in PushIds |-> Stage(p)],
  Identities <- [repo : Repos, shas : {Shas(parsePushRefs(c)) : c \in RefLists}]

ImplementsVerifiedPush == Promise!Spec

\* A push that arrives is answered or cut off, whatever scanner and upstream do.
PushesAreAnswered == \A p \in PushIds : pc[p] # "new" ~> answer[p] # "none"

-----------------------------------------------------------------------------

(***************************************************************************)
(* "Missing/non-commit objects are a hard error: the push must not proceed *)
(* if a ref cannot be scanned" (git.go:162-163).                           *)
(***************************************************************************)
UnscannableRefsAreRefused ==
  \A p \in PushIds : Forwarded(p) => \A i \in DOMAIN refs(p) : IsCommitish(refs(p)[i].sha)
=============================================================================
