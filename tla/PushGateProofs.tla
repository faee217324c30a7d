--------------------------- MODULE PushGateProofs ---------------------------
(***************************************************************************)
(* The push handler and its approval cache for every number of pushes,     *)
(* every object database and every lifetime of an approval.                *)
(***************************************************************************)
EXTENDS PushGate, TLAPS

LEMMA Numbers ==
  /\ TTL \in Nat /\ TTL > 0 /\ ScanMax \in Nat /\ ScanMax > 0 /\ MaxNow \in Nat
  /\ Never \in Nat /\ Never > MaxNow
  /\ Times \subseteq Nat /\ 0 \in Times
BY PushGateAssumption DEF PushGateAssumption, Never, Times

-----------------------------------------------------------------------------

\* A local scan that ends is read as one of three replies.
LEMMA ParsedReply == \A report : parseScanJSON(report) \in {Approve, Deny, Fail}
BY DEF parseScanJSON

LEMMA LocalReply == \A stdout, code : LocalScan(stdout, code) \in {Approve, Deny, Fail}
<1> SUFFICES ASSUME NEW stdout, NEW code PROVE LocalScan(stdout, code) \in {Approve, Deny, Fail}
  OBVIOUS
<1> DEFINE r == CHOOSE r \in stdout : TRUE
<1>1. parseScanJSON(r) \in {Approve, Deny, Fail}
  BY ParsedReply
<1>2. LocalScan(stdout, code) \in {Fail, parseScanJSON(r)}
  BY DEF LocalScan
<1> QED BY <1>1, <1>2

LEMMA RepliesAreTyped ==
  ASSUME NEW p, NEW r \in ScanReplies(p)
  PROVE  r \in Reply
<1>1. {Approve, Deny, Fail} \subseteq Reply
  BY DEF Approve, Deny, Fail, Reply
<1>2. CASE r \in LocalReplies(p)
  BY <1>1, <1>2, LocalReply, Zenon DEF LocalReplies
<1>3. CASE r \in RemoteReplies(p)
  <2>1. \A resp : resp.blocked \in BOOLEAN => RemoteScan(resp) \in Reply
    BY <1>1 DEF RemoteScan, Reply
  <2>2. \E a, c : \E b \in BOOLEAN :
          r = RemoteScan([answered |-> a, class |-> c, blocked |-> b])
    <3>1. TRUE \in BOOLEAN /\ FALSE \in BOOLEAN
      OBVIOUS
    <3>2. CASE r \in {RemoteScan([answered |-> FALSE, class |-> "none", blocked |-> FALSE]),
                      RemoteScan([answered |-> TRUE, class |-> "5xx", blocked |-> FALSE]),
                      RemoteScan([answered |-> TRUE, class |-> "2xx", blocked |-> FALSE])}
      BY <3>1, <3>2, Zenon
    <3>3. CASE r \in {RemoteScan([answered |-> TRUE, class |-> c, blocked |-> TRUE]) :
                        c \in {"2xx", "403"}}
      BY <3>1, <3>3, Zenon
    <3> QED BY <1>3, <3>2, <3>3, Zenon DEF RemoteReplies
  <2>3. PICK a, c : \E b \in BOOLEAN : r = RemoteScan([answered |-> a, class |-> c, blocked |-> b])
    BY <2>2, Zenon
  <2>4. PICK b \in BOOLEAN : r = RemoteScan([answered |-> a, class |-> c, blocked |-> b])
    BY <2>3, Zenon
  <2> DEFINE resp == [answered |-> a, class |-> c, blocked |-> b]
  <2>5. resp.blocked \in BOOLEAN
    OBVIOUS
  <2> HIDE DEF resp
  <2>6. r = RemoteScan(resp)
    BY <2>4 DEF resp
  <2> QED BY <2>1, <2>5, <2>6
<1> QED BY <1>2, <1>3 DEF ScanReplies

(***************************************************************************)
(* A scanner approves only what held no known-bad object when the scan     *)
(* began (local_scan.go, config_client.go:defaultKuroClient).              *)
(***************************************************************************)
LEMMA ApprovalMeansPure ==
  ASSUME NEW p, Approve \in ScanReplies(p)
  PROVE  Pure(p)
<1>1. Approve # Deny /\ Approve # Fail
  BY DEF Approve, Deny, Fail
<1>2. CASE Approve \in LocalReplies(p)
  <2>1. LocalScan({}, -1) = Fail
    BY DEF LocalScan
  <2>2. LocalScan({JsonReport("failed", "block", TRUE, FALSE)}, 1) # Approve
    <3> DEFINE rep == JsonReport("failed", "block", TRUE, FALSE)
    <3>1. (CHOOSE r \in {rep} : TRUE) = rep
      OBVIOUS
    <3>2. parseScanJSON(rep) = Fail
      BY DEF parseScanJSON, JsonReport
    <3>3. LocalScan({rep}, 1) = Fail
      BY <3>1, <3>2 DEF LocalScan, Fail
    <3> QED BY <1>1, <3>3
  <2>3. ASSUME NEW d \in {"review", "block"}
        PROVE  LocalScan({JsonReport("completed", d, FALSE, d # "pass")}, ExitCode(d, FALSE)) # Approve
    <3> DEFINE rep == JsonReport("completed", d, FALSE, d # "pass")
    <3>1. (CHOOSE r \in {rep} : TRUE) = rep
      OBVIOUS
    <3>2. parseScanJSON(rep) = Deny
      BY <2>3 DEF parseScanJSON, JsonReport
    <3>3. LocalScan({rep}, ExitCode(d, FALSE)) \in {Deny, Fail}
      BY <3>1, <3>2 DEF LocalScan
    <3> QED BY <1>1, <3>3
  <2>4. PICK d \in (IF Pure(p) THEN {"pass"} ELSE {})
                     \cup (IF Tainted(p) THEN {"review", "block"} ELSE {}) :
          Approve = LocalScan({JsonReport("completed", d, FALSE, d # "pass")}, ExitCode(d, FALSE))
    BY <1>1, <1>2, <2>1, <2>2, Zenon DEF LocalReplies
  <2>5. d \notin {"review", "block"}
    BY <2>3, <2>4, Zenon
  <2> QED BY <2>4, <2>5
<1>3. CASE Approve \in RemoteReplies(p)
  BY <1>3 DEF RemoteReplies, RemoteScan, Approve, Deny, Fail
<1> QED BY <1>2, <1>3 DEF ScanReplies

-----------------------------------------------------------------------------

LEMMA DirTyped ==
  ASSUME NEW p, NEW ok \in SUBSET {i \in DOMAIN refs(p) : Exportable(refs(p)[i].sha)}
  PROVE  Extracted(refs(p), ok) \in Dir
BY DEF Extracted, Shown, Dir, Exportable

LEMMA Typing ==
  ASSUME TypeOK, [Next]_vars
  PROVE  TypeOK'
<1> USE Numbers DEF TypeOK, modelVars, pushVars, At
<1>0. /\ NoDir \in Dir /\ Fail \in Reply /\ Approve \in Reply
      /\ \A e : FailReply \in Reply
  BY DEF NoDir, Dir, Fail, Approve, Reply, FailReply
<1>1. CASE Tick \/ UNCHANGED vars
  BY <1>1 DEF Tick, vars, Times
<1>2. ASSUME NEW o \in Objects, Discover(o) PROVE TypeOK'
  BY <1>2 DEF Discover
<1>3. ASSUME NEW p \in PushIds, Receive(p) \/ ExtractFails(p) PROVE TypeOK'
  BY <1>0, <1>3 DEF Receive, ExtractFails, Refuse, Respond, Answers, Refusals
<1>4. ASSUME NEW p \in PushIds, Extract(p) PROVE TypeOK'
  <2>1. PICK d \in Dir : scanDir' = [scanDir EXCEPT ![p] = d]
    BY <1>4, DirTyped DEF Extract
  <2> QED BY <1>4, <2>1 DEF Extract, GoOn
<1>5. ASSUME NEW p \in PushIds, CacheHit(p) \/ ScanBegins(p) PROVE TypeOK'
  BY <1>0, <1>5 DEF CacheHit, ScanBegins, Hit
<1>6. ASSUME NEW p \in PushIds, ScanEnds(p) PROVE TypeOK'
  <2>1. PICK r \in ScanReplies(p) :
          /\ reply' = [reply EXCEPT ![p] = IF r.err THEN FailReply ELSE r]
          /\ evidence' = [evidence EXCEPT ![p] = SeenBy(p, r)]
          /\ cache' = IF mode.scan = "api" /\ r = Approve THEN Stored(p, evidence'[p]) ELSE cache
    BY <1>6 DEF ScanEnds
  <2>2. SeenBy(p, r) \in Evidence
    BY DEF SeenBy, Evidence
  <2>3. r \in Reply
    BY RepliesAreTyped
  <2>4. \A k \in DOMAIN cache' : mode.scan = "api" /\ cache'[k] \in [at : Times, evidence : Evidence]
    BY <2>1, <2>2 DEF Stored
  <2> QED BY <1>0, <1>6, <2>1, <2>2, <2>3, <2>4 DEF ScanEnds
<1>7. ASSUME NEW p \in PushIds, Decide(p) \/ Forward(p) PROVE TypeOK'
  BY <1>0, <1>7 DEF Decide, Forward, GoOn, Refuse, Respond, Answers, Refusals
<1>8. ASSUME NEW p \in PushIds, Relay(p) \/ Upstream(p) PROVE TypeOK'
  BY <1>0, <1>8 DEF Relay, Upstream, Respond, Answers, Refusals
<1>9. ASSUME Stop PROVE TypeOK'
  <2>1. \A k \in DOMAIN cache' : mode.scan = "api" /\ cache'[k] \in [at : Times, evidence : Evidence]
    BY <1>9 DEF Stop
  <2>2. /\ pc' \in [PushIds -> {"new", "unpacked", "extracted", "scanning", "decide", "forward", "sent",
                                "done"}]
        /\ answer' \in [PushIds -> Answers]
    BY <1>9 DEF Stop, Answers
  <2>3. /\ scanDir' \in [PushIds -> Dir] /\ reply' \in [PushIds -> Reply]
        /\ began' \in [PushIds -> Times] /\ evidence' \in [PushIds -> Evidence \cup {NoEvidence}]
    BY <1>0, <1>9 DEF Stop
  <2>4. UNCHANGED <<mode, now, since, request, upstream>>
    BY <1>9 DEF Stop
  <2> QED BY <2>1, <2>2, <2>3, <2>4
<1> QED BY <1>1, <1>2, <1>3, <1>4, <1>5, <1>6, <1>7, <1>8, <1>9, Zenon DEF Next, Handle

-----------------------------------------------------------------------------

(***************************************************************************)
(* The inductive invariant.                                                *)
(***************************************************************************)

\* What a goroutine has by where it is.
Control ==
  \A p \in PushIds :
    /\ pc[p] \in {"new", "unpacked", "extracted", "scanning"} => evidence[p] = NoEvidence
    /\ pc[p] = "new" => request[p] = NoRequest
    /\ pc[p] \notin {"new", "done"} => request[p] # NoRequest
    /\ upstream[p] # "none" => pc[p] \in {"sent", "done"} /\ request[p] # NoRequest
    /\ pc[p] # "done" => answer[p] = "none"

\* Nothing is of the future, no scan outlives its deadline, and an approval in the
\* cache is at most a scan younger than what it saw.
Dated ==
  /\ \A p \in PushIds :
       began[p] <= now /\ (pc[p] = "scanning" => now <= began[p] + ScanMax)
  /\ \A k \in DOMAIN cache :
       /\ cache[k].at <= now
       /\ cache[k].evidence.began <= cache[k].at
       /\ cache[k].at <= cache[k].evidence.began + ScanMax

\* What is cached are approvals, of trees without a fault at their time.
CachePure ==
  \A k \in DOMAIN cache :
    /\ cache[k].evidence.approved
    /\ \A o \in cache[k].evidence.dir.tree : since[o] >= cache[k].evidence.began

\* A push that the proxy forwards, or is about to.
Vouched(p) ==
  \/ pc[p] = "forward"
  \/ pc[p] = "decide" /\ reply[p] = Approve
  \/ upstream[p] # "none"

VouchersPure ==
  \A p \in PushIds : Vouched(p) =>
    /\ evidence[p] \in Evidence /\ evidence[p].approved
    /\ \A o \in evidence[p].dir.tree : since[o] + Lag > began[p]

\* What the scan under a key read: the refs rs of some push of the same objects - the
\* names may be others, when the approval is out of the cache - of which those of ok
\* were exported.  Of these it read the ones that no later one overwrote.
ReadFor(dir, key) ==
  \E cmds \in RefLists :
    LET rs == parsePushRefs(cmds) IN
    /\ Shas(rs) = key.shas
    /\ \E ok \in SUBSET {i \in DOMAIN rs : Exportable(rs[i].sha)} : dir = Extracted(rs, ok)

AllRead ==
  /\ \A k \in DOMAIN cache : ReadFor(cache[k].evidence.dir, k)
  /\ \A p \in PushIds : pc[p] \in {"extracted", "scanning"} => ReadFor(scanDir[p], ScanKey(p))
  /\ \A p \in PushIds : Vouched(p) => ReadFor(evidence[p].dir, ScanKey(p))

IInv == TypeOK /\ Control /\ Dated /\ CachePure /\ VouchersPure /\ AllRead

-----------------------------------------------------------------------------

\* Every way to refuse a push.
Refusal(p) ==
  \E from \in {"new", "unpacked", "decide", "forward"}, status \in Refusals : Refuse(p, from, status)

\* A step of the handler of p refuses or is one of those that go on.
LEMMA HandlerSteps ==
  ASSUME NEW p \in PushIds, Receive(p) \/ Handle(p) \/ Upstream(p)
  PROVE  \/ Refusal(p) /\ (request' = request \/ Receive(p))
         \/ Receive(p) /\ At(p, "new", "unpacked")
            /\ UNCHANGED <<modelVars, cache, scanDir, began, evidence, reply, upstream, answer>>
         \/ Extract(p) \/ CacheHit(p) \/ ScanBegins(p) \/ ScanEnds(p)
         \/ reply[p] = Approve /\ GoOn(p, "decide", "forward") /\ UNCHANGED <<scanDir, upstream>>
         \/ /\ GoOn(p, "forward", "sent") /\ scanDir' = scanDir
            /\ upstream' = [upstream EXCEPT ![p] = "inflight"]
         \/ Relay(p) \/ Upstream(p)
<1>1. CASE Receive(p)
  BY <1>1 DEF Receive, Refusal, Refusals
<1>2. CASE ExtractFails(p)
  BY <1>2 DEF ExtractFails, Refusal, Refusals
<1>3. CASE Decide(p)
  BY <1>3 DEF Decide, Refusal, Refusals
<1>4. CASE Forward(p)
  BY <1>4 DEF Forward, Refusal, Refusals
<1> QED BY <1>1, <1>2, <1>3, <1>4 DEF Handle

\* A stop of the proxy cuts off the pushes it has in hand.
LEMMA StopStep ==
  ASSUME TypeOK, Stop
  PROVE  /\ DOMAIN cache' = {} /\ UNCHANGED <<mode, now, since, request, upstream>>
         /\ \A p \in PushIds :
              /\ pc'[p] = IF p \in Handled THEN "done" ELSE pc[p]
              /\ answer'[p] = IF p \in Handled THEN "lost" ELSE answer[p]
              /\ began'[p] = IF upstream[p] # "none" THEN began[p] ELSE 0
              /\ evidence'[p] = IF upstream[p] # "none" THEN evidence[p] ELSE NoEvidence
              /\ p \in Handled <=> pc[p] \notin {"new", "done"}
BY DEF TypeOK, Stop, modelVars, Handled, Forwarded

LEMMA ControlStays ==
  ASSUME TypeOK, Control, [Next]_vars
  PROVE  Control'
<1> USE DEF TypeOK, Control, modelVars, pushVars, At
<1>1. CASE Tick \/ UNCHANGED vars \/ \E o \in Objects : Discover(o)
  BY <1>1 DEF Tick, vars, Discover
<1>2. ASSUME NEW p \in PushIds, Refusal(p), request' = request \/ Receive(p) PROVE Control'
  <2>1. \A q \in PushIds : q # p => request'[q] = request[q]
    BY <1>2 DEF Receive
  <2>2. /\ pc'[p] = "done" /\ upstream' = upstream /\ pc[p] \notin {"sent", "done"}
        /\ \A q \in PushIds : q # p => pc'[q] = pc[q] /\ evidence'[q] = evidence[q]
                                       /\ answer'[q] = answer[q]
    BY <1>2 DEF Refusal, Refuse, Respond
  <2> QED BY <2>1, <2>2
<1>3. ASSUME NEW p \in PushIds, Receive(p), At(p, "new", "unpacked"),
             UNCHANGED <<modelVars, cache, scanDir, began, evidence, reply, upstream, answer>>
      PROVE  Control'
  <2>1. PICK r \in Repos, cmds \in RefLists :
          request' = [request EXCEPT ![p] = [repo |-> r, cmds |-> cmds]]
    BY <1>3 DEF Receive
  <2>2. [repo |-> r, cmds |-> cmds] # NoRequest
    BY NullAssumption DEF NullAssumption
  <2> QED BY <1>3, <2>1, <2>2
<1>4. ASSUME NEW p \in PushIds, Extract(p) \/ ScanBegins(p) PROVE Control'
  BY <1>4 DEF Extract, GoOn, ScanBegins
<1>5. ASSUME NEW p \in PushIds, CacheHit(p) \/ ScanEnds(p) PROVE Control'
  BY <1>5 DEF CacheHit, ScanEnds
<1>6. ASSUME NEW p \in PushIds, GoOn(p, "decide", "forward"), upstream' = upstream PROVE Control'
  BY <1>6 DEF GoOn
<1>7. ASSUME NEW p \in PushIds, GoOn(p, "forward", "sent"),
             upstream' = [upstream EXCEPT ![p] = "inflight"]
      PROVE  Control'
  BY <1>7 DEF GoOn
<1>8. ASSUME NEW p \in PushIds, Relay(p) \/ Upstream(p) PROVE Control'
  BY <1>8 DEF Relay, Respond, Upstream
<1>9. CASE Stop
  BY <1>9, StopStep
<1> QED BY <1>1, <1>2, <1>3, <1>4, <1>5, <1>6, <1>7, <1>8, <1>9, HandlerSteps, Zenon DEF Next

\* What a scan that ends leaves behind.
LEMMA ScanEndsStep ==
  ASSUME NEW p \in PushIds, TypeOK, ScanEnds(p)
  PROVE  \E r \in ScanReplies(p) :
           /\ r \in Reply /\ SeenBy(p, r) \in Evidence
           /\ pc[p] = "scanning" /\ pc' = [pc EXCEPT ![p] = "decide"]
           /\ reply' = [reply EXCEPT ![p] = IF r.err THEN FailReply ELSE r]
           /\ reply'[p] = Approve => r = Approve /\ Pure(p)
           /\ evidence' = [evidence EXCEPT ![p] = SeenBy(p, r)]
           /\ cache' = IF mode.scan = "api" /\ r = Approve THEN Stored(p, SeenBy(p, r)) ELSE cache
           /\ UNCHANGED <<modelVars, request, scanDir, began, upstream, answer>>
<1>1. PICK r \in ScanReplies(p) :
        /\ reply' = [reply EXCEPT ![p] = IF r.err THEN FailReply ELSE r]
        /\ evidence' = [evidence EXCEPT ![p] = SeenBy(p, r)]
        /\ cache' = IF mode.scan = "api" /\ r = Approve THEN Stored(p, evidence'[p]) ELSE cache
  BY DEF ScanEnds
<1>2. r \in Reply
  BY RepliesAreTyped
<1>3. SeenBy(p, r) \in Evidence
  BY DEF SeenBy, Evidence, TypeOK
<1>4. evidence'[p] = SeenBy(p, r) /\ reply'[p] = IF r.err THEN FailReply ELSE r
  BY <1>1 DEF TypeOK
<1>5. FailReply # Approve
  BY DEF FailReply, Approve
<1>6. reply'[p] = Approve => r = Approve /\ Pure(p)
  BY <1>4, <1>5, ApprovalMeansPure
<1>7. /\ pc[p] = "scanning" /\ pc' = [pc EXCEPT ![p] = "decide"]
      /\ UNCHANGED <<modelVars, request, scanDir, began, upstream, answer>>
  BY DEF ScanEnds, At
<1>8. cache' = IF mode.scan = "api" /\ r = Approve THEN Stored(p, SeenBy(p, r)) ELSE cache
  BY <1>1, <1>4 DEF Stored
<1> WITNESS r \in ScanReplies(p)
<1> QED BY <1>1, <1>2, <1>3, <1>6, <1>7, <1>8, Zenon

LEMMA DatedStays ==
  ASSUME TypeOK, Dated, [Next]_vars
  PROVE  Dated'
<1> USE Numbers DEF TypeOK, Dated, modelVars, pushVars, At
<1>1. CASE Tick
  <2>1. /\ now' = now + 1 /\ UNCHANGED <<cache, began, pc>>
        /\ \A p \in PushIds : pc[p] = "scanning" => now - began[p] < ScanMax
    BY <1>1 DEF Tick
  <2>2. now \in Nat /\ \A p \in PushIds : began[p] \in Nat
    OBVIOUS
  <2>3. \A k \in DOMAIN cache : cache[k].at \in Nat
    OBVIOUS
  <2>4. \A p \in PushIds : began[p] <= now + 1 /\ (pc[p] = "scanning" => now + 1 <= began[p] + ScanMax)
    BY <2>1, <2>2
  <2>5. \A k \in DOMAIN cache : cache[k].at <= now + 1
    BY <2>2, <2>3
  <2> QED BY <2>1, <2>4, <2>5
<1>2. CASE UNCHANGED vars \/ \E o \in Objects : Discover(o)
  BY <1>2 DEF vars, Discover
<1>3. ASSUME NEW p \in PushIds, Refusal(p) PROVE Dated'
  <2>1. UNCHANGED <<now, cache>> /\ began' = [began EXCEPT ![p] = 0]
        /\ pc' = [pc EXCEPT ![p] = "done"]
    BY <1>3 DEF Refusal, Refuse, Respond
  <2> QED BY <2>1
<1>4. ASSUME NEW p \in PushIds, Receive(p), At(p, "new", "unpacked"),
             UNCHANGED <<modelVars, cache, scanDir, began, evidence, reply, upstream, answer>>
      PROVE  Dated'
  BY <1>4
<1>5. ASSUME NEW p \in PushIds, Extract(p) PROVE Dated'
  BY <1>5 DEF Extract, GoOn
<1>6. ASSUME NEW p \in PushIds, CacheHit(p) \/ ScanBegins(p) PROVE Dated'
  BY <1>6 DEF CacheHit, ScanBegins
<1>7. ASSUME NEW p \in PushIds, ScanEnds(p) PROVE Dated'
  <2>1. PICK r \in ScanReplies(p) :
           /\ pc[p] = "scanning" /\ pc' = [pc EXCEPT ![p] = "decide"]
           /\ SeenBy(p, r) \in Evidence
           /\ cache' = IF mode.scan = "api" /\ r = Approve THEN Stored(p, SeenBy(p, r)) ELSE cache
           /\ UNCHANGED <<modelVars, began>>
    BY <1>7, ScanEndsStep, Zenon
  <2>2. \A q \in PushIds : began'[q] <= now' /\ (pc'[q] = "scanning" => now' <= began'[q] + ScanMax)
    BY <2>1
  <2>3. ASSUME NEW k \in DOMAIN cache'
        PROVE  /\ cache'[k].at <= now'
               /\ cache'[k].evidence.began <= cache'[k].at
               /\ cache'[k].at <= cache'[k].evidence.began + ScanMax
    <3>1. CASE k \in DOMAIN cache /\ cache'[k] = cache[k]
      BY <2>1, <3>1
    <3>2. CASE cache'[k] = [at |-> now, evidence |-> SeenBy(p, r)]
      BY <2>1, <3>2 DEF SeenBy
    <3> QED BY <2>1, <3>1, <3>2 DEF Stored
  <2> QED BY <2>2, <2>3
<1>8. ASSUME NEW p \in PushIds, GoOn(p, "decide", "forward") \/ GoOn(p, "forward", "sent")
      PROVE  Dated'
  BY <1>8 DEF GoOn
<1>9. ASSUME NEW p \in PushIds, Relay(p) \/ Upstream(p) PROVE Dated'
  BY <1>9 DEF Relay, Respond, Upstream
<1>10. CASE Stop
  <2>1. DOMAIN cache' = {} /\ now' = now
    BY <1>10, StopStep
  <2>2. ASSUME NEW p \in PushIds
        PROVE  began'[p] <= now' /\ (pc'[p] = "scanning" => now' <= began'[p] + ScanMax)
    <3>1. began'[p] \in {0, began[p]} /\ pc'[p] # "scanning"
      BY <1>10, StopStep
    <3> QED BY <2>1, <3>1
  <2> QED BY <2>1, <2>2
<1> QED BY <1>1, <1>2, <1>3, <1>4, <1>5, <1>6, <1>7, <1>8, <1>9, <1>10, HandlerSteps, Zenon DEF Next

LEMMA CachePureStays ==
  ASSUME TypeOK, Dated, CachePure, [Next]_vars
  PROVE  CachePure'
<1> USE Numbers DEF TypeOK, CachePure, modelVars, pushVars, At
<1>1. CASE UNCHANGED <<since, cache>>
  BY <1>1
<1>2. ASSUME NEW o \in Objects, Discover(o) PROVE CachePure'
  <2>1. cache' = cache /\ since' = [since EXCEPT ![o] = now]
    BY <1>2 DEF Discover
  <2>2. ASSUME NEW k \in DOMAIN cache, NEW x \in cache[k].evidence.dir.tree
        PROVE  since'[x] >= cache[k].evidence.began
    <3>1. x \in Objects /\ cache[k].evidence.began \in Nat /\ cache[k].at \in Nat
      BY <2>2 DEF Evidence, Dir
    <3>2. cache[k].evidence.began <= now
      BY <3>1 DEF Dated
    <3> QED BY <2>1, <3>1, <3>2
  <2> QED BY <2>1, <2>2
<1>3. ASSUME NEW p \in PushIds, ScanEnds(p) PROVE CachePure'
  <2>1. PICK r \in ScanReplies(p) :
           /\ cache' = IF mode.scan = "api" /\ r = Approve THEN Stored(p, SeenBy(p, r)) ELSE cache
           /\ UNCHANGED <<modelVars, began, scanDir>>
    BY <1>3, ScanEndsStep, Zenon
  <2>2. CASE cache' = cache
    BY <2>1, <2>2
  <2>3. CASE r = Approve /\ cache' = Stored(p, SeenBy(p, r))
    <3>1. Pure(p)
      BY <2>3, ApprovalMeansPure
    <3>2. SeenBy(p, r).approved /\ \A o \in SeenBy(p, r).dir.tree : since[o] >= SeenBy(p, r).began
      BY <2>3, <3>1 DEF SeenBy, Pure
    <3>3. ASSUME NEW k \in DOMAIN cache'
          PROVE  /\ cache'[k].evidence.approved
                 /\ \A o \in cache'[k].evidence.dir.tree : since'[o] >= cache'[k].evidence.began
      <4>1. CASE k \in DOMAIN cache /\ cache'[k] = cache[k]
        BY <2>1, <4>1
      <4>2. CASE cache'[k] = [at |-> now, evidence |-> SeenBy(p, r)]
        BY <2>1, <3>2, <4>2
      <4> QED BY <2>3, <4>1, <4>2 DEF Stored
    <3> QED BY <3>3
  <2> QED BY <2>1, <2>2, <2>3
<1>4. ASSUME NEW p \in PushIds, Receive(p) \/ Handle(p) \/ Upstream(p), ~ScanEnds(p)
      PROVE  UNCHANGED <<since, cache>>
  BY <1>4, HandlerSteps DEF Refusal, Refuse, GoOn, Extract, CacheHit, ScanBegins, Relay, Upstream
<1>5. CASE Tick \/ UNCHANGED vars
  BY <1>1, <1>5 DEF Tick, vars
<1>6. CASE Stop
  BY <1>6, StopStep
<1> QED BY <1>1, <1>2, <1>3, <1>4, <1>5, <1>6, Zenon DEF Next

LEMMA LagIsPositive == TypeOK => Lag \in Nat /\ Lag >= 1
BY Numbers DEF Lag

\* What a step on p leaves alone: every other push.
LEMMA OthersStay ==
  ASSUME TypeOK, NEW p \in PushIds, Receive(p) \/ Handle(p) \/ Upstream(p),
         NEW q \in PushIds, q # p
  PROVE  /\ pc'[q] = pc[q] /\ request'[q] = request[q] /\ evidence'[q] = evidence[q]
         /\ began'[q] = began[q] /\ scanDir'[q] = scanDir[q] /\ reply'[q] = reply[q]
         /\ upstream'[q] = upstream[q] /\ answer'[q] = answer[q] /\ mode' = mode /\ now' = now
<1> USE DEF TypeOK, modelVars, pushVars, At
<1>1. CASE Receive(p)
  BY <1>1 DEF Receive, Refuse, Respond
<1>2. CASE Extract(p) \/ CacheHit(p) \/ ScanBegins(p)
  BY <1>2 DEF Extract, GoOn, CacheHit, ScanBegins
<1>3. CASE ScanEnds(p)
  BY <1>3 DEF ScanEnds
<1>4. CASE ExtractFails(p) \/ Decide(p)
  BY <1>4 DEF ExtractFails, Decide, GoOn, Refuse, Respond
<1>5. CASE Forward(p) \/ Relay(p) \/ Upstream(p)
  BY <1>5 DEF Forward, Relay, Upstream, GoOn, Refuse, Respond
<1> QED BY <1>1, <1>2, <1>3, <1>4, <1>5 DEF Handle

\* The steps of p that leave a push forwarded or about to be: only the answer of a
\* scan and a hit in the cache add to these.
LEMMA WhoIsVouchedFor ==
  ASSUME TypeOK, Control, NEW p \in PushIds, Receive(p) \/ Handle(p) \/ Upstream(p), Vouched(p)'
  PROVE  /\ request'[p] = request[p]
         /\ \/ CacheHit(p) \/ ScanEnds(p)
            \/ Vouched(p) /\ evidence'[p] = evidence[p] /\ began'[p] = began[p]
<1> USE DEF TypeOK, Vouched, modelVars, pushVars, At
<1>1. ~Refusal(p)
  <2>1. ASSUME Refusal(p) PROVE FALSE
    <3>1. pc'[p] = "done" /\ upstream'[p] = upstream[p] /\ pc[p] \notin {"sent", "done"}
      BY <2>1 DEF Refusal, Refuse, Respond
    <3> QED BY <3>1 DEF Control
  <2> QED BY <2>1
<1>2. ASSUME Receive(p), At(p, "new", "unpacked"), upstream' = upstream PROVE FALSE
  BY <1>2 DEF Control
<1>3. ASSUME Extract(p) \/ ScanBegins(p) PROVE FALSE
  BY <1>3 DEF Extract, GoOn, ScanBegins, Control
<1>4. CASE CacheHit(p) \/ ScanEnds(p)
  BY <1>4 DEF CacheHit, ScanEnds
<1>5. CASE reply[p] = Approve /\ GoOn(p, "decide", "forward")
  BY <1>5 DEF GoOn
<1>6. CASE GoOn(p, "forward", "sent")
  BY <1>6 DEF GoOn
<1>7. CASE Relay(p) \/ Upstream(p)
  BY <1>7 DEF Relay, Respond, Upstream
<1> QED BY <1>1, <1>2, <1>3, <1>4, <1>5, <1>6, <1>7, HandlerSteps

LEMMA VouchersPureStays ==
  ASSUME TypeOK, Control, Dated, CachePure, VouchersPure, [Next]_vars
  PROVE  VouchersPure'
<1> USE DEF TypeOK, VouchersPure
<1>1. CASE Tick \/ UNCHANGED vars
  BY <1>1 DEF Tick, vars, modelVars, pushVars, Vouched, Lag
<1>2. ASSUME NEW o \in Objects, Discover(o) PROVE VouchersPure'
  <2>1. /\ UNCHANGED <<mode, now, pc, pushVars>> /\ since' = [since EXCEPT ![o] = now]
    BY <1>2 DEF Discover
  <2>2. ASSUME NEW q \in PushIds, Vouched(q), NEW x \in evidence[q].dir.tree
        PROVE  since'[x] + Lag > began[q]
    <3>1. x \in Objects
      BY <2>2 DEF Evidence, Dir
    <3>2. began[q] <= now /\ began[q] \in Nat /\ now \in Nat
      BY Numbers DEF Dated
    <3> QED BY <2>1, <2>2, <3>1, <3>2, LagIsPositive
  <2> QED BY <2>1, <2>2 DEF pushVars, Vouched, Lag
<1>3. ASSUME NEW p \in PushIds, Receive(p) \/ Handle(p) \/ Upstream(p) PROVE VouchersPure'
  <2>1. ASSUME NEW q \in PushIds, q # p, Vouched(q)'
        PROVE  Vouched(q) /\ evidence'[q] = evidence[q] /\ began'[q] = began[q]
    BY <1>3, <2>1, OthersStay DEF Vouched
  <2>2. mode' = mode /\ since' = since
    BY <1>3, HandlerSteps
    DEF Refusal, Refuse, GoOn, Extract, CacheHit, ScanBegins, ScanEnds, Relay, Upstream, modelVars
  <2>3. Lag' = Lag
    BY <2>2 DEF Lag
  <2>4. ASSUME Vouched(p)'
        PROVE  /\ evidence'[p] \in Evidence /\ evidence'[p].approved
               /\ \A o \in evidence'[p].dir.tree : since[o] + Lag > began'[p]
    <3>1. CASE Vouched(p) /\ evidence'[p] = evidence[p] /\ began'[p] = began[p]
      BY <3>1
    <3>2. CASE CacheHit(p)
      <4> DEFINE c == cache[ScanKey(p)]
      <4>1. /\ ScanKey(p) \in DOMAIN cache /\ mode.scan = "api" /\ now - c.at < TTL
            /\ evidence'[p] = c.evidence /\ began'[p] = now
        BY <3>2 DEF CacheHit, Hit
      <4>2. c.evidence \in Evidence /\ c.at \in Times /\ Lag = TTL + ScanMax
        BY <4>1 DEF Lag
      <4>3. /\ c.evidence.approved
            /\ \A o \in c.evidence.dir.tree : o \in Objects /\ since[o] >= c.evidence.began
            /\ c.at <= c.evidence.began + ScanMax
        BY <4>1, <4>2 DEF CachePure, Dated, Evidence, Dir
      <4>4. c.at \in Nat /\ c.evidence.began \in Nat /\ now \in Nat /\ \A o \in Objects : since[o] \in Nat
        BY <4>2, Numbers DEF Evidence
      <4> HIDE DEF c
      <4>5. \A o \in c.evidence.dir.tree : since[o] + Lag > now
        BY <4>1, <4>2, <4>3, <4>4, Numbers
      <4> QED BY <4>1, <4>2, <4>3, <4>5
    <3>3. CASE ScanEnds(p)
      <4>1. PICK r \in ScanReplies(p) :
              /\ reply'[p] = Approve => r = Approve /\ Pure(p)
              /\ SeenBy(p, r) \in Evidence
              /\ pc[p] = "scanning" /\ pc' = [pc EXCEPT ![p] = "decide"]
              /\ evidence' = [evidence EXCEPT ![p] = SeenBy(p, r)]
              /\ UNCHANGED <<began, upstream>>
        BY <3>3, ScanEndsStep, Zenon
      <4>2. reply'[p] = Approve
        BY <2>4, <4>1 DEF Vouched, Control
      <4>3. evidence'[p] = SeenBy(p, r) /\ began'[p] = began[p] /\ SeenBy(p, r) \in Evidence
        BY <4>1
      <4>4. r = Approve /\ Pure(p)
        BY <4>1, <4>2
      <4>5. SeenBy(p, r).approved
        BY <4>4 DEF SeenBy
      <4>6. ASSUME NEW o \in SeenBy(p, r).dir.tree PROVE since[o] + Lag > began[p]
        <5>1. o \in Objects /\ o \in scanDir[p].tree
          BY DEF SeenBy, Dir
        <5>2. since[o] >= began[p]
          BY <4>4, <5>1 DEF Pure
        <5>3. since[o] \in Nat /\ began[p] \in Nat
          BY <5>1, Numbers
        <5> QED BY <5>2, <5>3, LagIsPositive
      <4> QED BY <4>3, <4>5, <4>6
    <3> QED BY <1>3, <2>4, <3>1, <3>2, <3>3, WhoIsVouchedFor
  <2>5. ASSUME NEW q \in PushIds, Vouched(q)'
        PROVE  /\ evidence'[q] \in Evidence /\ evidence'[q].approved
               /\ \A o \in evidence'[q].dir.tree : since'[o] + Lag' > began'[q]
    <3>1. CASE q = p
      BY <2>2, <2>3, <2>4, <2>5, <3>1
    <3>2. CASE q # p
      BY <2>1, <2>2, <2>3, <2>5, <3>2
    <3> QED BY <3>1, <3>2
  <2> QED BY <2>5
<1>4. ASSUME Stop PROVE VouchersPure'
  <2>1. Lag' = Lag /\ since' = since
    BY <1>4, StopStep DEF Lag
  <2>2. ASSUME NEW q \in PushIds, Vouched(q)'
        PROVE  Vouched(q) /\ evidence'[q] = evidence[q] /\ began'[q] = began[q]
    <3>1. pc'[q] \in {"new", "done"} /\ upstream'[q] = upstream[q]
      BY <1>4, StopStep
    <3>2. upstream[q] # "none"
      BY <2>2, <3>1 DEF Vouched
    <3> QED BY <1>4, <3>2, StopStep DEF Vouched
  <2> QED BY <2>1, <2>2
<1> QED BY <1>1, <1>2, <1>3, <1>4, Zenon DEF Next

\* The directory of an extraction (git.go:extractRefsForScan).
LEMMA ExtractedIsRead ==
  ASSUME NEW p \in PushIds, request[p].cmds \in RefLists,
         NEW ok \in SUBSET {i \in DOMAIN refs(p) : Exportable(refs(p)[i].sha)}
  PROVE  ReadFor(Extracted(refs(p), ok), ScanKey(p))
<1>1. ScanKey(p).shas = Shas(refs(p))
  BY DEF ScanKey
<1>2. refs(p) = parsePushRefs(request[p].cmds)
  BY DEF refs
<1> QED BY <1>1, <1>2, Zenon DEF ReadFor

\* Where every archive succeeded and every ref had its own directory, nothing of the
\* push is missing.
LEMMA WholeAndApart ==
  ASSUME NEW dir, NEW key, ReadFor(dir, key), dir.whole, dir.apart, NEW i \in DOMAIN key.shas
  PROVE  key.shas[i] \in dir.tree
<1>1. PICK cmds \in RefLists :
        /\ Shas(parsePushRefs(cmds)) = key.shas
        /\ \E ok \in SUBSET DOMAIN parsePushRefs(cmds) : dir = Extracted(parsePushRefs(cmds), ok)
  BY DEF ReadFor
<1> DEFINE rs == parsePushRefs(cmds)
<1>2. PICK ok \in SUBSET DOMAIN rs : dir = Extracted(rs, ok)
  BY <1>1
<1>3. ok = DOMAIN rs /\ i \in DOMAIN rs /\ key.shas[i] = rs[i].sha
  BY <1>1, <1>2 DEF Extracted, Shas
<1>4. \A a, b \in DOMAIN rs : a # b => sanitizeRefDir(rs[a].ref) # sanitizeRefDir(rs[b].ref)
  BY <1>2 DEF Extracted
<1>5. i \in Shown(rs, ok)
  BY <1>3, <1>4, Zenon DEF Shown
<1> HIDE DEF rs
<1>6. dir.tree = {rs[j].sha : j \in Shown(rs, ok)}
  BY <1>2 DEF Extracted, rs
<1> QED BY <1>3, <1>5, <1>6

LEMMA AllReadStays ==
  ASSUME TypeOK, Control, AllRead, [Next]_vars
  PROVE  AllRead'
<1> USE DEF TypeOK, AllRead
<1>1. ASSUME UNCHANGED <<cache, pc, request, scanDir, evidence, reply, upstream>> PROVE AllRead'
  BY <1>1 DEF ScanKey, refs, Vouched
<1>2. CASE Tick \/ UNCHANGED vars \/ \E o \in Objects : Discover(o)
  BY <1>1, <1>2 DEF Tick, Discover, vars, pushVars
<1>3. ASSUME NEW p \in PushIds, Receive(p) \/ Handle(p) \/ Upstream(p) PROVE AllRead'
  <2>1. \A q \in PushIds : q # p =>
          /\ ScanKey(q)' = ScanKey(q) /\ (Vouched(q)' <=> Vouched(q))
          /\ evidence'[q] = evidence[q] /\ scanDir'[q] = scanDir[q] /\ pc'[q] = pc[q]
    BY <1>3, OthersStay DEF ScanKey, refs, Vouched
  <2>2. ASSUME pc'[p] \in {"extracted", "scanning"} PROVE ReadFor(scanDir'[p], ScanKey(p)')
    <3>1. Extract(p) \/ ScanBegins(p)
      <4>1. ASSUME Refusal(p) PROVE FALSE
        BY <2>2, <4>1 DEF Refusal, Refuse, Respond, At
      <4>2. ASSUME At(p, "new", "unpacked") PROVE FALSE
        BY <2>2, <4>2 DEF At
      <4>3. ASSUME CacheHit(p) \/ ScanEnds(p) \/ Relay(p) PROVE FALSE
        BY <2>2, <4>3 DEF CacheHit, ScanEnds, Relay, Respond, At
      <4>4. ASSUME GoOn(p, "decide", "forward") \/ GoOn(p, "forward", "sent") PROVE FALSE
        BY <2>2, <4>4 DEF GoOn, At
      <4>5. ASSUME Upstream(p) PROVE FALSE
        BY <2>2, <4>5 DEF Upstream, Control
      <4> QED BY <1>3, <4>1, <4>2, <4>3, <4>4, <4>5, HandlerSteps, Zenon
    <3>2. request' = request
      BY <3>1 DEF Extract, GoOn, ScanBegins
    <3>3. ScanKey(p)' = ScanKey(p)
      BY <3>2 DEF ScanKey, refs
    <3>4. CASE Extract(p)
      <4>1. PICK ok \in SUBSET {i \in DOMAIN refs(p) : Exportable(refs(p)[i].sha)} :
              scanDir' = [scanDir EXCEPT ![p] = Extracted(refs(p), ok)]
        BY <3>4 DEF Extract
      <4>2. scanDir'[p] = Extracted(refs(p), ok)
        BY <4>1
      <4>3. request[p].cmds \in RefLists
        BY <3>4 DEF Extract, GoOn, At, Control
      <4>4. ReadFor(Extracted(refs(p), ok), ScanKey(p))
        BY <4>3, ExtractedIsRead
      <4> QED BY <3>3, <4>2, <4>4
    <3>5. CASE ScanBegins(p)
      BY <3>3, <3>5 DEF ScanBegins, At
    <3> QED BY <3>1, <3>4, <3>5
  <2>3. ASSUME Vouched(p)' PROVE ReadFor(evidence'[p].dir, ScanKey(p)')
    <3>1. request'[p] = request[p] /\ ScanKey(p)' = ScanKey(p)
      BY <1>3, <2>3, WhoIsVouchedFor DEF ScanKey, refs
    <3>2. CASE Vouched(p) /\ evidence'[p] = evidence[p]
      BY <3>1, <3>2
    <3>3. CASE CacheHit(p)
      <4>1. ScanKey(p) \in DOMAIN cache /\ evidence'[p] = cache[ScanKey(p)].evidence
        BY <3>3 DEF CacheHit, Hit
      <4> QED BY <3>1, <4>1
    <3>4. CASE ScanEnds(p)
      <4>1. pc[p] = "scanning" /\ evidence'[p].dir = scanDir[p]
        BY <3>4 DEF ScanEnds, At, SeenBy
      <4> QED BY <3>1, <4>1
    <3> QED BY <1>3, <2>3, <3>2, <3>3, <3>4, WhoIsVouchedFor
  <2>4. ASSUME NEW k \in DOMAIN cache' PROVE ReadFor(cache'[k].evidence.dir, k)
    <3>1. CASE cache' = cache
      BY <3>1, <2>4
    <3>2. CASE ScanEnds(p)
      <4>1. PICK r \in ScanReplies(p) :
              /\ pc[p] = "scanning"
              /\ cache' = IF mode.scan = "api" /\ r = Approve THEN Stored(p, SeenBy(p, r)) ELSE cache
        BY <3>2, ScanEndsStep
      <4>2. CASE k \in DOMAIN cache /\ cache'[k] = cache[k]
        BY <4>2
      <4>3. CASE k = ScanKey(p) /\ cache'[k] = [at |-> now, evidence |-> SeenBy(p, r)]
        <5>1. cache'[k].evidence.dir = scanDir[p]
          BY <4>3 DEF SeenBy
        <5> QED BY <4>1, <4>3, <5>1
      <4> QED BY <2>4, <4>1, <4>2, <4>3 DEF Stored
    <3>3. ScanEnds(p) \/ cache' = cache
      BY <1>3, HandlerSteps DEF Refusal, Refuse, GoOn, Extract, CacheHit, ScanBegins, Relay, Upstream
    <3> QED BY <3>1, <3>2, <3>3
  <2> QED BY <2>1, <2>2, <2>3, <2>4
<1>4. ASSUME Stop PROVE AllRead'
  <2>1. DOMAIN cache' = {} /\ request' = request
    BY <1>4, StopStep
  <2>2. \A q \in PushIds : ScanKey(q)' = ScanKey(q)
    BY <2>1 DEF ScanKey, refs
  <2>3. \A q \in PushIds : pc'[q] \notin {"extracted", "scanning"}
    BY <1>4, StopStep
  <2>4. ASSUME NEW q \in PushIds, Vouched(q)' PROVE Vouched(q) /\ evidence'[q] = evidence[q]
    <3>1. pc'[q] \in {"new", "done"} /\ upstream'[q] = upstream[q]
      BY <1>4, StopStep
    <3>2. upstream[q] # "none"
      BY <2>4, <3>1 DEF Vouched
    <3> QED BY <1>4, <3>2, StopStep DEF Vouched
  <2> QED BY <2>1, <2>2, <2>3, <2>4
<1> QED BY <1>1, <1>2, <1>3, <1>4, Zenon DEF Next

LEMMA Initially == Init => IInv
<1> SUFFICES ASSUME Init PROVE IInv
  OBVIOUS
<1> USE Numbers DEF Init
<1>1. TypeOK
  <2>1. NoDir \in Dir /\ Fail \in Reply
    BY DEF NoDir, Dir, Fail, Reply
  <2>2. DOMAIN cache = {}
    OBVIOUS
  <2>3. /\ mode \in Modes /\ now \in Times /\ since \in [Objects -> Times \cup {Never}]
        /\ scanDir \in [PushIds -> Dir] /\ began \in [PushIds -> Times]
        /\ evidence \in [PushIds -> Evidence \cup {NoEvidence}] /\ reply \in [PushIds -> Reply]
    BY <2>1
  <2>4. /\ request \in [PushIds -> [repo : Repos, cmds : RefLists] \cup {NoRequest}]
        /\ upstream \in [PushIds -> {"none", "inflight", "applied", "rejected"}]
        /\ answer \in [PushIds -> Answers]
        /\ pc \in [PushIds -> {"new", "unpacked", "extracted", "scanning", "decide", "forward",
                               "sent", "done"}]
    BY DEF Answers, Refusals
  <2> QED BY <2>2, <2>3, <2>4 DEF TypeOK
<1>2. Control /\ Dated /\ CachePure
  BY DEF Control, Dated, CachePure
<1>3. VouchersPure /\ AllRead
  BY DEF VouchersPure, AllRead, Vouched
<1> QED BY <1>1, <1>2, <1>3 DEF IInv

LEMMA IInvStays == IInv /\ [Next]_vars => IInv'
BY Typing, ControlStays, DatedStays, CachePureStays, VouchersPureStays, AllReadStays, Zenon DEF IInv

LEMMA Invariance == Spec => []IInv
BY Initially, IInvStays, PTL DEF Spec

-----------------------------------------------------------------------------

(***************************************************************************)
(* For any number of concurrent pushes and any lifetimes: what the         *)
(* scanners have known to be bad for longer than the life of an approval   *)
(* and of a scan does not get through (config_client.go:180-220,           *)
(* handler.go:174-200).                                                    *)
(***************************************************************************)
THEOREM StaleApprovalsAreBounded == Spec => []KnownBadNeverLands
<1>1. IInv => KnownBadNeverLands
  BY DEF IInv, VouchersPure, Vouched, KnownBadNeverLands, Forwarded
<1> QED BY <1>1, Invariance, PTL

(***************************************************************************)
(* For any lists of refs: the scan that vouches for a push, its own or one *)
(* out of the cache, read nothing but objects of the push, and which of    *)
(* them is known: those that could be exported, whose archive succeeded    *)
(* and whose directory no later exported ref took.  The code drops an      *)
(* object in these ways only: a failure of the archive, which is not       *)
(* reported (git.go:126), and ref names that become the same directory     *)
(* (git.go:144-158, 173).  Where neither happened the scan read them all.  *)
(***************************************************************************)
VouchersAreAccounted == \A p \in PushIds : Forwarded(p) => ReadFor(evidence[p].dir, ScanKey(p))

THEOREM VouchersCoverThePush == Spec => [](VouchersAreAccounted /\ EvidenceCoversPush)
<1>1. IInv => VouchersAreAccounted
  BY DEF IInv, AllRead, Vouched, VouchersAreAccounted, Forwarded
<1>2. VouchersAreAccounted => EvidenceCoversPush
  <2> SUFFICES ASSUME VouchersAreAccounted, NEW p \in PushIds, Forwarded(p),
                      evidence[p].dir.whole, evidence[p].dir.apart, NEW i \in DOMAIN refs(p)
               PROVE  refs(p)[i].sha \in evidence[p].dir.tree
    BY DEF EvidenceCoversPush, Covered
  <2>1. ReadFor(evidence[p].dir, ScanKey(p))
    BY DEF VouchersAreAccounted
  <2>2. i \in DOMAIN ScanKey(p).shas /\ ScanKey(p).shas[i] = refs(p)[i].sha
    BY DEF ScanKey, Shas
  <2> QED BY <2>1, <2>2, WholeAndApart
<1> QED BY <1>1, <1>2, Invariance, PTL

\* Several refs are extracted only if each of them names a commit.
AllCommits(p) == Len(refs(p)) > 1 => \A i \in DOMAIN refs(p) : IsCommitish(refs(p)[i].sha)

Judged(p) == pc[p] \in {"extracted", "scanning", "decide", "forward", "sent"} \/ Forwarded(p)

JudgedInv ==
  \A p \in PushIds : Judged(p) => AllCommits(p) /\ answer[p] \notin Refusals

\* What a push that went upstream can be relied on for.
ForwardedIsSound ==
  \A p \in PushIds : Forwarded(p) =>
    /\ evidence[p] \in Evidence /\ evidence[p].approved
    /\ AllCommits(p)
    /\ answer[p] \notin Refusals

LEMMA JudgedStays == IInv /\ JudgedInv /\ [Next]_vars => JudgedInv'
<1> SUFFICES ASSUME IInv, JudgedInv, [Next]_vars PROVE JudgedInv'
  OBVIOUS
<1> USE DEF IInv, TypeOK
<1>1. CASE Tick \/ UNCHANGED vars \/ \E o \in Objects : Discover(o)
  <2>1. UNCHANGED <<pc, request, upstream, answer>>
    BY <1>1 DEF Tick, Discover, vars, pushVars
  <2> QED BY <2>1 DEF JudgedInv, Judged, AllCommits, refs, Forwarded
<1>2. ASSUME NEW p \in PushIds, Receive(p) \/ Handle(p) \/ Upstream(p) PROVE JudgedInv'
  <2>1. ASSUME NEW q \in PushIds, q # p, Judged(q)' PROVE AllCommits(q)' /\ answer'[q] \notin Refusals
    <3>1. /\ pc'[q] = pc[q] /\ request'[q] = request[q] /\ upstream'[q] = upstream[q]
          /\ answer'[q] = answer[q]
      BY <1>2, <2>1, OthersStay
    <3> QED BY <2>1, <3>1 DEF JudgedInv, Judged, AllCommits, refs, Forwarded
  <2>2. ASSUME Judged(p)' PROVE AllCommits(p)' /\ answer'[p] \notin Refusals
    <3>1. ASSUME Refusal(p) PROVE FALSE
      <4>1. pc'[p] = "done" /\ upstream' = upstream /\ pc[p] \notin {"sent", "done"}
        BY <3>1 DEF Refusal, Refuse, Respond, At
      <4> QED BY <2>2, <4>1 DEF Judged, Forwarded, Control
    <3>2. ASSUME At(p, "new", "unpacked"), upstream' = upstream PROVE FALSE
      BY <2>2, <3>2 DEF Judged, Forwarded, Control, At
    <3>3. CASE Extract(p)
      <4>1. request' = request /\ answer' = answer /\ pc[p] = "unpacked" /\ AllCommits(p)
        BY <3>3 DEF Extract, GoOn, At, AllCommits
      <4>2. answer[p] = "none"
        BY <4>1 DEF Control
      <4> QED BY <4>1, <4>2 DEF AllCommits, refs, Refusals
    <3>4. ASSUME Judged(p), request' = request, answer'[p] \in {answer[p], "relayed", "502"}
          PROVE  AllCommits(p)' /\ answer'[p] \notin Refusals
      BY <3>4 DEF JudgedInv, AllCommits, refs, Refusals
    <3>5. CASE CacheHit(p) \/ ScanBegins(p) \/ ScanEnds(p)
      BY <3>4, <3>5 DEF CacheHit, ScanBegins, ScanEnds, At, Judged
    <3>6. CASE GoOn(p, "decide", "forward") \/ GoOn(p, "forward", "sent")
      BY <3>4, <3>6 DEF GoOn, At, Judged
    <3>7. CASE Relay(p)
      BY <3>4, <3>7 DEF Relay, Respond, At, Judged
    <3>8. CASE Upstream(p)
      BY <3>4, <3>8 DEF Upstream, Judged, Forwarded
    <3> QED BY <1>2, <3>1, <3>2, <3>3, <3>5, <3>6, <3>7, <3>8, HandlerSteps, Zenon
  <2> QED BY <2>1, <2>2 DEF JudgedInv
<1>3. CASE Stop
  <2> SUFFICES ASSUME NEW p \in PushIds, Judged(p)'
               PROVE  AllCommits(p)' /\ answer'[p] \notin Refusals
    BY DEF JudgedInv
  <2>1. /\ request' = request /\ upstream' = upstream /\ answer'[p] \in {answer[p], "lost"}
        /\ pc'[p] \in {"new", "done"}
    BY <1>3, StopStep
  <2>2. Judged(p)
    BY <2>1 DEF Judged, Forwarded
  <2> QED BY <2>1, <2>2 DEF JudgedInv, AllCommits, refs, Refusals
<1> QED BY <1>1, <1>2, <1>3, Zenon DEF Next

(***************************************************************************)
(* A push that went upstream was approved by a scan, carried only commits  *)
(* if it carried several refs, and was not answered with a refusal,        *)
(* whatever was pushed beside it, failed or stopped.  Of a push of one ref *)
(* nothing says that it names a commit (git.go:126-200, handler.go:174).   *)
(***************************************************************************)
THEOREM WhatIsForwardedIsSound == Spec => []ForwardedIsSound
<1>1. Init => JudgedInv
  BY DEF Init, JudgedInv, Judged, Forwarded
<1>2. IInv /\ JudgedInv => ForwardedIsSound
  BY DEF IInv, VouchersPure, Vouched, JudgedInv, Judged, ForwardedIsSound, Forwarded
<1> QED BY <1>1, <1>2, JudgedStays, Invariance, PTL DEF Spec

\* Type correctness of the push handler and its cache (server/handler.go,
\* config_client.go).
THEOREM PushGateTyped == Spec => []TypeOK
<1>1. IInv => TypeOK
  BY DEF IInv
<1> QED BY <1>1, Invariance, PTL

-----------------------------------------------------------------------------

(***************************************************************************)
(* The refinement.                                                         *)
(***************************************************************************)

Ids    == [p \in PushIds |-> Identity(p)]
Stages == [p \in PushIds |-> Stage(p)]

IdentitySet ==
  [repo : Repos, shas : {Shas(parsePushRefs(c)) : c \in RefLists}]

\* An approval that the cache or a push holds.
LEMMA InApprovals ==
  \A a : a \in Approvals <=>
    \/ \E k \in DOMAIN cache : cache[k].evidence.approved /\ a = Approval(k, cache[k].evidence)
    \/ \E q \in PushIds : /\ evidence[q] # NoEvidence /\ evidence[q].approved
                          /\ a = Approval(Identity(q), evidence[q])
BY Zenon DEF Approvals

\* What a step on p does to the mapped variables: only the entries of p change.
LEMMA MappedStep ==
  ASSUME TypeOK, NEW p \in PushIds, Receive(p) \/ Handle(p) \/ Upstream(p)
  PROVE  /\ Ids' = [Ids EXCEPT ![p] = Identity(p)']
         /\ Stages' = [Stages EXCEPT ![p] = Stage(p)']
         /\ now' = now
         /\ \A q \in PushIds : q # p => evidence'[q] = evidence[q] /\ Identity(q)' = Identity(q)
<1>1. \A q \in PushIds : q # p =>
        Identity(q)' = Identity(q) /\ Stage(q)' = Stage(q) /\ evidence'[q] = evidence[q]
  BY OthersStay DEF Identity, ScanKey, refs, Stage
<1>2. now' = now
  BY HandlerSteps
  DEF Refusal, Refuse, GoOn, Extract, CacheHit, ScanBegins, ScanEnds, Relay, Upstream, modelVars
<1> QED BY <1>1, <1>2 DEF Ids, Stages

\* What p holds and the cache are the same: so are the approvals.
LEMMA SameApprovals ==
  ASSUME TypeOK, NEW p \in PushIds, Receive(p) \/ Handle(p) \/ Upstream(p), cache' = cache,
         evidence'[p] = evidence[p], evidence[p] = NoEvidence \/ Identity(p)' = Identity(p)
  PROVE  Approvals' = Approvals
<1>1. \A q \in PushIds : evidence'[q] = evidence[q] /\ (evidence[q] = NoEvidence \/ Identity(q)' = Identity(q))
  BY MappedStep
<1>2. \A a : a \in Approvals' <=>
        \/ \E k \in DOMAIN cache' : cache'[k].evidence.approved /\ a = Approval(k, cache'[k].evidence)
        \/ \E q \in PushIds : /\ evidence'[q] # NoEvidence /\ evidence'[q].approved
                              /\ a = Approval(Identity(q)', evidence'[q])
  BY Zenon DEF Approvals, Approval
<1>3. \A a : a \in Approvals' <=> a \in Approvals
  BY <1>1, <1>2, InApprovals
<1> QED BY <1>3

\* A push that is refused drops what it holds.
LEMMA FewerApprovals ==
  ASSUME TypeOK, NEW p \in PushIds, Receive(p) \/ Handle(p) \/ Upstream(p), cache' = cache,
         evidence'[p] = NoEvidence
  PROVE  Approvals' \subseteq Approvals
<1>1. \A q \in PushIds : q # p => evidence'[q] = evidence[q] /\ Identity(q)' = Identity(q)
  BY MappedStep
<1>2. \A a : a \in Approvals' <=>
        \/ \E k \in DOMAIN cache' : cache'[k].evidence.approved /\ a = Approval(k, cache'[k].evidence)
        \/ \E q \in PushIds : /\ evidence'[q] # NoEvidence /\ evidence'[q].approved
                              /\ a = Approval(Identity(q)', evidence'[q])
  BY Zenon DEF Approvals, Approval
<1>3. \A a : a \in Approvals' => a \in Approvals
  BY <1>1, <1>2, InApprovals
<1> QED BY <1>3

\* A step on p that maps to nothing.
LEMMA MappedStutter ==
  ASSUME TypeOK, NEW p \in PushIds, Receive(p) \/ Handle(p) \/ Upstream(p), cache' = cache,
         evidence'[p] = evidence[p], Identity(p)' = Identity(p), Stage(p)' = Stage(p)
  PROVE  UNCHANGED <<now, Ids, Approvals, Stages>>
<1>1. /\ Ids' = [Ids EXCEPT ![p] = Identity(p)'] /\ Stages' = [Stages EXCEPT ![p] = Stage(p)']
      /\ now' = now
  BY MappedStep
<1>2. Ids' = Ids /\ Stages' = Stages
  BY <1>1 DEF Ids, Stages
<1>3. Approvals' = Approvals
  BY SameApprovals
<1> QED BY <1>1, <1>2, <1>3

\* The abstract steps, in terms of what they do to the mapped variables.
AbstractStep ==
  \/ now' = now + 1 /\ UNCHANGED <<Ids, Approvals, Stages>>
  \/ /\ \E lost \in SUBSET {p \in PushIds : Stages[p] \in {"open", "cleared"}} :
            Stages' = [p \in PushIds |-> IF p \in lost THEN "refused" ELSE Stages[p]]
     /\ Approvals' \subseteq Approvals
     /\ UNCHANGED <<now, Ids>>
  \/ \E p \in PushIds :
       \/ /\ Ids[p] = NoRequest
          /\ \E i \in IdentitySet : Ids' = [Ids EXCEPT ![p] = i]
          /\ UNCHANGED <<now, Approvals, Stages>>
       \/ /\ Stages[p] = "open"
          /\ Approvals' \subseteq Approvals \cup [identity : {Ids[p]}, at : 0 .. now]
          /\ \E a \in Approvals' : a.identity = Ids[p] /\ now - a.at < TTL + ScanMax
          /\ Stages' = [Stages EXCEPT ![p] = "cleared"]
          /\ UNCHANGED <<now, Ids>>
       \/ /\ Stages[p] \in {"open", "cleared"}
          /\ Stages' = [Stages EXCEPT ![p] = "refused"]
          /\ Approvals' \subseteq Approvals
          /\ UNCHANGED now
          /\ \/ UNCHANGED Ids
             \/ Ids[p] = NoRequest /\ \E i \in IdentitySet : Ids' = [Ids EXCEPT ![p] = i]
       \/ /\ Stages[p] = "cleared"
          /\ Stages' = [Stages EXCEPT ![p] = "forwarded"]
          /\ UNCHANGED <<now, Ids, Approvals>>
       \/ /\ Stages[p] = "forwarded"
          /\ Stages' = [Stages EXCEPT ![p] = "applied"]
          /\ UNCHANGED <<now, Ids, Approvals>>
  \/ UNCHANGED <<now, Ids, Approvals, Stages>>

LEMMA AbstractStepIsPromised == AbstractStep => [Promise!Next]_(Promise!vars)
BY DEF AbstractStep, Ids, Stages, IdentitySet, Promise!Next, Promise!vars, Promise!Tick, Promise!Stop,
   Promise!Arrive, Promise!Clear, Promise!Fresh, Promise!Refuse, Promise!Forward, Promise!Apply

\* The identity of a push that arrives.
LEMMA ArrivedIdentity ==
  ASSUME TypeOK, Control, NEW p \in PushIds, Receive(p)
  PROVE  /\ Identity(p) = NoRequest /\ Identity(p)' \in IdentitySet
<1>1. request[p] = NoRequest
  BY DEF Receive, Refuse, Respond, At, Control
<1>2. PICK r \in Repos, c \in RefLists : request'[p] = [repo |-> r, cmds |-> c]
  BY DEF Receive, TypeOK
<1>3. request'[p] # NoRequest
  BY <1>2, NullAssumption DEF NullAssumption
<1>4. Identity(p)' = [repo |-> r, shas |-> Shas(parsePushRefs(c))]
  BY <1>2, <1>3 DEF Identity, ScanKey, refs
<1> QED BY <1>1, <1>4 DEF Identity, IdentitySet

LEMMA RefusalIsRefuse ==
  ASSUME IInv, NEW p \in PushIds, Receive(p) \/ Handle(p) \/ Upstream(p), Refusal(p),
         request' = request \/ Receive(p)
  PROVE  AbstractStep
<1> USE DEF IInv
<1>1. PICK from \in {"new", "unpacked", "decide", "forward"}, status \in Refusals :
        Refuse(p, from, status)
  BY DEF Refusal
<1>2. /\ pc[p] = from /\ answer'[p] = status /\ evidence'[p] = NoEvidence
      /\ UNCHANGED <<now, cache, upstream>>
  BY <1>1 DEF Refuse, Respond, At, TypeOK, modelVars
<1>3. upstream[p] = "none" /\ answer[p] = "none"
  BY <1>2 DEF Control
<1>4. Stage(p) \in {"open", "cleared"} /\ Stage(p)' = "refused"
  BY <1>2, <1>3 DEF Stage, Refusals
<1>5. /\ Ids' = [Ids EXCEPT ![p] = Identity(p)'] /\ Stages' = [Stages EXCEPT ![p] = Stage(p)']
  BY MappedStep
<1>6. Approvals' \subseteq Approvals
  BY <1>2, FewerApprovals
<1>7. UNCHANGED Ids \/ (Ids[p] = NoRequest /\ \E i \in IdentitySet : Ids' = [Ids EXCEPT ![p] = i])
  <2>1. CASE request' = request
    <3>1. Identity(p)' = Identity(p)
      BY <2>1 DEF Identity, ScanKey, refs
    <3> QED BY <1>5, <3>1 DEF Ids
  <2>2. CASE Receive(p)
    BY <1>5, <2>2, ArrivedIdentity DEF Ids
  <2> QED BY <2>1, <2>2
<1>8. Stages[p] \in {"open", "cleared"} /\ Stages' = [Stages EXCEPT ![p] = "refused"]
  BY <1>4, <1>5 DEF Stages
<1> QED BY <1>2, <1>6, <1>7, <1>8 DEF AbstractStep

LEMMA ApprovalIsClear ==
  ASSUME IInv, NEW p \in PushIds, CacheHit(p) \/ ScanEnds(p), reply'[p] = Approve
  PROVE  AbstractStep
<1> USE DEF IInv
<1>0. Receive(p) \/ Handle(p) \/ Upstream(p)
  BY DEF Handle
<1>1. /\ pc[p] \in {"extracted", "scanning"} /\ pc'[p] = "decide"
      /\ UNCHANGED <<now, request, upstream, answer>>
  BY DEF CacheHit, ScanEnds, At, TypeOK, modelVars
<1>2. upstream[p] = "none" /\ answer[p] = "none" /\ request[p] # NoRequest /\ evidence[p] = NoEvidence
  BY <1>1 DEF Control
<1>3. Stage(p) = "open" /\ Stage(p)' = "cleared"
  BY <1>1, <1>2 DEF Stage, Refusals
<1>4. Identity(p)' = Identity(p) /\ Identity(p) = ScanKey(p)
  BY <1>1, <1>2 DEF Identity, ScanKey, refs
<1>5. Ids' = Ids /\ Ids[p] = ScanKey(p) /\ Stages[p] = "open" /\ Stages' = [Stages EXCEPT ![p] = "cleared"]
  BY <1>0, <1>3, <1>4, MappedStep DEF Ids, Stages
<1>6. /\ Approvals' \subseteq Approvals \cup [identity : {Ids[p]}, at : 0 .. now]
      /\ \E a \in Approvals' : a.identity = Ids[p] /\ now - a.at < TTL + ScanMax
  <2>0. \A a : a \in Approvals' <=>
          \/ \E k \in DOMAIN cache' : cache'[k].evidence.approved /\ a = Approval(k, cache'[k].evidence)
          \/ \E q \in PushIds : /\ evidence'[q] # NoEvidence /\ evidence'[q].approved
                                /\ a = Approval(Identity(q)', evidence'[q])
    BY Zenon DEF Approvals, Approval
  <2>1. \A q \in PushIds : q # p => evidence'[q] = evidence[q] /\ Identity(q)' = Identity(q)
    BY <1>0, MappedStep
  <2>2. \A k, e : Approval(k, e).identity = k /\ Approval(k, e).at = e.began
    BY DEF Approval
  <2>3. CASE CacheHit(p)
    <3> DEFINE c == cache[ScanKey(p)]
    <3>1. /\ ScanKey(p) \in DOMAIN cache /\ now - c.at < TTL /\ cache' = cache
          /\ evidence'[p] = c.evidence
      BY <2>3 DEF CacheHit, Hit, TypeOK
    <3>2. c.evidence.approved /\ c.at <= c.evidence.began + ScanMax
      BY <3>1 DEF CachePure, Dated
    <3>3. c.at \in Nat /\ c.evidence.began \in Nat /\ now \in Nat
      BY <3>1, Numbers DEF TypeOK, Evidence
    <3>4. now - c.evidence.began < TTL + ScanMax
      <4> HIDE DEF c
      <4> QED BY <3>1, <3>2, <3>3, Numbers
    <3>5. Approval(ScanKey(p), c.evidence) \in Approvals'
      BY <2>0, <3>1, <3>2
    <3>6. Approvals' \subseteq Approvals
      BY <1>4, <2>0, <2>1, <3>1, <3>2, InApprovals
    <3> QED BY <1>5, <2>2, <3>4, <3>5, <3>6
  <2>4. CASE ScanEnds(p)
    <3>1. PICK r \in ScanReplies(p) :
            /\ pc[p] = "scanning" /\ SeenBy(p, r) \in Evidence
            /\ reply'[p] = Approve => r = Approve /\ Pure(p)
            /\ evidence' = [evidence EXCEPT ![p] = SeenBy(p, r)]
            /\ cache' = IF mode.scan = "api" /\ r = Approve THEN Stored(p, SeenBy(p, r)) ELSE cache
      BY <2>4, ScanEndsStep DEF TypeOK
    <3> DEFINE e == SeenBy(p, r)
               new == Approval(ScanKey(p), e)
    <3>2. evidence'[p] = e /\ e # NoEvidence /\ e.approved /\ e.began = began[p]
      BY <3>1, NullAssumption DEF TypeOK, SeenBy, NullAssumption
    <3>3. began[p] \in Nat /\ began[p] <= now /\ now <= began[p] + ScanMax /\ now \in Nat
      BY <3>1, Numbers DEF TypeOK, Dated
    <3>4. new \in [identity : {Ids[p]}, at : 0 .. now]
      BY <1>5, <3>2, <3>3 DEF Approval
    <3> HIDE DEF e
    <3>5. new \in Approvals'
      BY <1>4, <2>0, <3>2
    <3>6. \A k \in DOMAIN cache' : (k \in DOMAIN cache /\ cache'[k] = cache[k])
                                      \/ (k = ScanKey(p) /\ cache'[k].evidence = e)
      BY <3>1 DEF Stored, e
    <3>7. \A a \in Approvals' : a \in Approvals \/ a = new
      BY <1>4, <2>0, <2>1, <3>2, <3>6, InApprovals
    <3>8. new.identity = Ids[p] /\ new.at = began[p]
      BY <1>5, <2>2, <3>2
    <3> HIDE DEF new
    <3>9. now - new.at < TTL + ScanMax
      BY <3>3, <3>8, Numbers
    <3> QED BY <3>4, <3>5, <3>7, <3>8, <3>9
  <2> QED BY <2>3, <2>4
<1> QED BY <1>1, <1>5, <1>6 DEF AbstractStep

LEMMA HandlerIsMapped ==
  ASSUME IInv, NEW p \in PushIds, Receive(p) \/ Handle(p) \/ Upstream(p)
  PROVE  AbstractStep
<1> USE DEF IInv
<1>1. CASE Refusal(p) /\ (request' = request \/ Receive(p))
  BY <1>1, RefusalIsRefuse
<1>2. CASE Receive(p) /\ At(p, "new", "unpacked")
           /\ UNCHANGED <<modelVars, cache, scanDir, began, evidence, reply, upstream, answer>>
  <2>1. evidence[p] = NoEvidence /\ upstream[p] = "none" /\ answer[p] = "none"
    BY <1>2 DEF At, Control
  <2>2. Approvals' = Approvals
    BY <1>2, <2>1, SameApprovals
  <2>3. Stage(p) = "open" /\ Stage(p)' = "open"
    BY <1>2, <2>1 DEF Stage, Refusals, At, TypeOK
  <2>4. /\ Ids' = [Ids EXCEPT ![p] = Identity(p)'] /\ Stages' = [Stages EXCEPT ![p] = Stage(p)']
        /\ now' = now
    BY MappedStep
  <2>5. Stages' = Stages
    BY <2>3, <2>4 DEF Stages
  <2>6. Ids[p] = NoRequest /\ Identity(p)' \in IdentitySet
    BY <1>2, ArrivedIdentity DEF Ids
  <2> QED BY <2>2, <2>4, <2>5, <2>6 DEF AbstractStep
<1>3. CASE Extract(p) \/ ScanBegins(p)
  <2>1. /\ pc[p] \in {"unpacked", "extracted"} /\ pc'[p] \in {"extracted", "scanning"}
        /\ UNCHANGED <<cache, request, evidence, upstream, answer>>
    BY <1>3 DEF Extract, GoOn, ScanBegins, At, TypeOK
  <2>2. Identity(p)' = Identity(p) /\ Stage(p)' = Stage(p)
    BY <2>1 DEF Identity, ScanKey, refs, Stage
  <2> QED BY <2>1, <2>2, MappedStutter DEF AbstractStep
<1>4. CASE CacheHit(p)
  <2>1. reply'[p] = Approve
    BY <1>4 DEF CacheHit, TypeOK
  <2> QED BY <1>4, <2>1, ApprovalIsClear
<1>5. CASE ScanEnds(p)
  <2>1. CASE reply'[p] = Approve
    BY <1>5, <2>1, ApprovalIsClear
  <2>2. CASE reply'[p] # Approve
    <3>1. PICK r \in ScanReplies(p) :
            /\ pc[p] = "scanning" /\ pc' = [pc EXCEPT ![p] = "decide"]
            /\ reply' = [reply EXCEPT ![p] = IF r.err THEN FailReply ELSE r]
            /\ evidence' = [evidence EXCEPT ![p] = SeenBy(p, r)]
            /\ cache' = IF mode.scan = "api" /\ r = Approve THEN Stored(p, SeenBy(p, r)) ELSE cache
            /\ UNCHANGED <<request, upstream, answer>>
      BY <1>5, ScanEndsStep DEF TypeOK
    <3>2. r # Approve
      <4>1. reply'[p] = IF r.err THEN FailReply ELSE r
        BY <3>1 DEF TypeOK
      <4>2. Approve.err = FALSE
        BY DEF Approve
      <4> QED BY <2>2, <4>1, <4>2
    <3>3. cache' = cache /\ evidence'[p] = SeenBy(p, r) /\ ~SeenBy(p, r).approved
      BY <3>1, <3>2 DEF SeenBy, TypeOK
    <3>4. evidence[p] = NoEvidence /\ pc'[p] = "decide"
      BY <3>1 DEF Control, TypeOK
    <3>5. Identity(p)' = Identity(p)
      BY <3>1 DEF Identity, ScanKey, refs
    <3>6. Stage(p)' = Stage(p)
      BY <2>2, <3>1, <3>4 DEF Stage
    <3>7. /\ Ids' = [Ids EXCEPT ![p] = Identity(p)'] /\ Stages' = [Stages EXCEPT ![p] = Stage(p)']
          /\ now' = now
          /\ \A q \in PushIds : q # p => evidence'[q] = evidence[q] /\ Identity(q)' = Identity(q)
      BY MappedStep DEF Handle
    <3>8. \A a : a \in Approvals' <=>
            \/ \E k \in DOMAIN cache' : cache'[k].evidence.approved /\ a = Approval(k, cache'[k].evidence)
            \/ \E q \in PushIds : /\ evidence'[q] # NoEvidence /\ evidence'[q].approved
                                  /\ a = Approval(Identity(q)', evidence'[q])
      BY Zenon DEF Approvals, Approval
    <3>9. \A a : a \in Approvals' <=> a \in Approvals
      BY <3>3, <3>4, <3>7, <3>8, InApprovals
    <3>10. Approvals' = Approvals
      BY <3>9
    <3>11. Ids' = Ids /\ Stages' = Stages
      BY <3>5, <3>6, <3>7 DEF Ids, Stages
    <3> QED BY <3>7, <3>10, <3>11 DEF AbstractStep
  <2> QED BY <2>1, <2>2
<1>6. CASE reply[p] = Approve /\ GoOn(p, "decide", "forward") /\ UNCHANGED <<scanDir, upstream>>
  <2>1. /\ pc[p] = "decide" /\ pc'[p] = "forward"
        /\ UNCHANGED <<cache, request, evidence, upstream, answer>>
    BY <1>6 DEF GoOn, At, TypeOK
  <2>2. Identity(p)' = Identity(p) /\ Stage(p)' = Stage(p)
    BY <1>6, <2>1 DEF Identity, ScanKey, refs, Stage
  <2> QED BY <2>1, <2>2, MappedStutter DEF AbstractStep
<1>7. CASE /\ GoOn(p, "forward", "sent") /\ scanDir' = scanDir
           /\ upstream' = [upstream EXCEPT ![p] = "inflight"]
  <2>1. /\ pc[p] = "forward" /\ upstream'[p] = "inflight"
        /\ UNCHANGED <<cache, request, evidence, answer>>
    BY <1>7 DEF GoOn, At, TypeOK
  <2>2. upstream[p] = "none" /\ answer[p] = "none"
    BY <2>1 DEF Control
  <2>3. Identity(p)' = Identity(p) /\ Stage(p) = "cleared" /\ Stage(p)' = "forwarded"
    BY <2>1, <2>2 DEF Identity, ScanKey, refs, Stage, Refusals
  <2>4. /\ Ids' = [Ids EXCEPT ![p] = Identity(p)'] /\ Stages' = [Stages EXCEPT ![p] = Stage(p)']
        /\ now' = now
    BY MappedStep
  <2>5. Approvals' = Approvals
    BY <2>1, <2>3, SameApprovals
  <2> QED BY <2>3, <2>4, <2>5 DEF AbstractStep, Ids, Stages
<1>8. CASE Relay(p)
  <2>1. /\ pc[p] = "sent" /\ pc'[p] = "done" /\ answer'[p] \in {"relayed", "502"}
        /\ UNCHANGED <<cache, request, evidence, upstream>>
    BY <1>8 DEF Relay, Respond, At, TypeOK
  <2>2. answer[p] = "none"
    BY <2>1 DEF Control
  <2>3. Identity(p)' = Identity(p) /\ Stage(p)' = Stage(p)
    BY <2>1, <2>2 DEF Identity, ScanKey, refs, Stage, Refusals
  <2> QED BY <2>1, <2>3, MappedStutter DEF AbstractStep, Handle
<1>9. CASE Upstream(p)
  <2>1. /\ upstream[p] = "inflight" /\ upstream'[p] \in {"applied", "rejected"}
        /\ UNCHANGED <<cache, request, evidence, pc, answer>>
    BY <1>9 DEF Upstream, TypeOK
  <2>2. Identity(p)' = Identity(p) /\ Stage(p) = "forwarded"
    BY <2>1 DEF Identity, ScanKey, refs, Stage
  <2>3. CASE upstream'[p] = "rejected"
    <3>1. Stage(p)' = Stage(p)
      BY <2>2, <2>3 DEF Stage
    <3> QED BY <2>1, <2>2, <3>1, MappedStutter DEF AbstractStep
  <2>4. CASE upstream'[p] = "applied"
    <3>1. Stage(p)' = "applied"
      BY <2>4 DEF Stage
    <3>2. /\ Ids' = [Ids EXCEPT ![p] = Identity(p)'] /\ Stages' = [Stages EXCEPT ![p] = Stage(p)']
          /\ now' = now
      BY MappedStep
    <3>3. Approvals' = Approvals
      BY <2>1, <2>2, SameApprovals
    <3> QED BY <2>2, <3>1, <3>2, <3>3 DEF AbstractStep, Ids, Stages
  <2> QED BY <2>1, <2>3, <2>4
<1> QED BY <1>1, <1>2, <1>3, <1>4, <1>5, <1>6, <1>7, <1>8, <1>9, HandlerSteps

\* A stop refuses what was not sent and forgets approvals.
LEMMA StopIsMapped ==
  ASSUME IInv, Stop
  PROVE  AbstractStep
<1>0. TypeOK /\ Control
  BY DEF IInv
<1>1. /\ DOMAIN cache' = {} /\ now' = now /\ request' = request
      /\ \A q \in PushIds : evidence'[q] \in {evidence[q], NoEvidence}
  BY <1>0, StopStep
<1>2. \A q \in PushIds : Identity(q)' = Identity(q)
  BY <1>1 DEF Identity, ScanKey, refs
<1>3. Ids' = Ids
  BY <1>2 DEF Ids
<1> DEFINE lost == {q \in Handled : upstream[q] = "none"}
<1>4. ASSUME NEW q \in PushIds
      PROVE  /\ q \in lost => Stage(q) \in {"open", "cleared"}
             /\ Stage(q)' = IF q \in lost THEN "refused" ELSE Stage(q)
  <2>1. /\ upstream'[q] = upstream[q] /\ pc'[q] = (IF q \in Handled THEN "done" ELSE pc[q])
        /\ answer'[q] = (IF q \in Handled THEN "lost" ELSE answer[q])
        /\ q \in Handled <=> pc[q] \notin {"new", "done"}
    BY <1>0, StopStep
  <2>2. CASE upstream[q] # "none"
    BY <2>1, <2>2 DEF Stage
  <2>3. CASE upstream[q] = "none" /\ q \notin Handled
    <3>1. pc[q] \in {"new", "done"} /\ pc'[q] = pc[q] /\ answer'[q] = answer[q]
      BY <2>1, <2>3
    <3> QED BY <2>1, <2>3, <3>1 DEF Stage
  <2>4. CASE upstream[q] = "none" /\ q \in Handled
    <3>1. answer[q] = "none"
      BY <1>0, <2>1, <2>4 DEF Control
    <3> QED BY <2>1, <2>4, <3>1 DEF Stage, Refusals
  <2> QED BY <2>2, <2>3, <2>4
<1>5. /\ lost \in SUBSET {q \in PushIds : Stages[q] \in {"open", "cleared"}}
      /\ Stages' = [q \in PushIds |-> IF q \in lost THEN "refused" ELSE Stages[q]]
  BY <1>4 DEF Stages, Handled
<1>6. \A a : a \in Approvals' <=>
        \/ \E k \in DOMAIN cache' : cache'[k].evidence.approved /\ a = Approval(k, cache'[k].evidence)
        \/ \E q \in PushIds : /\ evidence'[q] # NoEvidence /\ evidence'[q].approved
                              /\ a = Approval(Identity(q)', evidence'[q])
  BY Zenon DEF Approvals, Approval
<1>7. \A a : a \in Approvals' => a \in Approvals
  BY <1>1, <1>2, <1>6, InApprovals
<1>8. \E s \in SUBSET {q \in PushIds : Stages[q] \in {"open", "cleared"}} :
        Stages' = [q \in PushIds |-> IF q \in s THEN "refused" ELSE Stages[q]]
  BY <1>5, Zenon
<1> QED BY <1>1, <1>3, <1>7, <1>8, Zenon DEF AbstractStep

LEMMA StepIsMapped ==
  ASSUME IInv, [Next]_vars
  PROVE  AbstractStep
<1>1. CASE UNCHANGED <<cache, pc, pushVars>> /\ now' \in {now, now + 1}
  <2>1. /\ \A q \in PushIds : Identity(q)' = Identity(q) /\ Stage(q)' = Stage(q)
        /\ UNCHANGED <<evidence, cache>>
    BY <1>1 DEF pushVars, Identity, ScanKey, refs, Stage
  <2>2. Ids' = Ids /\ Stages' = Stages
    BY <2>1 DEF Ids, Stages
  <2>3. \A a : a \in Approvals' <=>
          \/ \E k \in DOMAIN cache' : cache'[k].evidence.approved /\ a = Approval(k, cache'[k].evidence)
          \/ \E q \in PushIds : /\ evidence'[q] # NoEvidence /\ evidence'[q].approved
                                /\ a = Approval(Identity(q)', evidence'[q])
    BY Zenon DEF Approvals, Approval
  <2>4. \A a : a \in Approvals' <=> a \in Approvals
    BY <2>1, <2>3, InApprovals
  <2>5. Approvals' = Approvals
    BY <2>4
  <2> QED BY <1>1, <2>2, <2>5 DEF AbstractStep
<1>2. CASE Tick \/ UNCHANGED vars \/ \E o \in Objects : Discover(o)
  BY <1>1, <1>2 DEF Tick, Discover, vars, modelVars
<1>3. CASE Stop
  BY <1>3, StopIsMapped
<1> QED BY <1>2, <1>3, HandlerIsMapped, Zenon DEF Next

(***************************************************************************)
(* Whatever pushes, retries, failed scans and expiring approvals there     *)
(* are: a push goes upstream only on a fresh approval of a scan of the     *)
(* same repository and the same objects, and never after it was refused    *)
(* (handler.go:150-240, config_client.go:180-220).                         *)
(***************************************************************************)
THEOREM PushesAreVerified == Spec => ImplementsVerifiedPush
<1>1. Init => Promise!Init
  <2> SUFFICES ASSUME Init PROVE Promise!Init
    OBVIOUS
  <2>1. \A q \in PushIds : Identity(q) = NoRequest /\ Stage(q) = "open"
    BY DEF Init, Identity, Stage, Refusals
  <2>2. Approvals = {}
    BY InApprovals DEF Init
  <2> QED BY <2>1, <2>2 DEF Init, Promise!Init
<1>2. IInv /\ [Next]_vars => [Promise!Next]_(Promise!vars)
  BY StepIsMapped, AbstractStepIsPromised
<1> QED BY <1>1, <1>2, Invariance, PTL DEF Spec, ImplementsVerifiedPush, Promise!Spec
=============================================================================
