---------------------------- MODULE VerifiedPush ----------------------------
(***************************************************************************)
(* What the git proxy promises, without directories, caches or retries: a  *)
(* push is let through to the upstream repository only on the approval of  *)
(* a scan of the same repository and the same objects, begun within        *)
(* Staleness time units, and a push that was refused never gets there.     *)
(***************************************************************************)
EXTENDS Integers

CONSTANTS
  PushIds,     \* requests
  Identities,  \* repository and pushed objects, as a scan names them
  Staleness,   \* how old an approval may be
  NoRequest

VARIABLES
  now,         \* the clock
  identity,    \* what each request pushes, NoRequest before it arrives
  approvals,   \* the approvals of scans, with the time each scan began
  stage        \* what became of each request

vars == <<now, identity, approvals, stage>>

Init ==
  /\ now = 0
  /\ identity = [p \in PushIds |-> NoRequest]
  /\ approvals = {}
  /\ stage = [p \in PushIds |-> "open"]

Arrive(p) ==
  /\ identity[p] = NoRequest
  /\ \E i \in Identities : identity' = [identity EXCEPT ![p] = i]
  /\ UNCHANGED <<now, approvals, stage>>

Fresh(a) == now - a.at < Staleness

\* The request is cleared by an approval, perhaps the one of its own scan.
\* Approvals may be forgotten.
Clear(p) ==
  /\ stage[p] = "open"
  /\ approvals' \subseteq approvals \cup [identity : {identity[p]}, at : 0 .. now]
  /\ \E a \in approvals' : a.identity = identity[p] /\ Fresh(a)
  /\ stage' = [stage EXCEPT ![p] = "cleared"]
  /\ UNCHANGED <<now, identity>>

Refuse(p) ==
  /\ stage[p] \in {"open", "cleared"}
  /\ stage' = [stage EXCEPT ![p] = "refused"]
  /\ approvals' \subseteq approvals
  /\ UNCHANGED now
  /\ \/ UNCHANGED identity
     \/ identity[p] = NoRequest /\ \E i \in Identities : identity' = [identity EXCEPT ![p] = i]

Forward(p) ==
  /\ stage[p] = "cleared"
  /\ stage' = [stage EXCEPT ![p] = "forwarded"]
  /\ UNCHANGED <<now, identity, approvals>>

Apply(p) ==
  /\ stage[p] = "forwarded"
  /\ stage' = [stage EXCEPT ![p] = "applied"]
  /\ UNCHANGED <<now, identity, approvals>>

\* The proxy stops: what it had in hand and not sent is refused for good.
Stop ==
  /\ \E lost \in SUBSET {p \in PushIds : stage[p] \in {"open", "cleared"}} :
       stage' = [p \in PushIds |-> IF p \in lost THEN "refused" ELSE stage[p]]
  /\ approvals' \subseteq approvals
  /\ UNCHANGED <<now, identity>>

Tick == now' = now + 1 /\ UNCHANGED <<identity, approvals, stage>>

Next == Tick \/ Stop \/ \E p \in PushIds : Arrive(p) \/ Clear(p) \/ Refuse(p) \/ Forward(p) \/ Apply(p)

Spec == Init /\ [][Next]_vars
=============================================================================
