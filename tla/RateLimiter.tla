----------------------------- MODULE RateLimiter -----------------------------
(***************************************************************************)
(* The push rate limiter (services/git-proxy/server/config_client.go): a   *)
(* map from client address to the times of its granted requests, filtered  *)
(* by Allow at every request and swept in the background so that it does   *)
(* not grow.  Both run under the mutex of the limiter and read the clock   *)
(* inside it, so each is one step.                                         *)
(*                                                                         *)
(* A slice of times is the set of the granted calls with their times: its  *)
(* order is never used, and two calls in one tick of the clock stay two.   *)
(***************************************************************************)
EXTENDS Integers, FiniteSets

CONSTANTS
  Clients,      \* client addresses
  MaxRequests,  \* 5 in handleReceivePack
  Window,       \* one minute in handleReceivePack
  Horizon,      \* one hour: how long sweep keeps a time
  NoReply,
  MaxNow,       \* bound on the clock
  MaxCalls      \* bound on the number of requests

ASSUME RateLimiterAssumption ==
  /\ MaxRequests \in Nat \ {0}
  /\ Window \in Nat \ {0}
  /\ Horizon \in Nat
  /\ Horizon >= Window
  /\ MaxNow \in Nat
  /\ MaxCalls \in Nat

VARIABLES
  now,       \* time.Now()
  clients,   \* rl.clients
  calls,     \* the number of requests so far
  granted,   \* history: every request ever granted to a client
  reply      \* history: the last request and its answer

vars == <<now, clients, calls, granted, reply>>

Stamp == [call : Nat, at : Nat]

TypeOK ==
  /\ now \in Nat
  /\ DOMAIN clients \subseteq Clients
  /\ \A c \in DOMAIN clients : clients[c] \subseteq Stamp
  /\ calls \in Nat
  /\ granted \in [Clients -> SUBSET Stamp]
  /\ reply \in [client : Clients, granted : BOOLEAN] \cup {NoReply}

Init ==
  /\ now = 0
  /\ clients = [c \in {} |-> {}]
  /\ calls = 0
  /\ granted = [c \in Clients |-> {}]
  /\ reply = NoReply

-----------------------------------------------------------------------------

\* t.After(now.Add(-span))
Valid(stamps, span) == {s \in stamps : s.at > now - span}

\* clients with the entry of c set to stamps.
Entry(c, stamps) ==
  [d \in DOMAIN clients \cup {c} |-> IF d = c THEN stamps ELSE clients[d]]

Answer(c, ok, stamp) ==
  /\ granted' = IF ok THEN [granted EXCEPT ![c] = @ \cup {stamp}] ELSE granted
  /\ reply' = [client |-> c, granted |-> ok]

\* Mutant: a window that is one tick too short at its far end.
AllowShortWindow(c) ==
  LET stamp == [call |-> calls, at |-> now]
      valid == IF c \in DOMAIN clients THEN Valid(clients[c], Window - 1) ELSE {}
      ok    == Cardinality(valid) < MaxRequests
  IN  /\ calls < MaxCalls
      /\ calls' = calls + 1
      /\ clients' = Entry(c, IF ok THEN valid \cup {stamp} ELSE valid)
      /\ Answer(c, ok, stamp)
      /\ UNCHANGED now

\* Mutant: a refused request is recorded too.
AllowPunishing(c) ==
  LET stamp == [call |-> calls, at |-> now]
      valid == IF c \in DOMAIN clients THEN Valid(clients[c], Window) ELSE {}
      ok    == Cardinality(valid) < MaxRequests
  IN  /\ calls < MaxCalls
      /\ calls' = calls + 1
      /\ clients' = Entry(c, valid \cup {stamp})
      /\ Answer(c, ok, stamp)
      /\ UNCHANGED now

(***************************************************************************)
(* Allow.  A client that is not in the map is granted at once; otherwise   *)
(* the times outside the window are dropped first, also when the answer is *)
(* no.                                                                     *)
(***************************************************************************)
Allow(c) ==
  LET stamp == [call |-> calls, at |-> now]
  IN  /\ calls < MaxCalls
      /\ calls' = calls + 1
      /\ \/ /\ c \notin DOMAIN clients
            /\ clients' = Entry(c, {stamp})
            /\ Answer(c, TRUE, stamp)
         \/ /\ c \in DOMAIN clients
            /\ LET valid == Valid(clients[c], Window)
                   ok    == Cardinality(valid) < MaxRequests
               IN  /\ clients' = Entry(c, IF ok THEN valid \cup {stamp} ELSE valid)
                   /\ Answer(c, ok, stamp)
      /\ UNCHANGED now

\* Mutant: a client with one time beyond the horizon is forgotten altogether.
SweepWhole ==
  /\ clients' = [c \in {d \in DOMAIN clients : Valid(clients[d], Horizon) = clients[d]} |-> clients[c]]
  /\ UNCHANGED <<now, calls, granted, reply>>

\* sweep, at any time: clients without a time within the horizon are deleted.
Sweep ==
  /\ clients' = [c \in {d \in DOMAIN clients : Valid(clients[d], Horizon) # {}} |->
                   Valid(clients[c], Horizon)]
  /\ UNCHANGED <<now, calls, granted, reply>>

Tick ==
  /\ now < MaxNow
  /\ now' = now + 1
  /\ UNCHANGED <<clients, calls, granted, reply>>

Next == Tick \/ Sweep \/ \E c \in Clients : Allow(c)

Spec == Init /\ [][Next]_vars

-----------------------------------------------------------------------------

(***************************************************************************)
(* However requests, sweeps and the clock interleave, no window of the     *)
(* given length, wherever it ends, holds more than MaxRequests granted     *)
(* requests of one client.                                                 *)
(***************************************************************************)
WindowBound ==
  \A c \in Clients : \A t \in 0 .. now :
    Cardinality({s \in granted[c] : t - Window < s.at /\ s.at <= t}) <= MaxRequests

(***************************************************************************)
(* Nothing the limiter forgets, in Allow or in a sweep, ever changes an    *)
(* answer: it answers as if it had kept the whole record, so a sweep never *)
(* lets a client through early and a refusal never delays it further.      *)
(***************************************************************************)
Abstract == INSTANCE SlidingWindow
ImplementsSlidingWindow == Abstract!Spec
=============================================================================
