---------------------------- MODULE SlidingWindow ----------------------------
(***************************************************************************)
(* What the rate limiter of the git proxy promises: a request is answered  *)
(* from the complete record of what was granted to its client, and is      *)
(* granted exactly when fewer than MaxRequests were granted to it during   *)
(* the window that ends now.                                               *)
(***************************************************************************)
EXTENDS Integers, FiniteSets

CONSTANTS Clients, MaxRequests, Window, NoReply

VARIABLES
  now,       \* the clock
  calls,     \* the number of requests so far
  granted,   \* the requests granted to each client, each with its time
  reply      \* the last request and its answer

vars == <<now, calls, granted, reply>>

InWindow(stamps, t) == {s \in stamps : s.at > t - Window}

Init ==
  /\ now = 0
  /\ calls = 0
  /\ granted = [c \in Clients |-> {}]
  /\ reply = NoReply

Request(c) ==
  /\ calls' = calls + 1
  /\ LET ok == Cardinality(InWindow(granted[c], now)) < MaxRequests
     IN  /\ reply' = [client |-> c, granted |-> ok]
         /\ granted' = IF ok
                       THEN [granted EXCEPT ![c] = @ \cup {[call |-> calls, at |-> now]}]
                       ELSE granted
  /\ UNCHANGED now

Tick ==
  /\ now' = now + 1
  /\ UNCHANGED <<calls, granted, reply>>

Next == Tick \/ \E c \in Clients : Request(c)

Spec == Init /\ [][Next]_vars
=============================================================================
