-------------------------- MODULE RateLimiterProofs --------------------------
(***************************************************************************)
(* For any clients, any limit, window and horizon of at least a window:    *)
(* the limiter bounds every window, and it answers as if it never forgot.  *)
(***************************************************************************)
EXTENDS RateLimiter, FiniteSetTheorems, TLAPS

\* What was granted in the window that ends at t.
InWindow(c, t) == {s \in granted[c] : t - Window < s.at /\ s.at <= t}

\* Granted requests are in the past, and there are finitely many.
GrantedInPast ==
  \A c \in Clients : /\ IsFiniteSet(granted[c])
                     /\ \A s \in granted[c] : s.at <= now

\* The map holds only what was granted, and all that the window still counts.
RecordFaithful ==
  /\ \A c \in DOMAIN clients : clients[c] \subseteq granted[c]
  /\ \A c \in Clients : \A s \in granted[c] :
       now - Window < s.at => c \in DOMAIN clients /\ s \in clients[c]

IInv == TypeOK /\ GrantedInPast /\ RecordFaithful /\ WindowBound

-----------------------------------------------------------------------------

\* What Allow counts of a client it knows is what was granted in the window.
LEMMA CountsTheWindow ==
  ASSUME IInv, NEW c \in DOMAIN clients
  PROVE  Valid(clients[c], Window) = InWindow(c, now)
<1>1. c \in Clients /\ clients[c] \subseteq granted[c] /\ clients[c] \subseteq Stamp
  BY DEF IInv, TypeOK, RecordFaithful
<1>2. now \in Int /\ Window \in Int
  BY RateLimiterAssumption DEF IInv, TypeOK
<1>3. \A s \in granted[c] : s \in Stamp /\ s.at \in Int /\ s.at <= now
  BY <1>1 DEF IInv, TypeOK, GrantedInPast, Stamp
<1>4. \A s \in granted[c] : now - Window < s.at => s \in clients[c]
  BY <1>1 DEF IInv, RecordFaithful
<1> QED
  BY <1>1, <1>2, <1>3, <1>4 DEF Valid, InWindow

\* Nothing was granted in the window to a client that is not in the map.
LEMMA UnknownIsIdle ==
  ASSUME IInv, NEW c \in Clients, c \notin DOMAIN clients
  PROVE  InWindow(c, now) = {}
  BY DEF IInv, RecordFaithful, InWindow

\* The window of a client is finite.
LEMMA WindowFinite ==
  ASSUME IInv, NEW c \in Clients, NEW t
  PROVE  /\ IsFiniteSet(InWindow(c, t))
         /\ Cardinality(InWindow(c, t)) \in Nat
<1>1. InWindow(c, t) \subseteq granted[c] /\ IsFiniteSet(granted[c])
  BY DEF InWindow, IInv, GrantedInPast
<1> QED
  BY <1>1, FS_Subset, FS_CardinalityType

-----------------------------------------------------------------------------

\* What a request does, in terms of the complete record.
Granting(c) == Cardinality(InWindow(c, now)) < MaxRequests
ThisStamp   == [call |-> calls, at |-> now]

LEMMA AllowAnswers ==
  ASSUME IInv, NEW c \in Clients, Allow(c)
  PROVE  /\ granted' = IF Granting(c)
                       THEN [granted EXCEPT ![c] = @ \cup {ThisStamp}] ELSE granted
         /\ reply' = [client |-> c, granted |-> Granting(c)]
         /\ clients' = Entry(c, IF Granting(c) THEN InWindow(c, now) \cup {ThisStamp}
                                               ELSE InWindow(c, now))
         /\ calls' = calls + 1
         /\ now' = now
<1>1. CASE c \notin DOMAIN clients
  <2>1. InWindow(c, now) = {}
    BY <1>1, UnknownIsIdle
  <2>2. Granting(c)
    <3>1. Cardinality(InWindow(c, now)) = 0
      BY <2>1, FS_EmptySet
    <3> QED
      BY <3>1, RateLimiterAssumption DEF Granting
  <2>3. {ThisStamp} = InWindow(c, now) \cup {ThisStamp}
    BY <2>1
  <2> QED
    BY <1>1, <2>2, <2>3 DEF Allow, Answer, ThisStamp
<1>2. CASE c \in DOMAIN clients
  <2>1. Valid(clients[c], Window) = InWindow(c, now)
    BY <1>2, CountsTheWindow
  <2> QED
    BY <1>2, <2>1 DEF Allow, Answer, ThisStamp, Granting
<1> QED
  BY <1>1, <1>2

-----------------------------------------------------------------------------

\* The invariant holds initially.
LEMMA InitIInv == Init => IInv
<1> SUFFICES ASSUME Init PROVE IInv
  OBVIOUS
<1>1. TypeOK
  BY DEF Init, TypeOK
<1>2. \A c \in Clients : granted[c] = {}
  BY DEF Init
<1>3. GrantedInPast
  BY <1>2, FS_EmptySet DEF GrantedInPast
<1>4. RecordFaithful
  BY <1>2 DEF RecordFaithful, Init
<1>5. WindowBound
  <2> SUFFICES ASSUME NEW c \in Clients, NEW t \in 0 .. now
               PROVE  Cardinality({s \in granted[c] : t - Window < s.at /\ s.at <= t}) <= MaxRequests
    BY DEF WindowBound
  <2>1. {s \in granted[c] : t - Window < s.at /\ s.at <= t} = {}
    BY <1>2
  <2> QED
    BY <2>1, FS_EmptySet, RateLimiterAssumption
<1> QED
  BY <1>1, <1>3, <1>4, <1>5 DEF IInv

\* The passing of time only takes requests out of the window that ends now.
LEMMA TickIInv == ASSUME IInv, Tick PROVE IInv'
<1>1. now \in Nat /\ now' = now + 1 /\ Window \in Nat /\ MaxRequests \in Nat
  BY RateLimiterAssumption DEF IInv, TypeOK, Tick
<1>2. granted' = granted /\ clients' = clients /\ calls' = calls /\ reply' = reply
  BY DEF Tick
<1>3. \A c \in Clients : \A s \in granted[c] : s.at \in Nat /\ s.at <= now
  BY DEF IInv, TypeOK, GrantedInPast, Stamp
<1>4. TypeOK'
  BY <1>1, <1>2 DEF IInv, TypeOK
<1>5. GrantedInPast'
  BY <1>1, <1>2, <1>3 DEF IInv, GrantedInPast
<1>6. RecordFaithful'
  <2>1. \A c \in Clients : \A s \in granted[c] : now' - Window < s.at => now - Window < s.at
    BY <1>1, <1>3
  <2> QED
    BY <1>2, <2>1 DEF IInv, RecordFaithful
<1>7. WindowBound'
  <2> SUFFICES ASSUME NEW c \in Clients, NEW t \in 0 .. now + 1
               PROVE  Cardinality(InWindow(c, t)) <= MaxRequests
    BY <1>1, <1>2 DEF WindowBound, InWindow
  <2>1. CASE t \in 0 .. now
    BY <2>1 DEF IInv, WindowBound, InWindow
  <2>2. CASE t = now + 1
    <3>1. InWindow(c, t) \subseteq InWindow(c, now)
      BY <2>2, <1>1, <1>3 DEF InWindow
    <3>2. Cardinality(InWindow(c, now)) <= MaxRequests
      BY <1>1 DEF IInv, WindowBound, InWindow
    <3>3. Cardinality(InWindow(c, t)) <= Cardinality(InWindow(c, now))
      BY <3>1, WindowFinite, FS_Subset
    <3> QED
      BY <3>2, <3>3, <1>1, WindowFinite
  <2> QED
    BY <2>1, <2>2, <1>1
<1> QED
  BY <1>4, <1>5, <1>6, <1>7 DEF IInv

\* A sweep drops only what no window that ends now or later counts.
LEMMA SweepIInv == ASSUME IInv, Sweep PROVE IInv'
<1> DEFINE kept == {d \in DOMAIN clients : Valid(clients[d], Horizon) # {}}
<1>1. now' = now /\ granted' = granted /\ calls' = calls /\ reply' = reply
  BY DEF Sweep
<1>2. clients' = [c \in kept |-> Valid(clients[c], Horizon)]
  BY DEF Sweep
<1>3. now \in Int /\ Window \in Int /\ Horizon \in Int /\ Horizon >= Window
  BY RateLimiterAssumption DEF IInv, TypeOK
<1>4. \A c \in Clients : \A s \in granted[c] : s.at \in Int
  BY DEF IInv, TypeOK, Stamp
<1>5. TypeOK'
  BY <1>1, <1>2 DEF IInv, TypeOK, Valid
<1>6. GrantedInPast'
  BY <1>1 DEF IInv, GrantedInPast
<1>7. RecordFaithful'
  <2>1. \A c \in DOMAIN clients' : clients'[c] \subseteq granted'[c]
    BY <1>1, <1>2 DEF IInv, RecordFaithful, Valid
  <2>2. ASSUME NEW c \in Clients, NEW s \in granted'[c], now' - Window < s.at
        PROVE  c \in DOMAIN clients' /\ s \in clients'[c]
    <3>1. c \in DOMAIN clients /\ s \in clients[c]
      BY <2>2, <1>1 DEF IInv, RecordFaithful
    <3>2. s.at > now - Horizon
      BY <2>2, <1>1, <1>3, <1>4
    <3>3. s \in Valid(clients[c], Horizon)
      BY <3>1, <3>2 DEF Valid
    <3> QED
      BY <3>1, <3>3, <1>2
  <2> QED
    BY <2>1, <2>2 DEF RecordFaithful
<1>8. WindowBound'
  BY <1>1 DEF IInv, WindowBound
<1> QED
  BY <1>5, <1>6, <1>7, <1>8 DEF IInv

\* A request adds at most one to the window that ends now, and only below the limit.
LEMMA AllowIInv == ASSUME IInv, NEW c \in Clients, Allow(c) PROVE IInv'
<1> USE RateLimiterAssumption
<1>1. /\ granted' = IF Granting(c) THEN [granted EXCEPT ![c] = @ \cup {ThisStamp}] ELSE granted
      /\ reply' = [client |-> c, granted |-> Granting(c)]
      /\ clients' = Entry(c, IF Granting(c) THEN InWindow(c, now) \cup {ThisStamp}
                                            ELSE InWindow(c, now))
      /\ calls' = calls + 1
      /\ now' = now
  BY AllowAnswers
<1>2. /\ now \in Nat /\ calls \in Nat /\ ThisStamp \in Stamp /\ ThisStamp.at = now
      /\ granted \in [Clients -> SUBSET Stamp]
      /\ InWindow(c, now) \subseteq granted[c]
  BY DEF IInv, TypeOK, ThisStamp, Stamp, InWindow
<1>3. /\ \A d \in Clients : d # c => granted'[d] = granted[d]
      /\ granted'[c] = IF Granting(c) THEN granted[c] \cup {ThisStamp} ELSE granted[c]
  BY <1>1, <1>2
<1>4. /\ DOMAIN clients' = DOMAIN clients \cup {c}
      /\ \A d \in DOMAIN clients : d # c => clients'[d] = clients[d]
      /\ clients'[c] = IF Granting(c) THEN InWindow(c, now) \cup {ThisStamp} ELSE InWindow(c, now)
  BY <1>1 DEF Entry
<1>5. TypeOK'
  <2>1. granted' \in [Clients -> SUBSET Stamp]
    BY <1>1, <1>2
  <2>2. DOMAIN clients' \subseteq Clients /\ \A d \in DOMAIN clients' : clients'[d] \subseteq Stamp
    BY <1>2, <1>4 DEF IInv, TypeOK
  <2>3. reply' \in [client : Clients, granted : BOOLEAN]
    BY <1>1 DEF Granting
  <2>4. now' \in Nat /\ calls' \in Nat
    BY <1>1, <1>2
  <2> QED
    BY <2>1, <2>2, <2>3, <2>4, Zenon DEF TypeOK
<1>6. GrantedInPast'
  <2>1. IsFiniteSet(granted[c] \cup {ThisStamp})
    BY FS_AddElement DEF IInv, GrantedInPast
  <2> QED
    BY <1>1, <1>2, <1>3, <2>1 DEF IInv, GrantedInPast
<1>7. RecordFaithful'
  <2>1. \A d \in DOMAIN clients' : clients'[d] \subseteq granted'[d]
    BY <1>2, <1>3, <1>4 DEF IInv, RecordFaithful, TypeOK
  <2>2. ASSUME NEW d \in Clients, NEW s \in granted'[d], now' - Window < s.at
        PROVE  d \in DOMAIN clients' /\ s \in clients'[d]
    <3>1. CASE d # c
      BY <3>1, <2>2, <1>1, <1>3, <1>4 DEF IInv, RecordFaithful
    <3>2. CASE d = c
      <4>1. s \in granted[c] => s \in InWindow(c, now)
        BY <2>2, <1>1 DEF IInv, GrantedInPast, InWindow
      <4> QED
        BY <3>2, <2>2, <4>1, <1>3, <1>4
    <3> QED
      BY <3>1, <3>2
  <2> QED
    BY <2>1, <2>2 DEF RecordFaithful
<1>8. WindowBound'
  <2> DEFINE W(d, t) == {s \in granted'[d] : t - Window < s.at /\ s.at <= t}
  <2> SUFFICES ASSUME NEW d \in Clients, NEW t \in 0 .. now
               PROVE  Cardinality(W(d, t)) <= MaxRequests
    BY <1>1 DEF WindowBound
  <2>1. Cardinality(InWindow(d, t)) <= MaxRequests
    BY DEF IInv, WindowBound, InWindow
  <2>2. CASE d # c \/ ~Granting(c) \/ t # now
    <3>1. W(d, t) = InWindow(d, t)
      BY <2>2, <1>2, <1>3 DEF InWindow
    <3> QED
      BY <2>1, <3>1
  <2>3. CASE d = c /\ Granting(c) /\ t = now
    <3>1. W(d, t) = InWindow(c, now) \cup {ThisStamp}
      BY <2>3, <1>2, <1>3 DEF InWindow
    <3>2. /\ IsFiniteSet(InWindow(c, now))
          /\ Cardinality(InWindow(c, now)) \in Nat
      BY WindowFinite
    <3> DEFINE grown == InWindow(c, now) \cup {ThisStamp}
    <3>3. Cardinality(grown) = Cardinality(InWindow(c, now))
            \/ Cardinality(grown) = Cardinality(InWindow(c, now)) + 1
      BY <3>2, FS_AddElement
    <3>4. Cardinality(W(d, t)) <= Cardinality(InWindow(c, now)) + 1
      <4> HIDE DEF grown
      <4>1. Cardinality(W(d, t)) = Cardinality(grown)
        BY <3>1 DEF grown
      <4> HIDE DEF W
      <4> QED
        BY <3>3, <3>2, <4>1
    <3>5. Cardinality(W(d, t)) \in Nat
      BY <3>1, <3>2, FS_AddElement, FS_CardinalityType
    <3> QED
      BY <2>3, <3>2, <3>4, <3>5 DEF Granting
  <2> QED
    BY <2>2, <2>3
<1> QED
  BY <1>5, <1>6, <1>7, <1>8 DEF IInv

\* The invariant is inductive.
LEMMA NextIInv == IInv /\ [Next]_vars => IInv'
<1> SUFFICES ASSUME IInv, [Next]_vars PROVE IInv'
  OBVIOUS
<1>1. CASE Tick
  BY <1>1, TickIInv
<1>2. CASE Sweep
  BY <1>2, SweepIInv
<1>3. CASE \E c \in Clients : Allow(c)
  BY <1>3, AllowIInv
<1>4. CASE UNCHANGED vars
  BY <1>4 DEF vars, IInv, TypeOK, GrantedInPast, RecordFaithful, WindowBound
<1> QED
  BY <1>1, <1>2, <1>3, <1>4 DEF Next

THEOREM Invariance == Spec => []IInv
<1> QED
  BY InitIInv, NextIInv, PTL DEF Spec

-----------------------------------------------------------------------------

(***************************************************************************)
(* Type correctness of the limiter (config_client.go:25-36).               *)
(***************************************************************************)
THEOREM Typing == Spec => []TypeOK
<1>1. IInv => TypeOK
  BY DEF IInv
<1> QED
  BY <1>1, Invariance, PTL

(***************************************************************************)
(* No window of a client, wherever it ends, ever holds more than the limit *)
(* of granted requests (config_client.go:38-61).                           *)
(***************************************************************************)
THEOREM EveryWindowBounded == Spec => []WindowBound
<1>1. IInv => WindowBound
  BY DEF IInv
<1> QED
  BY <1>1, Invariance, PTL

(***************************************************************************)
(* The limiter implements the sliding window that never forgets: neither   *)
(* the filter of Allow nor the sweep changes an answer (:38-61, :80-99).   *)
(***************************************************************************)
THEOREM Refinement == Spec => ImplementsSlidingWindow
<1>1. Init => Abstract!Init
  BY DEF Init, Abstract!Init
<1>2. IInv /\ [Next]_vars => [Abstract!Next]_Abstract!vars
  <2> SUFFICES ASSUME IInv, [Next]_vars PROVE [Abstract!Next]_Abstract!vars
    OBVIOUS
  <2>1. CASE Tick
    BY <2>1 DEF Tick, Abstract!Next, Abstract!Tick
  <2>2. CASE Sweep
    BY <2>2 DEF Sweep, Abstract!vars
  <2>3. ASSUME NEW c \in Clients, Allow(c) PROVE Abstract!Next
    <3>1. Abstract!InWindow(granted[c], now) = InWindow(c, now)
      <4>1. now \in Int /\ Window \in Int /\ \A s \in granted[c] : s.at \in Int /\ s.at <= now
        BY RateLimiterAssumption DEF IInv, TypeOK, GrantedInPast, Stamp
      <4> QED
        BY <4>1 DEF InWindow, Abstract!InWindow
    <3>2. Abstract!Cardinality(InWindow(c, now)) = Cardinality(InWindow(c, now))
      BY DEF Abstract!Cardinality, Cardinality
    <3>3. Abstract!Request(c)
      BY <2>3, <3>1, <3>2, AllowAnswers DEF Abstract!Request, Granting, ThisStamp
    <3> QED
      BY <3>3 DEF Abstract!Next
  <2>4. CASE UNCHANGED vars
    BY <2>4 DEF vars, Abstract!vars
  <2> QED
    BY <2>1, <2>2, <2>3, <2>4 DEF Next
<1> QED
  BY <1>1, <1>2, Invariance, PTL DEF Spec, ImplementsSlidingWindow, Abstract!Spec
=============================================================================
