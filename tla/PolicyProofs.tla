---------------------------- MODULE PolicyProofs ----------------------------
(***************************************************************************)
(* The laws of the policy engine, for every policy, every report and every *)
(* bound: the floors hold, neither a finding nor a rule that is added      *)
(* relaxes a decision, and the order of the findings does not matter.      *)
(***************************************************************************)
EXTENDS PolicyEvolution, FiniteSetTheorems, SequenceTheorems, TLAPS

\* The findings a rule matches are a finite set of positions.
LEMMA MatchingFinite ==
  ASSUME NEW r \in Rule, NEW fs \in Seq(Finding)
  PROVE  /\ IsFiniteSet(Matching(r, fs))
         /\ Cardinality(Matching(r, fs)) \in Nat
<1>1. DOMAIN fs = 1 .. Len(fs) /\ Len(fs) \in Nat
  OBVIOUS
<1>2. IsFiniteSet(1 .. Len(fs))
  BY <1>1, FS_Interval
<1>3. Matching(r, fs) \in SUBSET (1 .. Len(fs))
  BY <1>1 DEF Matching
<1>4. IsFiniteSet(Matching(r, fs))
  BY <1>2, <1>3, FS_Subset
<1> QED
  BY <1>4, FS_CardinalityType

\* A rule that fires on a report fires on every longer one.
LEMMA FiresMonotone ==
  ASSUME NEW r \in Rule, NEW fs \in Seq(Finding), NEW f \in Finding, Fires(r, fs)
  PROVE  Fires(r, Append(fs, f))
<1> DEFINE gs == Append(fs, f)
<1>1. gs \in Seq(Finding)
  OBVIOUS
<1>2. /\ DOMAIN fs \subseteq DOMAIN gs
      /\ \A k \in DOMAIN fs : gs[k] = fs[k]
  OBVIOUS
<1>3. Matching(r, fs) \in SUBSET Matching(r, gs)
  BY <1>2 DEF Matching
<1>4. IsFiniteSet(Matching(r, gs)) /\ Cardinality(Matching(r, gs)) \in Nat
  BY <1>1, MatchingFinite
<1>5. Cardinality(Matching(r, fs)) <= Cardinality(Matching(r, gs))
  BY <1>3, <1>4, FS_Subset
<1>6. Cardinality(Matching(r, fs)) \in Nat
  BY MatchingFinite
<1>7. Threshold(r) \in Int
  BY DEF Threshold, Rule
<1> HIDE DEF gs
<1> QED
  BY <1>4, <1>5, <1>6, <1>7 DEF Fires, gs

\* What a rule says of a report it says of every longer one.
LEMMA RuleSaysMonotone ==
  ASSUME NEW p \in PolicySet, NEW fs \in Seq(Finding), NEW f \in Finding,
         NEW actions, RuleSays(p, fs, actions)
  PROVE  RuleSays(p, Append(fs, f), actions)
<1>1. PICK i \in DOMAIN p.rules : p.rules[i].action \in actions /\ Fires(p.rules[i], fs)
  BY DEF RuleSays
<1>2. p.rules[i] \in Rule
  BY DEF PolicySet
<1>3. Fires(p.rules[i], Append(fs, f))
  BY <1>1, <1>2, FiresMonotone
<1> QED
  BY <1>1, <1>3 DEF RuleSays

\* The decision on a report bounds from below the decision on a longer one.
LEMMA EvaluateMonotone ==
  ASSUME NEW p \in PolicySet, NEW fs \in Seq(Finding), NEW f \in Finding
  PROVE  Rank(Evaluate(p, Append(fs, f))) >= Rank(Evaluate(p, fs))
<1> DEFINE gs == Append(fs, f)
<1>1. /\ DOMAIN fs \subseteq DOMAIN gs
      /\ \A k \in DOMAIN fs : gs[k] = fs[k]
  OBVIOUS
<1>2. Blocked(p, fs) => Blocked(p, gs)
  BY <1>1, RuleSaysMonotone DEF Blocked
<1>3. Review(p, fs) => Review(p, gs)
  BY <1>1, RuleSaysMonotone DEF Review
<1> HIDE DEF gs
<1>4. Rank(Evaluate(p, gs)) >= Rank(Evaluate(p, fs))
  BY <1>2, <1>3 DEF Evaluate, Rank
<1> QED
  BY <1>4 DEF gs

\* A longer list of rules, when all of them are valid, says at least as much.
LEMMA RulesMonotone ==
  ASSUME NEW p \in PolicySet, NEW r \in Rule, NEW fs, Validate(p)
  PROVE  Rank(Evaluate([p EXCEPT !.rules = Append(@, r)], fs)) >= Rank(Evaluate(p, fs))
<1> DEFINE q == [p EXCEPT !.rules = Append(@, r)]
<1>1. /\ p.rules \in Seq(Rule)
      /\ q.rules = Append(p.rules, r)
  BY DEF PolicySet
<1>2. /\ DOMAIN p.rules \subseteq DOMAIN q.rules
      /\ \A i \in DOMAIN p.rules : q.rules[i] = p.rules[i]
  BY <1>1
<1>3. \A actions : RuleSays(p, fs, actions) => RuleSays(q, fs, actions)
  BY <1>2 DEF RuleSays
<1> HIDE DEF q
<1>4. Blocked(p, fs) => Blocked(q, fs)
  BY <1>3 DEF Blocked
<1>5. Review(p, fs) => Review(q, fs)
  BY <1>3 DEF Review
<1>6. Rank(Evaluate(q, fs)) >= Rank(Evaluate(p, fs))
  BY <1>4, <1>5 DEF Evaluate, Rank
<1> QED
  BY <1>6 DEF q

-----------------------------------------------------------------------------

\* g moves each finding of s to its place in u.
Rearranges(g, s, u) ==
  /\ g \in [DOMAIN s -> DOMAIN u]
  /\ \A i, j \in DOMAIN s : g[i] = g[j] => i = j
  /\ \A k \in DOMAIN u : \E i \in DOMAIN s : g[i] = k
  /\ \A i \in DOMAIN s : u[g[i]] = s[i]

\* A rule matches as many findings of a report as of a rearranged one.
LEMMA MatchingRearranged ==
  ASSUME NEW s \in Seq(Finding), NEW u \in Seq(Finding), NEW g, Rearranges(g, s, u), NEW r
  PROVE  Cardinality(Matching(r, s)) = Cardinality(Matching(r, u))
<1> DEFINE S == Matching(r, s)
           T == Matching(r, u)
           h == [i \in S |-> g[i]]
<1>1. \A i \in S : i \in DOMAIN s /\ g[i] \in T
  BY DEF Matching, Rearranges
<1>2. h \in [S -> T]
  BY <1>1
<1>3. \A i, j \in S : h[i] = h[j] => i = j
  BY <1>1 DEF Rearranges
<1>4. \A k \in T : \E i \in S : h[i] = k
  <2> SUFFICES ASSUME NEW k \in T PROVE \E i \in S : h[i] = k
    OBVIOUS
  <2>1. PICK i \in DOMAIN s : g[i] = k
    BY DEF Matching, Rearranges
  <2>2. i \in S
    BY <2>1 DEF Matching, Rearranges
  <2> QED BY <2>1, <2>2
<1>5. IsFiniteSet(S)
  <2>1. S \in SUBSET DOMAIN s /\ DOMAIN s = 1 .. Len(s) /\ Len(s) \in Nat
    BY DEF Matching
  <2>2. IsFiniteSet(DOMAIN s)
    BY <2>1, FS_Interval
  <2> QED BY <2>1, <2>2, FS_Subset
<1>6. ExistsBijection(S, T)
  <2> HIDE DEF S, T, h
  <2> QED BY <1>2, <1>3, <1>4 DEF ExistsBijection, Bijection, Injection, Surjection, IsInjective
<1> QED BY <1>5, <1>6, FS_Bijection

\* The decision on a report does not depend on the order of its findings.
LEMMA DecisionIgnoresOrder ==
  ASSUME NEW s \in Seq(Finding), NEW u \in Seq(Finding), NEW g, Rearranges(g, s, u), NEW p
  PROVE  Evaluate(p, s) = Evaluate(p, u)
<1>1. \A r : Fires(r, s) <=> Fires(r, u)
  BY MatchingRearranged DEF Fires
<1>2. \A actions : RuleSays(p, s, actions) <=> RuleSays(p, u, actions)
  BY <1>1 DEF RuleSays
<1>3. (\E k \in DOMAIN s : BlockFloor(s[k])) <=> \E k \in DOMAIN u : BlockFloor(u[k])
  BY DEF Rearranges
<1>4. (\E k \in DOMAIN s : ReviewFloor(s[k])) <=> \E k \in DOMAIN u : ReviewFloor(u[k])
  BY DEF Rearranges
<1> QED BY <1>2, <1>3, <1>4 DEF Evaluate, Blocked, Review

-----------------------------------------------------------------------------

\* The policy and the report keep their types as both grow.
LEMMA Typing == Spec => []TypeOK
<1>1. Init => TypeOK
  BY PoliciesAssumption DEF Init, TypeOK
<1>2. TypeOK /\ [Next]_vars => TypeOK'
  <2> SUFFICES ASSUME TypeOK, [Next]_vars
               PROVE  TypeOK'
    OBVIOUS
  <2>1. ASSUME NEW f \in Reports, Report(f)
        PROVE  TypeOK'
    BY <2>1, ReportsAssumption DEF Report, TypeOK
  <2>2. ASSUME NEW r \in Rules, AddRule(r)
        PROVE  TypeOK'
    <3>1. /\ policy.named \in BOOLEAN
          /\ policy.rules \in Seq(Rule)
          /\ policy = [named |-> policy.named, rules |-> policy.rules]
      BY DEF TypeOK, PolicySet
    <3>2. Append(policy.rules, r) \in Seq(Rule)
      BY <3>1, RulesAssumption
    <3>3. policy' = [named |-> policy.named, rules |-> Append(policy.rules, r)]
      BY <2>2, <3>1, Zenon DEF AddRule
    <3>4. policy' \in PolicySet
      BY <3>1, <3>2, <3>3 DEF PolicySet
    <3> QED
      BY <2>2, <3>4 DEF TypeOK, AddRule
  <2>3. CASE UNCHANGED vars
    BY <2>3 DEF TypeOK, vars
  <2> QED
    BY <2>1, <2>2, <2>3 DEF Next
<1> QED
  BY <1>1, <1>2, PTL DEF Spec

(***************************************************************************)
(* No policy relaxes the floors of Evaluate (policy.go:180-191): a         *)
(* CRITICAL finding or a secret always blocks, a HIGH one never passes.    *)
(***************************************************************************)
THEOREM FloorsAlwaysHold == Spec => []FloorsHold
<1>1. FloorsHold
  BY DEF FloorsHold, Evaluate, Blocked, Review
<1> QED
  BY <1>1, PTL

(***************************************************************************)
(* Evaluate is monotone in the findings: whatever arrives later, a         *)
(* decision that stopped the report is never relaxed.                      *)
(***************************************************************************)
THEOREM LaterFindingsNeverRelax == Spec => FindingsNeverRelax
<1>1. TypeOK /\ [Next]_vars =>
        [policy' = policy =>
           Rank(Evaluate(policy', findings')) >= Rank(Evaluate(policy, findings))]_vars
  <2> SUFFICES ASSUME TypeOK, Next, policy' = policy
               PROVE  Rank(Evaluate(policy', findings')) >= Rank(Evaluate(policy, findings))
    OBVIOUS
  <2>1. ASSUME NEW f \in Reports, Report(f)
        PROVE  Rank(Evaluate(policy', findings')) >= Rank(Evaluate(policy, findings))
    BY <2>1, ReportsAssumption, EvaluateMonotone DEF Report, TypeOK
  <2>2. ASSUME NEW r \in Rules, AddRule(r)
        PROVE  Rank(Evaluate(policy', findings')) >= Rank(Evaluate(policy, findings))
    <3>1. policy' = policy /\ findings' = findings
      BY <2>2 DEF AddRule
    <3>2. Rank(Evaluate(policy, findings)) \in Int
      BY DEF Evaluate, Rank
    <3> QED
      BY <3>1, <3>2
  <2> QED
    BY <2>1, <2>2 DEF Next
<1> QED
  BY <1>1, Typing, PTL DEF Spec, FindingsNeverRelax

(***************************************************************************)
(* Evaluate is monotone in the rules: a rule added to a valid policy, PASS *)
(* rules included, never relaxes a decision.                               *)
(***************************************************************************)
THEOREM LaterRulesNeverRelax == Spec => RulesNeverRelax
<1>1. TypeOK /\ [Next]_vars =>
        [/\ findings' = findings
         /\ Validate(policy)
         => Rank(Evaluate(policy', findings')) >= Rank(Evaluate(policy, findings))]_vars
  <2> SUFFICES ASSUME TypeOK, Next, findings' = findings, Validate(policy)
               PROVE  Rank(Evaluate(policy', findings')) >= Rank(Evaluate(policy, findings))
    OBVIOUS
  <2>1. ASSUME NEW f \in Reports, Report(f)
        PROVE  Rank(Evaluate(policy', findings')) >= Rank(Evaluate(policy, findings))
    <3>1. policy' = policy /\ findings' = findings
      BY <2>1 DEF Report
    <3>2. Rank(Evaluate(policy, findings)) \in Int
      BY DEF Evaluate, Rank
    <3> QED
      BY <3>1, <3>2
  <2>2. ASSUME NEW r \in Rules, AddRule(r)
        PROVE  Rank(Evaluate(policy', findings')) >= Rank(Evaluate(policy, findings))
    BY <2>2, RulesAssumption, RulesMonotone DEF AddRule, TypeOK
  <2> QED
    BY <2>1, <2>2 DEF Next
<1> QED
  BY <1>1, Typing, PTL DEF Spec, RulesNeverRelax

(***************************************************************************)
(* In whatever order the scanners finish and the rules are written down,   *)
(* the decision is the same (adapter_local.go:304, policy.go:155-199).     *)
(***************************************************************************)
THEOREM DecisionIsOrderless == Spec => []OrderIrrelevant
<1>1. ASSUME TypeOK, NEW i \in DOMAIN findings
      PROVE  Evaluate(policy, <<findings[i]>> \o RemoveAt(findings, i)) = Evaluate(policy, findings)
  <2> DEFINE n == Len(findings)
             moved == <<findings[i]>> \o RemoveAt(findings, i)
             g == [k \in DOMAIN findings |-> IF k = i THEN 1 ELSE IF k < i THEN k + 1 ELSE k]
  <2>1. /\ findings \in Seq(Finding) /\ n \in Nat /\ i \in 1 .. n
        /\ DOMAIN findings = 1 .. n /\ \A k \in 1 .. n : findings[k] \in Finding
    BY <1>1 DEF TypeOK
  <2>2. /\ RemoveAt(findings, i) \in Seq(Finding)
        /\ Len(RemoveAt(findings, i)) = n - 1
        /\ \A k \in 1 .. n - 1 :
             RemoveAt(findings, i)[k] = IF k < i THEN findings[k] ELSE findings[k + 1]
    BY <2>1, SMTT(90) DEF RemoveAt
  <2>3. /\ moved \in Seq(Finding) /\ DOMAIN moved = 1 .. n
        /\ \A k \in 1 .. n :
             moved[k] = IF k = 1 THEN findings[i]
                        ELSE IF k <= i THEN findings[k - 1] ELSE findings[k]
    <3> DEFINE first == <<findings[i]>>
               rest  == RemoveAt(findings, i)
    <3>1. first \in Seq(Finding) /\ Len(first) = 1 /\ first[1] = findings[i]
      BY <2>1
    <3> HIDE DEF first, rest
    <3>2. rest \in Seq(Finding) /\ Len(rest) = n - 1
      BY <2>2 DEF rest
    <3>3. /\ first \o rest \in Seq(Finding) /\ Len(first \o rest) = n
          /\ \A k \in 1 .. n : (first \o rest)[k] = IF k <= 1 THEN first[k] ELSE rest[k - 1]
      <4>1. /\ first \o rest \in Seq(Finding) /\ Len(first \o rest) = Len(first) + Len(rest)
            /\ \A k \in 1 .. Len(first) + Len(rest) :
                 (first \o rest)[k] = IF k <= Len(first) THEN first[k] ELSE rest[k - Len(first)]
        BY <3>1, <3>2, ConcatProperties
      <4>2. Len(first) = 1 /\ Len(first) + Len(rest) = n
        BY <2>1, <3>1, <3>2
      <4> QED BY <4>1, <4>2
    <3>4. \A k \in 1 .. n : (first \o rest)[k] =
             IF k = 1 THEN findings[i] ELSE IF k <= i THEN findings[k - 1] ELSE findings[k]
      <4> SUFFICES ASSUME NEW k \in 1 .. n
                   PROVE  (first \o rest)[k] =
                            IF k = 1 THEN findings[i]
                            ELSE IF k <= i THEN findings[k - 1] ELSE findings[k]
        OBVIOUS
      <4>1. CASE k = 1
        BY <3>1, <3>3, <4>1
      <4>2. CASE k # 1
        <5>1. k - 1 \in 1 .. n - 1 /\ (first \o rest)[k] = rest[k - 1]
          BY <2>1, <3>3, <4>2
        <5>2. rest[k - 1] = IF k - 1 < i THEN findings[k - 1] ELSE findings[(k - 1) + 1]
          BY <2>2, <5>1 DEF rest
        <5> QED BY <2>1, <4>2, <5>1, <5>2
      <4> QED BY <4>1, <4>2
    <3>5. DOMAIN (first \o rest) = 1 .. n
      BY <3>3
    <3> QED BY <3>3, <3>4, <3>5 DEF first, rest
  <2> HIDE DEF moved
  <2>4. Rearranges(g, findings, moved)
    <3>1. g \in [1 .. n -> 1 .. n]
      BY <2>1
    <3>2. \A k, l \in 1 .. n : g[k] = g[l] => k = l
      BY <2>1
    <3>3. ASSUME NEW k \in 1 .. n PROVE \E l \in 1 .. n : g[l] = k
      <4> DEFINE l == IF k = 1 THEN i ELSE IF k <= i THEN k - 1 ELSE k
      <4>1. l \in 1 .. n /\ g[l] = k
        BY <2>1
      <4> QED BY <4>1
    <3>4. \A k \in 1 .. n : moved[g[k]] = findings[k]
      BY <2>1, <2>3, <3>1
    <3> HIDE DEF g
    <3> QED BY <2>1, <2>3, <3>1, <3>2, <3>3, <3>4 DEF Rearranges
  <2> QED BY <2>1, <2>3, <2>4, DecisionIgnoresOrder DEF moved
<1>2. ASSUME TypeOK
      PROVE  Evaluate([policy EXCEPT !.rules = Reverse(@)], findings) = Evaluate(policy, findings)
  <2> DEFINE n == Len(policy.rules)
             p == [policy EXCEPT !.rules = Reverse(@)]
  <2>1. /\ n \in Nat /\ DOMAIN policy.rules = 1 .. n
        /\ p.named = policy.named /\ DOMAIN p.rules = 1 .. n
        /\ \A k \in 1 .. n : p.rules[k] = policy.rules[n - k + 1]
    BY <1>2 DEF TypeOK, PolicySet, Reverse
  <2> HIDE DEF n, p
  <2>2. \A k \in 1 .. n : n - k + 1 \in 1 .. n /\ policy.rules[k] = p.rules[n - k + 1]
    <3> SUFFICES ASSUME NEW k \in 1 .. n
                 PROVE  n - k + 1 \in 1 .. n /\ policy.rules[k] = p.rules[n - k + 1]
      OBVIOUS
    <3>1. n - k + 1 \in 1 .. n /\ n - (n - k + 1) + 1 = k
      BY <2>1
    <3> QED BY <2>1, <3>1
  <2>3. Validate(p) <=> Validate(policy)
    <3>1. (p.rules = <<>>) <=> policy.rules = <<>>
      BY <1>2, <2>1 DEF TypeOK, PolicySet
    <3>2. (\A k \in 1 .. n : RuleValid(p.rules[k])) <=> \A k \in 1 .. n : RuleValid(policy.rules[k])
      BY <2>1, <2>2
    <3> QED BY <2>1, <3>1, <3>2 DEF Validate
  <2>4. \A actions : RuleSays(p, findings, actions) <=> RuleSays(policy, findings, actions)
    BY <2>1, <2>2 DEF RuleSays
  <2> QED BY <2>3, <2>4 DEF Evaluate, Blocked, Review, p
<1>3. TypeOK => OrderIrrelevant
  BY <1>1, <1>2 DEF OrderIrrelevant
<1> QED BY <1>3, Typing, PTL
=============================================================================
