--------------------------- MODULE MCScanPipeline ---------------------------
(***************************************************************************)
(* Scans of three targets under three policies.  The outcomes cover a      *)
(* pass, a review, a block by floor and by rule, and each kind of failure. *)
(***************************************************************************)
EXTENDS ScanPipeline

MCNames == {"app"}

It(level) == [level |-> level, path |-> <<"/src/", "app">>]
Out(exit, shape, items) == [exit |-> exit, shape |-> shape, items |-> items]

Killed == Out("killed", "malformed", <<>>)
Clean  == Out("zero", "complete", <<>>)

MCOutcomes ==
  [t \in Tools |->
     {Clean} \cup
     CASE t = "gitleaks" -> {Out("one", "complete", <<It("none")>>)}
       [] t = "semgrep"  -> {Killed, Out("zero", "complete", <<It("WARNING")>>),
                             Out("zero", "complete", <<It("none"), It("none")>>)}
       [] t = "trivy"    -> {Out("unstarted", "malformed", <<>>),
                             Out("zero", "complete", <<It("LOW")>>)}
       [] OTHER          -> {Killed}]

MCTargets ==
  { [history |-> FALSE, lockfile |-> FALSE, infra |-> FALSE],
    [history |-> FALSE, lockfile |-> TRUE, infra |-> FALSE],
    [history |-> TRUE, lockfile |-> TRUE, infra |-> FALSE] }

\* Two MEDIUM findings in all ask for review, whichever tools they come from.
Counting ==
  [ named |-> TRUE,
    rules |-> <<[AnyFile(Unset, "MEDIUM", "REVIEW") EXCEPT !.threshold = 2],
                [AnyFile("trivy", Unset, "PASS") EXCEPT !.threshold = 1]>> ]

MCPolicies == {DefaultPolicy, Counting, [named |-> TRUE, rules |-> <<>>]}
=============================================================================
