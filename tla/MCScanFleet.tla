----------------------------- MODULE MCScanFleet -----------------------------
(***************************************************************************)
(* Every set of scanners that Scope may return, on two slots.  Every tool  *)
(* ends well or not: killed, or with an incomplete report.  MCScanPipeline *)
(* has more outcomes per tool.                                             *)
(***************************************************************************)
EXTENDS ScanFleet

MCNames == {"app"}

It(level) == [level |-> level, path |-> <<"/src/", "app">>]
Out(exit, shape, items) == [exit |-> exit, shape |-> shape, items |-> items]

Killed == Out("killed", "malformed", <<>>)
Clean  == Out("zero", "complete", <<>>)

MCOutcomes ==
  [t \in Tools |->
     CASE t = "gitleaks" -> {Killed, Out("one", "complete", <<It("none")>>)}
       [] t = "semgrep"  -> {Killed, Out("zero", "complete", <<It("ERROR"), It("none")>>)}
       [] t = "checkov"  -> {Clean, Out("zero", "incomplete", <<It("HIGH")>>)}
       [] OTHER          -> {Killed, Clean}]
=============================================================================
