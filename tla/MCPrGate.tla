------------------------------ MODULE MCPrGate ------------------------------
(***************************************************************************)
(* Two pull requests on a Terraform source and two lockfiles.  The trees   *)
(* have a flaw of the source, one of a lockfile that the other one hides   *)
(* behind an unchanged manifest, another content with the same flaw, and a *)
(* suppressed one.                                                         *)
(***************************************************************************)
EXTENDS PrGate, TLC

MCTree(tf, sum) == "main.tf" :> tf @@ "go.mod" :> "ok" @@ "go.sum" :> sum

MCInitial == {MCTree("ok", "ok"), MCTree("bad", "bad")}

MCPushed ==
  {MCTree("ok", "ok"), MCTree("muted", "ok"), MCTree("bad", "bad"), MCTree("worse", "bad"),
   MCTree("bad", "worse")}
=============================================================================
