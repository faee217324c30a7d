--------------------------- MODULE ProtectedBranch ---------------------------
(***************************************************************************)
(* What the pull request gate promises of the protected branch              *)
(* (docs/CI_GATE.md): it only grows, and a version has no flaw that the     *)
(* version before it did not have, from the very same inputs.               *)
(***************************************************************************)
EXTENDS PrFindings, Sequences

VARIABLE main   \* the trees of the branch, oldest first

Init == \E tree \in Tree : main = <<tree>>

Extend ==
  /\ Len(main') = Len(main) + 1
  /\ \E tree \in Tree :
       /\ main' = Append(main, tree)
       /\ Flaws(tree) \subseteq Flaws(main[Len(main)])

Spec == Init /\ [][Extend]_main
=============================================================================
