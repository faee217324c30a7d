---------------------------- MODULE MCPushGate ----------------------------
(***************************************************************************)
(* Pushes of a new commit, of a second commit on another branch, and of an *)
(* old commit that the shallow fetch of the proxy does not bring.          *)
(***************************************************************************)
EXTENDS PushGate

CONSTANTS p1, p2, r1, new, feat, old

MCKindOf == [o \in Objects |-> IF o = old THEN "missing" ELSE "commit"]

Update(name, obj) == [ref |-> name, sha |-> obj]

Main  == <<"a">>
Slash == <<"f", "/", "b">>
Under == <<"f", "_", "b">>

MCModes     == {[scan |-> "local", fail |-> "closed"], [scan |-> "api", fail |-> "closed"],
                [scan |-> "api", fail |-> "open"]}
MCBothScans == {m \in MCModes : m.scan = "api" => m.fail = "open"}

\* One ref, with the deletion of another.
MCOneRef == { <<Update(Slash, Zero), Update(Main, new)>> }

\* The same first commit alone, with a second one on a branch of its own, with a
\* second one on a branch that differs in a slash; a deletion alone.
MCRefLists == {
  <<Update(Main, new)>>,
  <<Update(Main, new), Update(Under, feat)>>,
  <<Update(Slash, new), Update(Under, feat)>>,
  <<Update(Main, Zero)>> }

\* A branch at an old commit, alone and beside a new one.
MCOldRefs == { <<Update(Main, old)>>, <<Update(Main, new), Update(Under, old)>> }
=============================================================================
