--------------------------- MODULE MCScanSession ---------------------------
(***************************************************************************)
(* One session, with the default policy, timeouts scaled down in           *)
(* proportion, and reports that pass, ask for review and block.            *)
(***************************************************************************)
EXTENDS ScanSession

MCNames  == {"app"}
MCPolicy == DefaultPolicy

Found(severity) == [scanner |-> "trivy", severity |-> severity, path |-> <<"", "app">>]

MCReports == {<<>>, <<Found("HIGH")>>, <<Found("LOW"), Found("CRITICAL")>>}
=============================================================================
