--------------------------- MODULE MCRemoteAdapter ---------------------------
(***************************************************************************)
(* The default policy, the timeouts of the code, and reports that pass,    *)
(* ask for review and block.                                               *)
(***************************************************************************)
EXTENDS RemoteAdapter

MCNames  == {"app"}
MCPolicy == DefaultPolicy

Found(severity) == [scanner |-> "trivy", severity |-> severity, path |-> <<"", "app">>]

MCReports == {<<>>, <<Found("HIGH")>>, <<Found("LOW"), Found("CRITICAL")>>}
=============================================================================
