----------------------------- MODULE MCResolve -----------------------------
(* Bounded instances of Resolve for TLC: the domain and one other host,    *)
(* three paths, two redirects.                                             *)
EXTENDS Resolve

MCUrls == [scheme : Factories, host : {"domain", "other"}, path : {"/", "well-known", "dav"}]
MCHosts == {"other", ""}
MCPaths == {"dav"}
=============================================================================
