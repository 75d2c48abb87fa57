-------------------------------- MODULE Auth --------------------------------
(***************************************************************************)
(* Authentication methods (`DiscoveryAuthMethod', compose/config.rs) and   *)
(* the three refinements a compose applies to those of a collected config. *)
(*                                                                         *)
(*   method: [kind, server, resource, scopes]                              *)
(*     kind "password" or "bearer": what a login sends                     *)
(*     kind "issuer": an OAuth server whose grants are not known yet       *)
(*     kind "grant": an OAuth grant of that server, possibly bound to a    *)
(*       resource and its scopes                                           *)
(*                                                                         *)
(* The methods of a config are a set: their order is left out. Fields that *)
(* a kind does not have are "none".                                        *)
(***************************************************************************)
LOCAL Method(kind, server) ==
  [kind |-> kind, server |-> server, resource |-> "none", scopes |-> "none"]

Password == Method("password", "none")
Bearer == Method("bearer", "none")
Issuer(server) == Method("issuer", server)
Grant(server) == Method("grant", server)

IsLogin(m) == m.kind \in {"password", "bearer"}
IsOauth(m) == m.kind \in {"issuer", "grant"}

(* What the schemes of a 401 say about logins; others say nothing.         *)
Advertised(schemes) ==
  {m \in {Password, Bearer} :
     \/ m = Password /\ "basic" \in schemes
     \/ m = Bearer /\ "bearer" \in schemes}

(* Plausible bugs: what was discovered stays next to what is advertised;   *)
(* OAuth is dropped with the logins.                                       *)
RefineAuthKeepsAll(auth, schemes) == auth \cup Advertised(schemes)

RefineAuthDropsAll(auth, schemes) ==
  IF Advertised(schemes) = {} THEN auth ELSE Advertised(schemes)

(* `refine_auth': the advertisement of the endpoint replaces the logins.   *)
RefineAuth(auth, schemes) ==
  IF Advertised(schemes) = {}
  THEN auth
  ELSE {m \in auth : ~IsLogin(m)} \cup Advertised(schemes)

(* `add_resource_issuers': only for a config without OAuth.                *)
AddResourceIssuers(auth, servers) ==
  IF \E m \in auth : IsOauth(m)
  THEN auth
  ELSE auth \cup {Issuer(s) : s \in servers}

(* Every issuer replaced by what its resolution found, `resolved[server]'; *)
(* an issuer nothing was found of stays.                                   *)
ReplaceIssuers(auth, resolved) ==
  UNION {IF m.kind = "issuer" /\ m.server \in DOMAIN resolved
         THEN resolved[m.server]
         ELSE {m} : m \in auth}

(* `set_oauth_resource': scopes are replaced when the metadata lists any.  *)
BindGrants(auth, metadata) ==
  {IF m.kind = "grant"
   THEN [m EXCEPT !.resource = metadata.resource,
                  !.scopes = IF metadata.scopes = "none" THEN @ ELSE metadata.scopes]
   ELSE m : m \in auth}
=============================================================================
