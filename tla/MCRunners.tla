----------------------------- MODULE MCRunners -----------------------------
(* A bounded instance of Runners for TLC: five mail hosts, two of them of  *)
(* one provider, one of the domain itself and one under a public suffix;   *)
(* at most three records in an MX answer, two in a CNAME or TXT one.       *)
EXTENDS Runners

MCExchanges == 1 .. 5
MCBaseOf == <<"a", "b", "a", "domain", "none">>
MCProviderOf == <<"google", "microsoft", "google", "none", "none">>
MCAliases == {<<"", "host">>, <<"", "cdn">>}
MCMailconfUrls == {Url(s, <<"", "conf">>, "mail") : s \in {"tcp", "http", "https"}}
=============================================================================
