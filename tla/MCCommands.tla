----------------------------- MODULE MCCommands -----------------------------
(* A bounded instance of Commands for TLC: addresses of fixed providers    *)
(* and of a domain of its own, whose locations publish little, much,       *)
(* something for another command, or an endpoint in the clear.             *)
EXTENDS Commands

Own == <<"example", "org">>

MCInputs ==
  {[local |-> {"me"}, domain |-> d] : d \in {<<"gmail", "com">>, <<"hotmail", "fr">>, Own}}
  \cup {[local |-> {}, domain |-> Own]}

MCExchanges ==
  {<<<<"mx">> \o Own>>,
   <<<<"google", "com">>, <<"own", "mail", "protection", "outlook", "com">>,
     <<"aspmx", "l", "google", "com">>>>,
   <<<<"aspmx", "l", "google", "com">>, <<"mail", "protection", "outlook", "com">>>>}

Server(type, port, socket) ==
  [type |-> type, hostname |-> {<<"mail", "%EMAILDOMAIN%">>}, port |-> port, socket |-> socket,
   username |-> {<<"%EMAILADDRESS%">>}, auth |-> {"passwordCleartext", "oAuth2", "ntlm"}]

MCAutoconfigs ==
  {[servers |-> {Server("imap", {}, {}), Server("pop3", {"1110"}, {"plain"}),
                 [Server("smtp", {}, {"tls"}) EXCEPT !.hostname = {}]}, oauth2 |-> {"as"}],
   [servers |-> {Server("smtp", {}, {"starttls"}), Server("smtp", {}, {"plain"})}, oauth2 |-> {}]}

Dav(proto) == [proto |-> proto, host |-> <<"dav">> \o Own, path |-> <<"dav">>, text |-> "url"]

MCPaccs ==
  {[hosts |-> [imap |-> <<"imap">> \o Own], urls |-> [jmap |-> Dav("http")],
    issuer |-> {"as"}, password |-> {TRUE}],
   [hosts |-> <<>>, urls |-> [caldav |-> Dav("http"), webdav |-> Dav("https")],
    issuer |-> {}, password |-> {FALSE}]}

Record(host, priority, weight) ==
  [host |-> host, port |-> "1993", priority |-> priority, weight |-> weight]

Answers == SeqOf({Record(<<"a">>, 1, 0), Record(<<"b">>, 1, 5), Record(<<"c">>, 2, 9),
                  Record(Root, 0, 0)}, 2)

MCSrvAnswers ==
  {[imaps |-> a, imap |-> <<Record(<<"a">>, 1, 0)>>, submissions |-> <<>>, submission |-> b] :
     a \in Answers, b \in {<<>>, <<Record(<<"b">>, 0, 0)>>}}

MCUrls == {Dav("https"), Dav("http")}
MCSchemeSets == {{}, {"basic", "negotiate"}}
=============================================================================
