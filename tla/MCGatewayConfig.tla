--------------------------- MODULE MCGatewayConfig ---------------------------
(* Small instances of GatewayConfig: two gateways at two endpoints.        *)
EXTENDS GatewayConfig

DoEdit(op, name, url) ==
  [kind |-> "edit", override |-> None,
   edit |-> [op |-> op, name |-> name, url |-> url, oidc |-> (url \in OidcUrls)]]
Do(kind, override) == [kind |-> kind, override |-> override, edit |-> NoEdit]

(* Every command, login and ensure with -g too; a gateway may be added      *)
(* under either URL, with its issuer.                                       *)
AllJobs ==
  {DoEdit("add", "work", "http://work"), DoEdit("add", "work", "http://local"),
   DoEdit("select", "local", None), DoEdit("select", "work", None),
   DoEdit("remove", "work", None), DoEdit("logout", None, None),
   Do("login", None), Do("login", "http://work"),
   Do("ensure", None), Do("ensure", "http://work")}

(* The files found at first name no issuer: commands add it, or the gateway *)
(* announces it.                                                            *)
MCInit == Init /\ \A n \in Listed(conf) : ~conf.gateways[n].oidc
MCSpec == MCInit /\ [][Next]_vars /\ \A c \in Commands : WF_vars(Step(c))
=============================================================================
