--------------------------- MODULE MCProxySecrets ---------------------------
(* Small instances of ProxySecrets: the two GitHub names and another key.  *)
EXTENDS ProxySecrets
=============================================================================
