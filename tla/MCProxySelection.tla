-------------------------- MODULE MCProxySelection --------------------------
(* Lists of up to three proxies: with three, one can pass, one fail and one *)
(* hang or not parse, in every order.                                       *)
EXTENDS ProxySelection

MCMaxProxies == 3
=============================================================================
