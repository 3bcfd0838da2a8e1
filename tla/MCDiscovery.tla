---------------------------- MODULE MCDiscovery ----------------------------
(* Five instances around a caller at <<1, 1, 1>>: two on its node, one on    *)
(* another node of its datacenter, one in another datacenter of its          *)
(* location, one in another location; keys sort before and after its own.    *)
EXTENDS Discovery

MCKey == {<<1, 1, 1, 1>>, <<1, 1, 1, 2>>, <<1, 1, 2, 1>>, <<1, 0, 1, 1>>, <<0, 1, 1, 1>>}
MCSelf == <<1, 1, 1>>
=============================================================================
