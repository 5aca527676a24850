----------------------------- MODULE MCRouteCtrl -----------------------------
(* An instance of RouteCtrl for TLC.  Commands treat prefixes as names.    *)
EXTENDS RouteCtrl

MCPrefixes == {[addr |-> 0, len |-> 0], [addr |-> 0, len |-> 1]}
============================================================================
