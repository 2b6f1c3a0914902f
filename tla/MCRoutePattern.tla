--------------------------- MODULE MCRoutePattern ---------------------------
(* An instance of RoutePattern for TLC.                                      *)
EXTENDS RoutePattern

\* One probe, its route leads through one proxy.
OneProxy == [p \in Probes |-> N + 1]
=============================================================================
