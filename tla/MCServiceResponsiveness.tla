----------------------- MODULE MCServiceResponsiveness -----------------------
(* Instances of ServiceResponsiveness for TLC.                               *)
EXTENDS ServiceResponsiveness

\* One proxy, for the route of one probe.
OwnProxy == [p \in Probes |-> IF p = 2 THEN N + 1 ELSE 0]
=============================================================================
