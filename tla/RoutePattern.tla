---------------------------- MODULE RoutePattern ----------------------------
(***************************************************************************)
(* What the documentation of _probe_external_route says is the sign of a   *)
(* proxy in need of a restart: the service itself answers fast while its   *)
(* public route is slow, for Threshold ticks.  A history of that pattern,  *)
(* beside the counter by which the code decides.                           *)
(***************************************************************************)
EXTENDS ServiceResponsiveness

VARIABLE pattern    \* history: ticks in a row in which a route showed the pattern

Signature == sweep.ok /\ RouteSlow(p0)
RouteProbed == sweep.pc = "external" /\ sweep' # sweep

PatternInit == Init /\ pattern = [p \in Probes |-> 0]

PatternNext ==
    /\ Next
    /\ pattern' =
          IF RouteProbed
          THEN [pattern EXCEPT ![p0] = IF Signature THEN AtMost(@ + 1, Threshold) ELSE 0]
          ELSE pattern

PatternSpec == PatternInit /\ [][PatternNext]_<<vars, pattern>>

\* "When that pattern repeats for consecutive_threshold ticks, we restart": the
\* proxy is restarted for a route only after the service was fast and the route
\* slow in each of the last Threshold ticks.
PatternRepeats == sweep.pc = "proxy" => pattern[p0] = Threshold

=============================================================================
