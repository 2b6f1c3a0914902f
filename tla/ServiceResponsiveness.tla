------------------------ MODULE ServiceResponsiveness ------------------------
(***************************************************************************)
(* run_service_responsiveness: every interval docktarr measures how fast   *)
(* services answer, directly and through the public proxy.  After          *)
(* Threshold slow probes in a row the service's container is restarted;    *)
(* when only the public route is slow, the proxy's is.  Each probe has its *)
(* own counters and cooldowns, several routes may lead through one proxy.  *)
(*                                                                         *)
(* Time is counted in scheduler intervals, each with at most one sweep.    *)
(***************************************************************************)
EXTENDS Integers, Capped

CONSTANTS
    N,           \* probes, in the order in which they are configured
    M,           \* proxies
    External,    \* the probes with an external_url
    ProxyOf,     \* external_proxy_container of a probe; 0 if it has none
    Threshold,   \* consecutive_threshold
    Cooldown,    \* restart_cooldown, in intervals
    MaxFaults    \* bound: containers that become slow

Probes == 1 .. N
Proxies == N + 1 .. N + M
Containers == Probes \cup Proxies   \* a probe stands for its own container

ASSUME ProbesAssumption == N \in Nat /\ M \in Nat /\ External \subseteq Probes
ASSUME ProxyAssumption == ProxyOf \in [Probes -> Proxies \cup {0}]
ASSUME ThresholdAssumption == Threshold \in Nat \ {0}
ASSUME CooldownAssumption == Cooldown \in Nat
ASSUME FaultsAssumption == MaxFaults \in Nat

VARIABLES
    slow,          \* the containers that answer slowly, with errors or not at all
    count,         \* consecutive_slow, counted up to the threshold
    extCount,      \* external_consecutive_slow, likewise
    attempt,       \* now - last_restart_attempt; the cooldown if it is over
    extAttempt,    \* now - last_external_restart_attempt, likewise
    sweep,         \* the run of this interval: the probe in hand, what is awaited
    rested,        \* history: time since Docker was last asked to restart it
    failing,       \* history: slow probes in a row of a service, or of the routes
                   \* through a proxy, whether proxy or service was to blame
    faults

counters == <<count, extCount>>
attempts == <<attempt, extAttempt>>
history == <<rested, failing>>
vars == <<slow, counters, attempts, sweep, history, faults>>

Awaits == {"internal", "restart", "external", "proxy"}
Due == [pc |-> "due", cur |-> 1, ok |-> FALSE]
Over == [pc |-> "over", cur |-> 1, ok |-> FALSE]

TypeOK ==
    /\ slow \subseteq Containers
    /\ count \in [Probes -> 0 .. Threshold]
    /\ extCount \in [Probes -> 0 .. Threshold]
    /\ attempt \in [Probes -> 0 .. Cooldown]
    /\ extAttempt \in [Probes -> 0 .. Cooldown]
    /\ sweep \in [pc : Awaits \cup {"due", "over"}, cur : 1 .. N + 1, ok : BOOLEAN]
    /\ rested \in [Containers -> 0 .. Cooldown]
    /\ failing \in [Containers -> 0 .. Threshold]
    /\ faults \in 0 .. MaxFaults

Init ==
    /\ slow = {}
    /\ count = [p \in Probes |-> 0]
    /\ extCount = [p \in Probes |-> 0]
    /\ attempt = [p \in Probes |-> Cooldown]
    /\ extAttempt = [p \in Probes |-> Cooldown]
    /\ sweep = Due
    /\ rested = [c \in Containers |-> Cooldown]
    /\ failing = [c \in Containers |-> 0]
    /\ faults = 0

-----------------------------------------------------------------------------
(* The sweep *)

p0 == sweep.cur
proxy0 == ProxyOf[p0]

Begin ==
    /\ sweep.pc = "due"
    /\ sweep' = [pc |-> "internal", cur |-> 1, ok |-> FALSE]
    /\ UNCHANGED <<slow, counters, attempts, history, faults>>

NextProbe == [pc |-> "internal", cur |-> p0 + 1, ok |-> FALSE]

\* After the internal probe comes the external one, where there is one.
Proceed(ok) ==
    IF p0 \in External THEN [pc |-> "external", cur |-> p0, ok |-> ok] ELSE NextProbe

CountedDown(c) == [c EXCEPT ![p0] = @ - 1]
Counted(c) == [c EXCEPT ![p0] = AtMost(@ + 1, Threshold)]
Failing(c) == [failing EXCEPT ![c] = AtMost(@ + 1, Threshold)]
Answered(c) == [failing EXCEPT ![c] = 0]

CountKept(c) == c
Forgotten(c) == [c EXCEPT ![p0] = 0]

Reached(n) == n >= Threshold

CooledDown(since) == since[p0] = Cooldown

InternalOk ==
    /\ sweep.pc = "internal"
    /\ p0 \in Probes \ slow
    /\ count' = Forgotten(count)
    /\ sweep' = Proceed(TRUE)
    /\ failing' = Answered(p0)
    /\ UNCHANGED <<slow, extCount, attempts, rested, faults>>

InternalSlow ==
    /\ sweep.pc = "internal"
    /\ p0 \in Probes \cap slow
    /\ count' = Counted(count)
    /\ IF Reached(count'[p0]) /\ CooledDown(attempt)
       THEN /\ attempt' = [attempt EXCEPT ![p0] = 0]
            /\ sweep' = [sweep EXCEPT !.pc = "restart"]
       ELSE /\ UNCHANGED attempt
            /\ sweep' = Proceed(FALSE)
    /\ failing' = Failing(p0)
    /\ UNCHANGED <<slow, extCount, extAttempt, rested, faults>>

AppRestarted ==
    /\ sweep.pc = "restart"
    /\ slow' = slow \ {p0}
    /\ count' = Forgotten(count)
    /\ sweep' = Proceed(FALSE)
    /\ rested' = [rested EXCEPT ![p0] = 0]
    /\ failing' = Answered(p0)
    /\ UNCHANGED <<extCount, attempts, faults>>

AppRestartFails ==
    /\ sweep.pc = "restart"
    /\ sweep' = Proceed(FALSE)
    /\ rested' = [rested EXCEPT ![p0] = 0]
    /\ UNCHANGED <<slow, counters, attempts, failing, faults>>

\* The public route answers no faster than the service and the proxy do.
RouteSlow(p) == p \in slow \/ ProxyOf[p] \in slow

ExternalOk ==
    /\ sweep.pc = "external"
    /\ ~RouteSlow(p0)
    /\ extCount' = Forgotten(extCount)
    /\ sweep' = NextProbe
    /\ failing' = IF proxy0 = 0 THEN failing ELSE Answered(proxy0)
    /\ UNCHANGED <<slow, count, attempts, rested, faults>>

\* Only a slow route of a service that answered is put down to the proxy.
BlamesService == ~sweep.ok /\ proxy0 # 0
BlamesProxy == sweep.ok /\ proxy0 # 0

ExternalSlow ==
    /\ sweep.pc = "external"
    /\ RouteSlow(p0)
    /\ extCount' = Counted(extCount)
    /\ IF Reached(extCount'[p0]) /\ BlamesProxy /\ CooledDown(extAttempt)
       THEN /\ extAttempt' = [extAttempt EXCEPT ![p0] = 0]
            /\ sweep' = [sweep EXCEPT !.pc = "proxy"]
       ELSE /\ UNCHANGED extAttempt
            /\ sweep' = NextProbe
    /\ failing' = IF proxy0 = 0 THEN failing ELSE Failing(proxy0)
    /\ UNCHANGED <<slow, count, attempt, rested, faults>>

ProxyRestarted ==
    /\ sweep.pc = "proxy"
    /\ slow' = slow \ {proxy0}
    /\ extCount' = Forgotten(extCount)
    /\ sweep' = NextProbe
    /\ rested' = [rested EXCEPT ![proxy0] = 0]
    /\ failing' = Answered(proxy0)
    /\ UNCHANGED <<count, attempts, faults>>

ProxyRestartFails ==
    /\ sweep.pc = "proxy"
    /\ sweep' = NextProbe
    /\ rested' = [rested EXCEPT ![proxy0] = 0]
    /\ UNCHANGED <<slow, counters, attempts, failing, faults>>

Finish ==
    /\ sweep.pc = "internal"
    /\ p0 = N + 1
    /\ sweep' = Over
    /\ UNCHANGED <<slow, counters, attempts, history, faults>>

-----------------------------------------------------------------------------
(* The environment *)

SlowsDown(c) ==
    /\ faults < MaxFaults
    /\ faults' = faults + 1
    /\ slow' = slow \cup {c}
    /\ UNCHANGED <<counters, attempts, sweep, history>>

Recovers(c) ==
    /\ c \in slow
    /\ slow' = slow \ {c}
    /\ UNCHANGED <<counters, attempts, sweep, history, faults>>

Older(age) == [x \in DOMAIN age |-> AtMost(age[x] + 1, Cooldown)]

Tick ==
    /\ sweep \in {Due, Over}
    /\ sweep' = Due
    /\ attempt' = Older(attempt)
    /\ extAttempt' = Older(extAttempt)
    /\ rested' = Older(rested)
    /\ UNCHANGED <<slow, counters, failing, faults>>

SweepStep ==
    \/ Begin
    \/ InternalOk
    \/ InternalSlow
    \/ AppRestarted
    \/ AppRestartFails
    \/ ExternalOk
    \/ ExternalSlow
    \/ ProxyRestarted
    \/ ProxyRestartFails
    \/ Finish

Next ==
    \/ SweepStep
    \/ \E c \in Containers : SlowsDown(c) \/ Recovers(c)
    \/ Tick

Spec == Init /\ [][Next]_vars

\* The scheduler starts a sweep in every interval, every await ends, and a
\* restart that is asked for again and again succeeds in the end.
FairSpec ==
    /\ Spec
    /\ WF_vars(SweepStep)
    /\ WF_vars(Tick /\ sweep = Over)
    /\ \A p \in Probes :
          /\ SF_vars(p0 = p /\ AppRestarted)
          /\ SF_vars(p0 = p /\ ProxyRestarted)

-----------------------------------------------------------------------------
(* Properties *)

\* Where no two routes share a proxy the sweep keeps the promise of a restart
\* guard, for the services' containers and for the proxies: two counters and two
\* cooldowns per probe, reset at different places, never restart a container that
\* answered since, or one whose last restart is too recent.  For a proxy an answer
\* is a fast answer of its route, and a failure a slow one whoever was to blame:
\* ticks in which the service was slow too count towards the threshold, though the
\* documentation has it that they do not (RoutePattern).
Guard == INSTANCE RestartGuard WITH
    status <- [c \in Containers |-> "running"],
    found <- [c \in Containers |-> "unknown"]
Guarded == Guard!Spec

\* Slow services and slow routes are brought back, though the two are counted
\* apart, a slow service hides a slow proxy, and restarts fail.
FastAgain ==
    \A p \in Probes :
        /\ []<>(p \notin slow)
        /\ p \in External /\ ProxyOf[p] # 0 => []<>~RouteSlow(p)

=============================================================================
