----------------------------- MODULE MCWatchdogs -----------------------------
(***************************************************************************)
(* Instances for TLC of three jobs that share no state: the watchdog of    *)
(* the *arr services, those of qBittorrent and its VPN, and the throttle   *)
(* of qBittorrent, whose requests are refused while it is down.  As their  *)
(* interleavings tell nothing that each of them does not, a behaviour is   *)
(* one of the part that is chosen at its start.                            *)
(***************************************************************************)
EXTENDS ArrServices, QbitVpn, PlexThrottle

VARIABLE part

OneInit ==
    /\ part \in {"services", "qbit", "throttle"}
    /\ Init /\ QbitInit /\ ThrottleInit
    /\ part # "throttle" => playing = "idle" /\ limit = IdleLimit

allVars == <<part, vars, qbitVars, throttleVars>>

OneOf(ofServices, ofQbit, ofThrottle) ==
    /\ UNCHANGED part
    /\ \/ part = "services" /\ ofServices /\ UNCHANGED <<qbitVars, throttleVars>>
       \/ part = "qbit" /\ ofQbit /\ UNCHANGED <<vars, throttleVars>>
       \/ part = "throttle" /\ ofThrottle /\ UNCHANGED <<vars, qbitVars>>

OneNext == OneOf(Next, QbitNext, ThrottleNext)

RestartOf(s) == s0 = s /\ RestartSucceeds
Waived == FALSE

\* The fairness of FairSpec, QbitFairSpec and ThrottleFairSpec.  As part never
\* changes, fairness of one action of each part taken together is fairness of each
\* of them; Waived where a part has fewer conditions than the others.
OneFairSpec ==
    /\ OneInit /\ [][OneNext]_allVars
    /\ WF_allVars(OneOf(SweepStep, QbitStep, ThrottleTick))
    /\ WF_allVars(OneOf(Tick /\ sweep = Over, VpnStep, Applied \/ ReplyLost \/ Refused))
    /\ SF_allVars(OneOf(RestartOf(1), QbitTick /\ qjob = QbitOver, Look))
    /\ SF_allVars(OneOf(RestartOf(2), QbitRestarted, Applied))
    /\ SF_allVars(OneOf(RestartOf(3), VpnRestarted, Waived))
    /\ \A s \in Services \ Unreadable : SF_allVars(OneOf(Inspected(s), Waived, Waived))

=============================================================================
