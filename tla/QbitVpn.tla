------------------------------- MODULE QbitVpn -------------------------------
(***************************************************************************)
(* run_qbit_health and run_vpn_health.  qBittorrent's container shares the *)
(* network of the VPN's: it answers only while both run and it was started *)
(* after the VPN.  One job restarts qBittorrent (when it has exited, when  *)
(* the VPN was restarted under it, or when it does not answer Threshold    *)
(* times in a row), the other the VPN, and neither knows of the other.     *)
(*                                                                         *)
(* Time is counted in intervals of the qBittorrent job.                    *)
(***************************************************************************)
EXTENDS Integers, Capped

CONSTANTS
    QbitThreshold,    \* running_unreachable_threshold
    QbitCooldown,     \* restart_cooldown, in intervals
    MaxQbitFaults     \* bound: containers that exit, hang, restart; failing Docker calls

ASSUME QbitThresholdAssumption == QbitThreshold \in Nat \ {0}
ASSUME QbitCooldownAssumption == QbitCooldown \in Nat
ASSUME QbitFaultsAssumption == MaxQbitFaults \in Nat

VARIABLES
    qbit,              \* qBittorrent's container, according to Docker
    hung,              \* its process does not answer
    vpn,               \* the VPN's container, according to Docker
    stale,             \* the VPN was started after qBittorrent
    qbitUnreachable,   \* state.consecutive_unreachable, counted up to the threshold
    qbitAttempt,       \* now - state.last_restart_attempt; the cooldown if it is over
    qjob,              \* the run of the qBittorrent job in this interval, and whether
                       \*   the VPN was started after the start of qBittorrent it read
    vjob,              \* the run of the VPN job
    qbitFailing,       \* history: unanswered probes in a row
    vpnSince,          \* history: the VPN was started since docktarr restarted it
    qbitFaults

qbitContainers == <<qbit, hung, vpn, stale>>
qbitState == <<qbitUnreachable, qbitAttempt>>
qbitHistory == <<qbitFailing, vpnSince>>
qbitVars == <<qbitContainers, qbitState, qjob, vjob, qbitHistory, qbitFaults>>

Statuses == {"running", "exited", "missing"}
Restarts == {"exited", "stale", "hung"}
QbitDue == [pc |-> "due", stale |-> FALSE]
QbitOver == [pc |-> "over", stale |-> FALSE]

QbitTypeOK ==
    /\ qbit \in Statuses
    /\ vpn \in Statuses
    /\ hung \in BOOLEAN /\ stale \in BOOLEAN
    /\ qbitUnreachable \in 0 .. QbitThreshold
    /\ qbitAttempt \in 0 .. QbitCooldown
    /\ qjob \in [pc : {"due", "probe", "inspect", "vpn", "over"} \cup Restarts,
                 stale : BOOLEAN]
    /\ vjob \in {"idle", "inspect", "restart"}
    /\ qbitFailing \in 0 .. QbitThreshold
    /\ vpnSince \in BOOLEAN
    /\ qbitFaults \in 0 .. MaxQbitFaults

QbitInit ==
    /\ qbit = "running" /\ hung = FALSE
    /\ vpn = "running"
    /\ stale = FALSE
    /\ qbitUnreachable = 0
    /\ qbitAttempt = QbitCooldown
    /\ qjob = QbitDue
    /\ vjob = "idle"
    /\ qbitFailing = 0
    /\ vpnSince = FALSE
    /\ qbitFaults = 0

\* login() and /app/version succeed.
QbitReachable == qbit = "running" /\ ~hung /\ vpn = "running" /\ ~stale

\* Docker starts a container: the order of the two starts is all that is read.
\* The job in hand compares with the start it has read.
QbitStarts ==
    /\ qbit' = "running"
    /\ hung' = FALSE
    /\ stale' = FALSE
VpnStarts ==
    /\ vpn' = "running"
    /\ stale' = TRUE
    /\ vpnSince' = TRUE
    /\ qjob' = IF qjob.pc = "vpn" THEN [qjob EXCEPT !.stale = TRUE] ELSE qjob

-----------------------------------------------------------------------------
(* run_qbit_health *)

QbitBegin ==
    /\ qjob.pc = "due"
    /\ qjob' = [qjob EXCEPT !.pc = "probe"]
    /\ UNCHANGED <<qbitContainers, qbitState, vjob, qbitHistory, qbitFaults>>

QbitCountKept == qbitUnreachable
CountLowered == qbitUnreachable - 1
Forgotten == 0

QbitAlive ==
    /\ qjob.pc = "probe"
    /\ QbitReachable
    /\ qbitUnreachable' = Forgotten
    /\ qbitFailing' = 0
    /\ qjob' = QbitOver
    /\ UNCHANGED <<qbitContainers, qbitAttempt, vjob, vpnSince, qbitFaults>>

QbitDead ==
    /\ qjob.pc = "probe"
    /\ ~QbitReachable
    /\ qbitFailing' = AtMost(qbitFailing + 1, QbitThreshold)
    /\ qjob' = [qjob EXCEPT !.pc = "inspect"]
    /\ UNCHANGED <<qbitContainers, qbitState, vjob, vpnSince, qbitFaults>>

QbitMissing ==
    /\ qjob.pc = "inspect"
    /\ qbit = "missing"
    /\ qjob' = QbitOver
    /\ UNCHANGED <<qbitContainers, qbitState, vjob, qbitHistory, qbitFaults>>

QbitExited ==
    /\ qjob.pc = "inspect"
    /\ qbit = "exited"
    /\ IF qbitAttempt = QbitCooldown
       THEN /\ qbitAttempt' = 0
            /\ qjob' = [qjob EXCEPT !.pc = "exited"]
       ELSE /\ UNCHANGED qbitAttempt
            /\ qjob' = QbitOver
    /\ UNCHANGED <<qbitContainers, qbitUnreachable, vjob, qbitHistory, qbitFaults>>

QbitRuns ==
    /\ qjob.pc = "inspect"
    /\ qbit = "running"
    /\ qjob' = [pc |-> "vpn", stale |-> stale]
    /\ UNCHANGED <<qbitContainers, qbitState, vjob, qbitHistory, qbitFaults>>

\* The VPN was started after the start of qBittorrent that was read.
NewerVpn == vpn # "missing" /\ qjob.stale

NamespaceStale ==
    /\ qjob.pc = "vpn"
    /\ NewerVpn
    /\ qjob' = [qjob EXCEPT !.pc = "stale"]
    /\ UNCHANGED <<qbitContainers, qbitState, vjob, qbitHistory, qbitFaults>>

QbitReached(count) == count >= QbitThreshold

NamespaceCurrent ==
    /\ qjob.pc = "vpn"
    /\ ~NewerVpn
    /\ qbitUnreachable' = AtMost(qbitUnreachable + 1, QbitThreshold)
    /\ qjob' = IF QbitReached(qbitUnreachable') THEN [qjob EXCEPT !.pc = "hung"] ELSE QbitOver
    /\ UNCHANGED <<qbitContainers, qbitAttempt, vjob, qbitHistory, qbitFaults>>

\* Docker joins the VPN's network, so the VPN has to run.
QbitRestarted ==
    /\ qjob.pc \in Restarts
    /\ qbit # "missing" /\ vpn = "running"
    /\ QbitStarts
    /\ qbitUnreachable' = Forgotten
    /\ qjob' = QbitOver
    /\ qbitFailing' = 0
    /\ vpnSince' = FALSE
    /\ UNCHANGED <<vpn, qbitAttempt, vjob, qbitFaults>>

\* Docker stops the container and fails to start it, or fails at once.  The
\* failure is caught only where the container had exited; the run ends either way.
QbitRestartFails ==
    /\ qjob.pc \in Restarts
    /\ qbit' \in IF qbit = "running" THEN {"running", "exited"} ELSE {qbit}
    /\ qjob' = QbitOver
    /\ UNCHANGED <<hung, vpn, stale, qbitState, vjob, qbitFailing, vpnSince, qbitFaults>>

-----------------------------------------------------------------------------
(* run_vpn_health: a run may begin at any time, since its interval is shorter. *)

VpnBegin ==
    /\ vjob = "idle"
    /\ vjob' = "inspect"
    /\ UNCHANGED <<qbitContainers, qbitState, qjob, qbitHistory, qbitFaults>>

\* Whether the container runs is all that is asked before the region is checked.
StoppedByName == vpn = "dead"
Stopped == vpn = "exited"

VpnInspected ==
    /\ vjob = "inspect"
    /\ vjob' = IF Stopped THEN "restart" ELSE "idle"
    /\ UNCHANGED <<qbitContainers, qbitState, qjob, qbitHistory, qbitFaults>>

VpnRestarted ==
    /\ vjob = "restart"
    /\ vpn # "missing"
    /\ vjob' = "idle"
    /\ VpnStarts
    /\ UNCHANGED <<qbit, hung, qbitState, qbitFailing, qbitFaults>>

VpnRestartFails ==
    /\ vjob = "restart"
    /\ vjob' = "idle"
    /\ UNCHANGED <<qbitContainers, qbitState, qjob, qbitHistory, qbitFaults>>

-----------------------------------------------------------------------------
(* The environment *)

Faulty ==
    /\ qbitFaults < MaxQbitFaults
    /\ qbitFaults' = qbitFaults + 1

\* Docker does not answer an inspection: the exception ends the run.
DockerFails ==
    /\ Faulty
    /\ \/ /\ qjob.pc \in {"inspect", "vpn"}
          /\ qjob' = QbitOver
          /\ UNCHANGED vjob
       \/ /\ vjob = "inspect"
          /\ vjob' = "idle"
          /\ UNCHANGED qjob
    /\ UNCHANGED <<qbitContainers, qbitState, qbitHistory>>

QbitFault ==
    /\ Faulty
    /\ \/ qbit' \in Statuses \ {"running"} /\ UNCHANGED <<hung, stale>>
       \/ qbit = "running" /\ hung' = TRUE /\ UNCHANGED <<qbit, stale>>
       \/ vpn = "running" /\ QbitStarts
    /\ UNCHANGED <<vpn, qbitState, qjob, vjob, qbitHistory>>

VpnFault ==
    /\ Faulty
    /\ \/ vpn' \in {"exited", "missing"} /\ UNCHANGED <<stale, vpnSince, qjob>>
       \/ VpnStarts
    /\ UNCHANGED <<qbit, hung, qbitState, vjob, qbitFailing>>

QbitTick ==
    /\ qjob \in {QbitDue, QbitOver} /\ vjob = "idle"
    /\ qjob' = QbitDue
    /\ qbitAttempt' = AtMost(qbitAttempt + 1, QbitCooldown)
    /\ UNCHANGED <<qbitContainers, qbitUnreachable, vjob, qbitFailing, vpnSince, qbitFaults>>

QbitStep ==
    \/ QbitBegin
    \/ QbitAlive
    \/ QbitDead
    \/ QbitMissing
    \/ QbitExited
    \/ QbitRuns
    \/ NamespaceStale
    \/ NamespaceCurrent
    \/ QbitRestarted
    \/ QbitRestartFails

VpnStep ==
    \/ VpnBegin
    \/ VpnInspected
    \/ VpnRestarted
    \/ VpnRestartFails

QbitNext ==
    \/ QbitStep
    \/ VpnStep
    \/ DockerFails
    \/ QbitFault
    \/ VpnFault
    \/ QbitTick

QbitSpec == QbitInit /\ [][QbitNext]_qbitVars

\* Both jobs run again and again and every await ends; a restart that is asked
\* for again and again, while it is possible, succeeds in the end.
QbitFairSpec ==
    /\ QbitSpec
    /\ WF_qbitVars(QbitStep)
    /\ WF_qbitVars(VpnStep)
    /\ SF_qbitVars(QbitTick /\ qjob = QbitOver)
    /\ SF_qbitVars(QbitRestarted)
    /\ SF_qbitVars(VpnRestarted)

-----------------------------------------------------------------------------
(* Properties *)

\* qBittorrent is restarted for a cause only: as hung after Threshold probes in a
\* row without an answer since it last answered or was restarted; for a stale
\* namespace at most once for every start of the VPN, although the VPN job may
\* restart the VPN between the two inspections, or while the restart is awaited.
RestartHasCause ==
    /\ qjob.pc = "hung" => qbitFailing = QbitThreshold
    /\ qjob.pc = "stale" => vpnSince

\* The two watchdogs together bring qBittorrent back, whatever exits, hangs or is
\* restarted under the other, unless a container is removed.
QbitServes == []<>(QbitReachable \/ qbit = "missing" \/ vpn = "missing")

=============================================================================
