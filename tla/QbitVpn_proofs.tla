---------------------------- MODULE QbitVpn_proofs ----------------------------
(* Proofs about QbitVpn: qBittorrent is restarted for a cause only, however *)
(* the two watchdogs and the faults of their containers interleave.         *)
EXTENDS QbitVpn, TLAPS

USE QbitThresholdAssumption, QbitCooldownAssumption, QbitFaultsAssumption

\* No more failures are counted than probes failed; while the run that follows a
\* failed probe has not counted it, there is one more.
Counted ==
    /\ qbitUnreachable <= qbitFailing
    /\ qjob.pc \in {"inspect",
     "vpn"} => qbitUnreachable < qbitFailing \/ qbitFailing = QbitThreshold

\* The namespace is stale only through a start of the VPN since the last restart.
StaleByVpn ==
    /\ stale => vpnSince
    /\ qjob.pc = "vpn" /\ qjob.stale => vpnSince

IInv ==
    /\ QbitTypeOK
    /\ Counted
    /\ StaleByVpn
    /\ RestartHasCause

Pcs == {"due", "probe", "inspect", "vpn", "over"} \cup Restarts

LEMMA InitInv == QbitInit => IInv
<1> SUFFICES ASSUME QbitInit PROVE IInv
  OBVIOUS
<1>1. qjob = [pc |-> "due", stale |-> FALSE]
  BY DEF QbitInit, QbitDue
<1>2. qjob.pc = "due" /\ qjob \in [pc : Pcs, stale : BOOLEAN]
  BY <1>1 DEF Pcs
<1>3. QbitTypeOK
  <2>1. /\ hung \in BOOLEAN /\ stale \in BOOLEAN /\ vpnSince \in BOOLEAN
        /\ qbit \in Statuses /\ vpn \in Statuses
        /\ vjob \in {"idle", "inspect", "restart"}
    BY DEF QbitInit, Statuses
  <2>2. /\ qbitUnreachable \in 0 .. QbitThreshold /\ qbitAttempt \in 0 .. QbitCooldown
        /\ qbitFailing \in 0 .. QbitThreshold /\ qbitFaults \in 0 .. MaxQbitFaults
    BY DEF QbitInit
  <2>3. QED
    BY <1>2, <2>1, <2>2 DEF QbitTypeOK, Pcs
<1>4. Counted
  BY <1>2 DEF QbitInit, Counted
<1>5. StaleByVpn
  BY <1>2 DEF QbitInit, StaleByVpn
<1>6. RestartHasCause
  BY <1>2 DEF RestartHasCause
<1>7. QED
  BY <1>3, <1>4, <1>5, <1>6 DEF IInv

LEMMA CapType ==
  ASSUME NEW n \in Nat, NEW bound \in Nat
  PROVE  AtMost(n, bound) \in 0 .. bound
BY DEF AtMost

\* The run of the job moves on to pc and nothing else changes.
LEMMA Moved ==
  ASSUME IInv, NEW pc \in Pcs \ {"inspect", "vpn", "hung", "stale"},
         qjob' = [qjob EXCEPT !.pc = pc],
         UNCHANGED <<qbitContainers, qbitState, vjob, qbitHistory, qbitFaults>>
  PROVE  IInv'
BY DEF IInv, QbitTypeOK, Counted, StaleByVpn, RestartHasCause, Pcs, Restarts, qbitContainers,
   qbitState, qbitHistory

LEMMA Ended ==
  ASSUME IInv, qjob' = QbitOver,
         UNCHANGED <<hung, vpn, stale, qbitUnreachable, vjob, qbitHistory, qbitFaults>>,
         qbit' \in Statuses, qbitAttempt' \in 0 .. QbitCooldown
  PROVE  IInv'
BY DEF IInv, QbitTypeOK, Counted, StaleByVpn, RestartHasCause, QbitOver, Restarts, qbitHistory

LEMMA QbitStepInv == ASSUME IInv, QbitStep PROVE IInv'
<1>1. CASE QbitBegin
  BY <1>1, Moved DEF QbitBegin, Pcs, Restarts
<1>2. CASE QbitAlive
  BY <1>2 DEF QbitAlive, Forgotten, IInv, QbitTypeOK, Counted, StaleByVpn, RestartHasCause,
     QbitOver,
     qbitContainers, Restarts
<1>3. CASE QbitDead
  <2>1. qbitFailing' \in 0 .. QbitThreshold /\ (qbitFailing' > qbitFailing \/ qbitFailing' = QbitThreshold)
    BY <1>3 DEF QbitDead, AtMost, IInv, QbitTypeOK
  <2>2. QED
    BY <1>3, <2>1 DEF QbitDead, IInv, QbitTypeOK, Counted, StaleByVpn, RestartHasCause,
       qbitContainers, qbitState, Restarts
<1>4. CASE QbitMissing
  BY <1>4, Ended DEF QbitMissing, qbitContainers, qbitState, IInv, QbitTypeOK
<1>5. CASE QbitExited
  BY <1>5, Ended DEF QbitExited, qbitContainers, qbitHistory, IInv, QbitTypeOK, Counted,
     StaleByVpn,
     RestartHasCause, Restarts
<1>6. CASE QbitRuns
  BY <1>6 DEF QbitRuns, IInv, QbitTypeOK, Counted, StaleByVpn, RestartHasCause, qbitContainers,
     qbitState,
     qbitHistory, Restarts
<1>7. CASE NamespaceStale
  BY <1>7 DEF NamespaceStale, NewerVpn, IInv, QbitTypeOK, Counted, StaleByVpn, RestartHasCause,
     qbitContainers, qbitState, qbitHistory, Restarts
<1>8. CASE NamespaceCurrent
  <2>1. qbitUnreachable' \in 0 .. QbitThreshold /\ qbitUnreachable' <= qbitFailing
    BY <1>8 DEF NamespaceCurrent, AtMost, IInv, QbitTypeOK, Counted
  <2>2. QbitReached(qbitUnreachable') => qbitFailing = QbitThreshold
    BY <2>1 DEF QbitReached, IInv, QbitTypeOK
  <2>3. CASE QbitReached(qbitUnreachable')
    <3>1. qjob' = [qjob EXCEPT !.pc = "hung"] /\ qbitFailing = QbitThreshold
      BY <1>8, <2>2, <2>3 DEF NamespaceCurrent
    <3>2. QED
      BY <1>8, <2>1, <3>1 DEF NamespaceCurrent, IInv, QbitTypeOK, Counted, StaleByVpn,
         RestartHasCause, qbitContainers, qbitHistory, Restarts
  <2>4. CASE ~QbitReached(qbitUnreachable')
    <3>1. qjob' = QbitOver
      BY <1>8, <2>4 DEF NamespaceCurrent
    <3>2. QED
      BY <1>8, <2>1, <3>1 DEF NamespaceCurrent, IInv, QbitTypeOK, Counted, StaleByVpn,
         RestartHasCause, qbitContainers, qbitHistory, QbitOver, Restarts
  <2>5. QED
    BY <2>3, <2>4
<1>9. CASE QbitRestarted
  <2>1. /\ qbit' = "running" /\ hung' = FALSE /\ stale' = FALSE
        /\ qbitUnreachable' = 0 /\ qbitFailing' = 0 /\ vpnSince' = FALSE
        /\ UNCHANGED <<vpn, qbitAttempt, vjob, qbitFaults>>
    BY <1>9 DEF QbitRestarted, QbitStarts, Forgotten
  <2>2. qjob' \in [pc : Pcs, stale : BOOLEAN] /\ qjob'.pc = "over"
    BY <1>9 DEF QbitRestarted, QbitOver, Pcs
  <2>3. hung' \in BOOLEAN /\ stale' \in BOOLEAN /\ vpnSince' \in BOOLEAN
    BY <2>1
  <2>4. qbit' \in Statuses /\ qbitUnreachable' \in 0 .. QbitThreshold /\ qbitFailing' \in 0 .. QbitThreshold
    BY <2>1 DEF Statuses
  <2>5. QbitTypeOK'
    BY <2>1, <2>2, <2>3, <2>4 DEF IInv, QbitTypeOK, Pcs
  <2>6. Counted' /\ StaleByVpn' /\ RestartHasCause'
    BY <2>1, <2>2 DEF Counted, StaleByVpn, RestartHasCause
  <2>7. QED
    BY <2>5, <2>6 DEF IInv
<1>10. CASE QbitRestartFails
  <2>1. qbit' \in Statuses
    BY <1>10 DEF QbitRestartFails, Statuses, IInv, QbitTypeOK
  <2>2. QED
    BY <1>10, <2>1, Ended DEF QbitRestartFails, qbitState, qbitHistory, IInv, QbitTypeOK
<1>11. QED
  BY <1>1, <1>2, <1>3, <1>4, <1>5, <1>6, <1>7, <1>8, <1>9, <1>10 DEF QbitStep

\* A start of the VPN leaves a trace in vpnSince and in the run that compares starts.
LEMMA VpnStartsInv ==
  ASSUME IInv, VpnStarts, vjob' \in {"idle", "inspect", "restart"},
         qbitFaults' \in 0 .. MaxQbitFaults, UNCHANGED <<qbit, hung, qbitState, qbitFailing>>
  PROVE  IInv'
BY DEF VpnStarts, IInv, QbitTypeOK, Counted, StaleByVpn, RestartHasCause, qbitState, Statuses,
   Restarts

\* The VPN's container, its job and the count of faults are no part of the rest.
LEMMA Apart ==
  ASSUME IInv, vpn' \in Statuses, vjob' \in {"idle", "inspect", "restart"},
         qbitFaults' \in 0 .. MaxQbitFaults, UNCHANGED <<qbit, hung, stale, qbitState, qjob,
          qbitHistory>>
  PROVE  IInv'
BY DEF IInv, QbitTypeOK, Counted, StaleByVpn, RestartHasCause, qbitState, qbitHistory

LEMMA VpnStepInv == ASSUME IInv, VpnStep PROVE IInv'
<1>1. CASE VpnBegin
  BY <1>1, Apart DEF VpnBegin, qbitContainers, IInv, QbitTypeOK
<1>2. CASE VpnInspected
  BY <1>2, Apart DEF VpnInspected, qbitContainers, IInv, QbitTypeOK
<1>3. CASE VpnRestarted
  BY <1>3, VpnStartsInv DEF VpnRestarted, IInv, QbitTypeOK
<1>4. CASE VpnRestartFails
  BY <1>4, Apart DEF VpnRestartFails, qbitContainers, IInv, QbitTypeOK
<1>5. QED
  BY <1>1, <1>2, <1>3, <1>4 DEF VpnStep

LEMMA FaultyInv == ASSUME IInv, Faulty PROVE qbitFaults' \in 0 .. MaxQbitFaults
BY DEF Faulty, IInv, QbitTypeOK

LEMMA DockerFailsInv == ASSUME IInv, DockerFails PROVE IInv'
<1>1. qbitFaults' \in 0 .. MaxQbitFaults
  BY FaultyInv DEF DockerFails
<1>2. CASE vjob' = "idle" /\ UNCHANGED qjob
  BY <1>1, <1>2, Apart DEF DockerFails, qbitContainers, IInv, QbitTypeOK
<1>3. CASE qjob' = QbitOver /\ UNCHANGED vjob
  BY <1>1, <1>3 DEF DockerFails, qbitContainers, qbitState, qbitHistory, QbitOver, IInv,
     QbitTypeOK, Counted,
     StaleByVpn, RestartHasCause, Restarts
<1>4. QED
  BY <1>2, <1>3 DEF DockerFails

LEMMA QbitFaultInv == ASSUME IInv, QbitFault PROVE IInv'
<1>1. qbitFaults' \in 0 .. MaxQbitFaults
  BY FaultyInv DEF QbitFault
<1>2. /\ qbit' \in Statuses /\ hung' \in BOOLEAN /\ stale' \in BOOLEAN
      /\ stale' => stale
  <2>1. qbit \in Statuses /\ hung \in BOOLEAN /\ stale \in BOOLEAN
    BY DEF IInv, QbitTypeOK
  <2>2. CASE qbit' \in Statuses \ {"running"} /\ UNCHANGED <<hung, stale>>
    BY <2>1, <2>2
  <2>3. CASE qbit = "running" /\ hung' = TRUE /\ UNCHANGED <<qbit, stale>>
    BY <2>1, <2>3
  <2>4. CASE QbitStarts
    BY <2>4 DEF QbitStarts, Statuses
  <2>5. QED
    BY <2>2, <2>3, <2>4 DEF QbitFault
<1>3. UNCHANGED <<vpn, qbitState, qjob, vjob, qbitHistory>>
  BY DEF QbitFault
<1>4. QbitTypeOK'
  BY <1>1, <1>2, <1>3 DEF qbitState, qbitHistory, IInv, QbitTypeOK
<1>5. Counted' /\ RestartHasCause'
  BY <1>3 DEF qbitState, qbitHistory, IInv, Counted, RestartHasCause
<1>6. StaleByVpn'
  BY <1>2, <1>3 DEF qbitHistory, IInv, StaleByVpn
<1>7. QED
  BY <1>4, <1>5, <1>6 DEF IInv

LEMMA VpnFaultInv == ASSUME IInv, VpnFault PROVE IInv'
<1>1. qbitFaults' \in 0 .. MaxQbitFaults
  BY FaultyInv DEF VpnFault
<1>2. CASE VpnStarts
  BY <1>1, <1>2, VpnStartsInv DEF VpnFault, IInv, QbitTypeOK
<1>3. CASE vpn' \in {"exited", "missing"} /\ UNCHANGED <<stale, vpnSince, qjob>>
  BY <1>1, <1>3, Apart DEF VpnFault, Statuses, qbitHistory, IInv, QbitTypeOK
<1>4. QED
  BY <1>2, <1>3 DEF VpnFault

LEMMA TickInv == ASSUME IInv, QbitTick PROVE IInv'
<1>1. qbitAttempt' \in 0 .. QbitCooldown
  BY CapType DEF QbitTick, IInv, QbitTypeOK
<1>2. QED
  BY <1>1 DEF QbitTick, QbitDue, qbitContainers, IInv, QbitTypeOK, Counted, StaleByVpn,
     RestartHasCause,
     Restarts

LEMMA NextInv == IInv /\ [QbitNext]_qbitVars => IInv'
<1> SUFFICES ASSUME IInv, [QbitNext]_qbitVars PROVE IInv'
  OBVIOUS
<1>1. CASE QbitNext
  BY <1>1, QbitStepInv, VpnStepInv, DockerFailsInv, QbitFaultInv, VpnFaultInv,
     TickInv DEF QbitNext
<1>2. CASE UNCHANGED qbitVars
  BY <1>2 DEF qbitVars, qbitContainers, qbitState, qbitHistory, IInv, QbitTypeOK, Counted,
     StaleByVpn,
     RestartHasCause
<1>3. QED
  BY <1>1, <1>2

LEMMA Invariance == QbitSpec => []IInv
BY InitInv, NextInv, PTL DEF QbitSpec

\* Every variable keeps its type, for all thresholds, cooldowns and numbers of faults.
THEOREM QbitTypeCorrect == QbitSpec => []QbitTypeOK
<1>1. IInv => QbitTypeOK
  BY DEF IInv
<1>2. QED
  BY <1>1, Invariance, PTL

\* A restart as hung follows Threshold failed probes in a row, one for a stale
\* namespace a start of the VPN since the last restart, for all thresholds,
\* cooldowns and numbers of faults; run_qbit_health.
THEOREM RestartsHaveCause == QbitSpec => []RestartHasCause
<1>1. IInv => RestartHasCause
  BY DEF IInv
<1>2. QED
  BY <1>1, Invariance, PTL

=============================================================================
