---------------------------- MODULE PidPressure ----------------------------
(***************************************************************************)
(* pid_pressure: every run lists the running containers, reads the         *)
(* processes of one after the other and restarts one that is over the hard *)
(* cap in enough consecutive runs (auto_restart).  Containers grow, exit   *)
(* and come back between any two awaits.  Alerts are left out: what they   *)
(* report is what is modelled.                                             *)
(***************************************************************************)
EXTENDS Integers

CONSTANTS
    Containers,
    PidDebounce,     \* debounce
    MaxLoads,        \* bound: changes of a container by itself
    MaxPidFaults     \* bound: calls to Docker that fail

ASSUME PidDebounceAssumption == PidDebounce \in Nat \ {0}
ASSUME PidBoundsAssumption == MaxLoads \in Nat /\ MaxPidFaults \in Nat

\* Processes below every threshold, above container_pid_warn or the zombie limit,
\* and above the hard cap; or no running container.
Loads == {"gone", "ok", "warn", "hard"}

VARIABLES
    load,        \* of each container
    pidPc,
    listed,      \* names, and those of them still to be read
    unread,
    restarting,  \* the container over the hard cap
    streak,      \* PidPressureState.consecutive_breaches
    reads,       \* history: processes read since docktarr last restarted it
    loads, pidFaults

pidRun == <<pidPc, listed, unread, restarting>>
pidVars == <<load, pidRun, streak, reads, loads, pidFaults>>

NoContainer == "none"

PidTypeOK ==
    /\ load \in [Containers -> Loads]
    /\ pidPc \in {"idle", "read", "restart"}
    /\ listed \in SUBSET Containers
    /\ unread \in SUBSET listed
    /\ restarting \in Containers \cup {NoContainer}
    /\ streak \in [Containers -> 0 .. PidDebounce]
    /\ reads \in [Containers -> 0 .. PidDebounce]
    /\ loads \in 0 .. MaxLoads
    /\ pidFaults \in 0 .. MaxPidFaults

PidInit ==
    /\ load = [c \in Containers |-> "ok"]
    /\ pidPc = "idle"
    /\ listed = {}
    /\ unread = {}
    /\ restarting = NoContainer
    /\ streak = [c \in Containers |-> 0]
    /\ reads = [c \in Containers |-> PidDebounce]
    /\ loads = 0
    /\ pidFaults = 0

PidFault == pidFaults < MaxPidFaults /\ pidFaults' = pidFaults + 1

-----------------------------------------------------------------------------
(* run_pid_pressure and _evaluate_container *)

ListContainers ==
    /\ pidPc = "idle"
    /\ \/ /\ listed' = {c \in Containers : load[c] # "gone"}
          /\ unread' = listed'
          /\ pidPc' = "read"
          /\ UNCHANGED pidFaults
       \/ PidFault /\ UNCHANGED <<listed, unread, pidPc>>
    /\ UNCHANGED <<load, restarting, streak, reads, loads>>

\* Counts past the debounce are alike.
Longer(n) == IF n < PidDebounce THEN n + 1 ELSE n

NextStreak(c) == IF load[c] = "ok" THEN 0 ELSE Longer(streak[c])

DueOnce(c) == load[c] = "hard" /\ streak[c] + 1 = PidDebounce

RestartDue(c) == load[c] = "hard" /\ NextStreak(c) >= PidDebounce

ReadTop(c) ==
    /\ pidPc = "read" /\ c \in unread /\ load[c] # "gone"
    /\ unread' = unread \ {c}
    /\ streak' = [streak EXCEPT ![c] = NextStreak(c)]
    /\ reads' = [reads EXCEPT ![c] = Longer(@)]
    /\ IF RestartDue(c)
       THEN pidPc' = "restart" /\ restarting' = c
       ELSE UNCHANGED <<pidPc, restarting>>
    /\ UNCHANGED <<load, listed, loads, pidFaults>>

\* Neither a breach nor the end of one.
TopFails(c) ==
    /\ pidPc = "read" /\ c \in unread
    /\ \/ load[c] = "gone" /\ UNCHANGED pidFaults
       \/ PidFault
    /\ unread' = unread \ {c}
    /\ UNCHANGED <<load, pidPc, listed, restarting, streak, reads, loads>>

KeepStreak(c) == UNCHANGED streak

\* The streak that a restart leaves.
AfterRestart(c) == streak' = [streak EXCEPT ![c] = 0]

\* A container that has exited meanwhile is started.
Restart(c) ==
    /\ pidPc = "restart" /\ restarting = c
    /\ load' = [load EXCEPT ![c] = "ok"]
    /\ AfterRestart(c)
    /\ reads' = [reads EXCEPT ![c] = 0]
    /\ pidPc' = "read" /\ restarting' = NoContainer
    /\ UNCHANGED <<listed, unread, loads, pidFaults>>

\* Refused, given up half-way or not answered; or the container is not there any
\* more.  The streak stays.
RestartFails(c) ==
    /\ pidPc = "restart" /\ restarting = c
    /\ \/ load[c] = "gone" /\ UNCHANGED <<load, pidFaults>>
       \/ /\ PidFault
          /\ \E l \in {load[c], "gone", "ok"} : load' = [load EXCEPT ![c] = l]
    /\ pidPc' = "read" /\ restarting' = NoContainer
    /\ UNCHANGED <<listed, unread, streak, reads, loads>>

EndRun ==
    /\ pidPc = "read" /\ unread = {}
    /\ streak' = [c \in Containers |-> IF c \in listed THEN streak[c] ELSE 0]
    /\ pidPc' = "idle"
    /\ listed' = {}
    /\ UNCHANGED <<load, unread, restarting, reads, loads, pidFaults>>

-----------------------------------------------------------------------------
\* A container leaks, recovers, exits or is started again.
Change(c) ==
    /\ loads < MaxLoads
    /\ loads' = loads + 1
    /\ \E l \in Loads \ {load[c]} : load' = [load EXCEPT ![c] = l]
    /\ UNCHANGED <<pidRun, streak, reads, pidFaults>>

PidTick ==
    \/ ListContainers
    \/ \E c \in Containers :
         \/ ReadTop(c)
         \/ TopFails(c)
         \/ Restart(c)
         \/ RestartFails(c)
    \/ EndRun

PidNext == PidTick \/ \E c \in Containers : Change(c)

PidSpec == PidInit /\ [][PidNext]_pidVars

\* The job runs again and again.
PidFairSpec == PidSpec /\ WF_pidVars(PidTick)

-----------------------------------------------------------------------------
(* Properties *)

\* After a restart that succeeded a container is not restarted again before its
\* processes have been read in debounce further runs: the streak that led to one
\* restart does not lead to the next, whatever the container does in between.  One
\* that is applied while its reply is lost is no success for docktarr: it leaves the
\* streak and may be repeated by the next run.
RestartsSpaced ==
    [][\A c \in Containers :
         reads[c] > 0 /\ reads'[c] = 0 => reads[c] >= PidDebounce]_pidVars

\* A container that stays over the hard cap is restarted, although it may take
\* several attempts, reads fail and it may exit and come back.
LeakRelieved == \A c \in Containers : []<>(load[c] # "hard")

=============================================================================
