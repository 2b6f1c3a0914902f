---------------------------- MODULE RestartGuard ----------------------------
(***************************************************************************)
(* What docktarr's watchdogs promise about the containers they restart: a  *)
(* container is restarted only after an inspection found it stopped or     *)
(* Threshold probes in a row have failed, and never within the cooldown of *)
(* an earlier restart.  Containers come and go as they like.               *)
(***************************************************************************)
EXTENDS Integers, Capped

CONSTANTS
    Containers,
    Threshold,   \* a positive number of probes
    Cooldown     \* a natural number of ticks

VARIABLES
    status,    \* the container, according to Docker
    found,     \* what the last inspection found, until it is acted upon
    failing,   \* probes failed in a row since it answered or was restarted
    rested     \* ticks since Docker was last asked to restart it

vars == <<status, found, failing, rested>>

Init ==
    /\ status = [c \in Containers |-> "running"]
    /\ found = [c \in Containers |-> "unknown"]
    /\ failing = [c \in Containers |-> 0]
    /\ rested = [c \in Containers |-> Cooldown]

Changes(c) ==
    /\ \E to \in {"running", "exited", "missing"} :
          status' = [status EXCEPT ![c] = to]
    /\ UNCHANGED <<found, failing, rested>>

Answers(c) ==
    /\ failing' = [failing EXCEPT ![c] = 0]
    /\ UNCHANGED <<status, found, rested>>

Fails(c) ==
    /\ failing' = [failing EXCEPT ![c] = AtMost(@ + 1, Threshold)]
    /\ UNCHANGED <<status, found, rested>>

Inspected(c) ==
    /\ found' = [found EXCEPT ![c] = status[c]]
    /\ UNCHANGED <<status, failing, rested>>

\* Docker is asked to restart the container, and does or fails to.
Restart(c) ==
    /\ rested[c] = Cooldown
    /\ found[c] = "exited" \/ failing[c] = Threshold
    /\ rested' = [rested EXCEPT ![c] = 0]
    /\ found' = [found EXCEPT ![c] = "unknown"]
    /\ \/ UNCHANGED <<status, failing>>
       \/ /\ status' = [status EXCEPT ![c] = "running"]
          /\ failing' = [failing EXCEPT ![c] = 0]

Tick ==
    /\ rested' = [c \in Containers |-> AtMost(rested[c] + 1, Cooldown)]
    /\ UNCHANGED <<status, found, failing>>

Next ==
    \/ \E c \in Containers :
          \/ Changes(c) \/ Answers(c) \/ Fails(c) \/ Inspected(c) \/ Restart(c)
    \/ Tick

Spec == Init /\ [][Next]_vars

=============================================================================
