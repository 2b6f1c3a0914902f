----------------------------- MODULE ArrServices -----------------------------
(***************************************************************************)
(* run_arr_services: every interval docktarr probes the API of each *arr   *)
(* service in turn.  One that does not answer has its container inspected  *)
(* and, subject to a cooldown per service, restarted: at once when it has  *)
(* exited, after Threshold consecutive probes when it runs.                *)
(*                                                                         *)
(* The probe, the inspection and the restart are awaits of one coroutine;  *)
(* containers exit and hang meanwhile.  Time is counted in scheduler       *)
(* intervals, in each of which at most one sweep runs, to its end (five    *)
(* minutes by default, against seconds for a probe or a restart).          *)
(***************************************************************************)
EXTENDS Integers, Capped

CONSTANTS
    N,            \* services, in the order in which they are configured
    Threshold,    \* running_unreachable_threshold
    Cooldown,     \* restart_cooldown, in intervals
    Unreadable,   \* services whose container can never be inspected
    MaxFaults     \* bound: containers that exit, hang or are removed

Services == 1 .. N

ASSUME ServicesAssumption == N \in Nat /\ Unreadable \subseteq Services
ASSUME ThresholdAssumption == Threshold \in Nat \ {0}
ASSUME CooldownAssumption == Cooldown \in Nat
ASSUME FaultsAssumption == MaxFaults \in Nat

VARIABLES
    status,        \* the container, according to Docker
    answering,     \* the services whose API answers
    unreachable,   \* state.consecutive_unreachable, counted up to the threshold
    attempt,       \* now - state.last_restart_attempt; the cooldown if it is over
    sweep,         \* the run of this interval: the service in hand, what is awaited
    rested,        \* history: time since Docker was last asked to restart it
    failing,       \* history: failed probes in a row
    faults

containers == <<status, answering>>
state == <<unreachable, attempt>>
history == <<rested, failing>>
vars == <<containers, state, sweep, history, faults>>

\* "exited" and "hung" tell the two restarts apart.
Awaits == {"probe", "inspect", "exited", "hung"}
Sweeps == [pc : Awaits \cup {"due", "over"}, cur : 1 .. N + 1]
Due == [pc |-> "due", cur |-> 1]
Over == [pc |-> "over", cur |-> 1]

TypeOK ==
    /\ status \in [Services -> {"running", "exited", "missing"}]
    /\ answering \subseteq Services
    /\ unreachable \in [Services -> 0 .. Threshold]
    /\ attempt \in [Services -> 0 .. Cooldown]
    /\ sweep \in Sweeps
    /\ rested \in [Services -> 0 .. Cooldown]
    /\ failing \in [Services -> 0 .. Threshold]
    /\ faults \in 0 .. MaxFaults

Init ==
    /\ status = [s \in Services |-> "running"]
    /\ answering = Services
    /\ unreachable = [s \in Services |-> 0]
    /\ attempt = [s \in Services |-> Cooldown]
    /\ sweep = Due
    /\ rested = [s \in Services |-> Cooldown]
    /\ failing = [s \in Services |-> 0]
    /\ faults = 0

-----------------------------------------------------------------------------
(* The sweep *)

s0 == sweep.cur

Begin ==
    /\ sweep.pc = "due"
    /\ sweep' = [pc |-> "probe", cur |-> 1]
    /\ UNCHANGED <<containers, state, history, faults>>

SweepEnds == Over
NextService == [pc |-> "probe", cur |-> s0 + 1]

\* The API answers with 200: the counter is forgotten.
CountKept == unreachable
CountRemoved == [s \in Services \ {s0} |-> unreachable[s]]
CountForgotten == [unreachable EXCEPT ![s0] = 0]

Reachable ==
    /\ sweep.pc = "probe"
    /\ s0 \in Services
    /\ s0 \in answering
    /\ unreachable' = CountForgotten
    /\ sweep' = NextService
    /\ failing' = [failing EXCEPT ![s0] = 0]
    /\ UNCHANGED <<containers, attempt, rested, faults>>

\* It answers with an error or not at all: service.down is emitted and the
\* container inspected.
Unreachable ==
    /\ sweep.pc = "probe"
    /\ s0 \in Services
    /\ s0 \notin answering
    /\ sweep' = [sweep EXCEPT !.pc = "inspect"]
    /\ failing' = [failing EXCEPT ![s0] = AtMost(@ + 1, Threshold)]
    /\ UNCHANGED <<containers, state, rested, faults>>

Inspecting == sweep.pc = "inspect" /\ s0 \notin Unreadable

Missing ==
    /\ Inspecting
    /\ status[s0] = "missing"
    /\ sweep' = NextService
    /\ UNCHANGED <<containers, state, history, faults>>

\* Any other error of Docker is not caught: it ends the sweep, and the services
\* after this one are not probed.
InspectionRaises ==
    /\ sweep.pc = "inspect"
    /\ sweep' = Over
    /\ UNCHANGED <<containers, state, history, faults>>

\* Restart, unless the last attempt is too recent.
CooledDown == attempt[s0] = Cooldown

Decide(pc) ==
    IF CooledDown
    THEN /\ attempt' = [attempt EXCEPT ![s0] = 0]
         /\ sweep' = [sweep EXCEPT !.pc = pc]
    ELSE /\ UNCHANGED attempt
         /\ sweep' = NextService

Exited ==
    /\ Inspecting
    /\ status[s0] = "exited"
    /\ Decide("exited")
    /\ UNCHANGED <<containers, unreachable, history, faults>>

\* The count is only compared with the threshold, so it may stop there.
Reached(count) == count >= Threshold

Hung ==
    /\ Inspecting
    /\ status[s0] = "running"
    /\ unreachable' = [unreachable EXCEPT ![s0] = AtMost(@ + 1, Threshold)]
    /\ IF Reached(unreachable'[s0])
       THEN Decide("hung")
       ELSE UNCHANGED attempt /\ sweep' = NextService
    /\ UNCHANGED <<containers, history, faults>>

Restarting == sweep.pc \in {"exited", "hung"}

\* Docker restarts the container; the counter is forgotten.
RestartSucceeds ==
    /\ Restarting
    /\ status[s0] # "missing"
    /\ status' = [status EXCEPT ![s0] = "running"]
    /\ answering' = answering \cup {s0}
    /\ unreachable' = CountForgotten
    /\ sweep' = NextService
    /\ rested' = [rested EXCEPT ![s0] = 0]
    /\ failing' = [failing EXCEPT ![s0] = 0]
    /\ UNCHANGED <<attempt, faults>>

\* Docker fails to: the attempt counts all the same.
RestartFails ==
    /\ Restarting
    /\ sweep' = NextService
    /\ rested' = [rested EXCEPT ![s0] = 0]
    /\ UNCHANGED <<containers, state, failing, faults>>

Finish ==
    /\ sweep.pc = "probe"
    /\ s0 = N + 1
    /\ sweep' = Over
    /\ UNCHANGED <<containers, state, history, faults>>

-----------------------------------------------------------------------------
(* The environment *)

\* A container exits, hangs, is removed or is started by the user.
Fault(s) ==
    /\ faults < MaxFaults
    /\ faults' = faults + 1
    /\ \E to \in {"running", "exited", "missing"} :
          status' = [status EXCEPT ![s] = to]
    /\ answering' = answering \ {s}
    /\ UNCHANGED <<state, sweep, history>>

\* A container that runs may begin to answer of its own accord.
Recover(s) ==
    /\ status[s] = "running"
    /\ answering' = answering \cup {s}
    /\ UNCHANGED <<status, state, sweep, history, faults>>

Tick ==
    /\ sweep \in {Due, Over}
    /\ sweep' = Due
    /\ attempt' = [s \in Services |-> AtMost(attempt[s] + 1, Cooldown)]
    /\ rested' = [s \in Services |-> AtMost(rested[s] + 1, Cooldown)]
    /\ UNCHANGED <<containers, unreachable, failing, faults>>

SweepStep ==
    \/ Begin
    \/ Reachable
    \/ Unreachable
    \/ Missing
    \/ InspectionRaises
    \/ Exited
    \/ Hung
    \/ RestartSucceeds
    \/ RestartFails
    \/ Finish

Next ==
    \/ SweepStep
    \/ \E s \in Services : Fault(s) \/ Recover(s)
    \/ Tick

Spec == Init /\ [][Next]_vars

Inspected(s) == s0 = s /\ (Missing \/ Exited \/ Hung)

\* The scheduler starts a sweep in every interval and every await ends.  What is
\* asked of Docker again and again is done in the end: a restart, and, unless the
\* container can never be inspected, an inspection.
FairSpec ==
    /\ Spec
    /\ WF_vars(SweepStep)
    /\ WF_vars(Tick /\ sweep = Over)
    /\ \A s \in Services : SF_vars(s0 = s /\ RestartSucceeds)
    /\ \A s \in Services \ Unreadable : SF_vars(Inspected(s))

-----------------------------------------------------------------------------
(* Properties *)

\* The sweep keeps the promise of a restart guard.  The counter is per service
\* and is incremented only by inspections that find the container running, the
\* cooldown runs from the decision and not from Docker's answer, failed restarts
\* leave the counter where it is, containers change during every await: none of
\* it lets a container that answers, or one just restarted, be restarted.
found ==
    [s \in Services |-> IF sweep.pc = "exited" /\ s = s0 THEN "exited" ELSE "unknown"]

Guard == INSTANCE RestartGuard WITH Containers <- Services
Guarded == Guard!Spec

\* "docktarr's mandate is to keep ALL configured arr members alive": a service
\* that exits or hangs answers again, unless its container is removed, however
\* often the inspections of it and of the services before it raise and its restart
\* fails.  The mandate ends at a service that can never be inspected: while that one
\* is down its inspection ends every sweep, and all that come after it are starved.
Starved(s) == \E u \in Unreadable : u < s /\ u \notin answering

Recovers ==
    \A s \in Services \ Unreadable :
        []<>(s \in answering \/ status[s] = "missing" \/ Starved(s))

=============================================================================
