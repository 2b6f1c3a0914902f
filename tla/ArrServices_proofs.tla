------------------------- MODULE ArrServices_proofs -------------------------
(***************************************************************************)
(* The sweep implements RestartGuard for every number of services, every   *)
(* threshold and cooldown and every number of faults.                      *)
(***************************************************************************)
EXTENDS ArrServices, TLAPS

LEMMA Bounds ==
    /\ N \in Nat
    /\ Threshold \in Nat \ {0}
    /\ Cooldown \in Nat
    /\ MaxFaults \in Nat
BY ServicesAssumption, ThresholdAssumption, CooldownAssumption, FaultsAssumption
   DEF ServicesAssumption, ThresholdAssumption, CooldownAssumption, FaultsAssumption

USE Bounds

\* No more probes are counted than have failed.
Counted == \A s \in Services : unreachable[s] <= failing[s]

\* The cooldown starts before the restart it is meant for.
StartedEarlier == \A s \in Services : attempt[s] <= rested[s]

\* A probe that failed is known to the history before it is counted.
Failed == sweep.pc = "inspect" =>
    /\ s0 \in Services
    /\ failing[s0] = Threshold \/ failing[s0] > unreachable[s0]

\* A restart that is awaited was allowed when it was decided, and still is.
Allowed == Restarting =>
    /\ s0 \in Services
    /\ attempt[s0] = 0
    /\ rested[s0] = Cooldown
    /\ sweep.pc = "hung" => failing[s0] = Threshold

IInv == TypeOK /\ Counted /\ StartedEarlier /\ Failed /\ Allowed

-----------------------------------------------------------------------------
(* The invariant *)

LEMMA SweepTypes ==
    /\ Due \in Sweeps /\ Over \in Sweeps /\ [pc |-> "probe", cur |-> 1] \in Sweeps
    /\ TypeOK => /\ s0 \in Services => NextService \in Sweeps
                 /\ \A pc \in Awaits : [sweep EXCEPT !.pc = pc] \in Sweeps
BY DEF Sweeps, Awaits, Due, Over, TypeOK, s0, Services, NextService

LEMMA ResetType ==
    ASSUME NEW bound \in Nat, NEW f \in [Services -> 0 .. bound], NEW s
    PROVE  [f EXCEPT ![s] = 0] \in [Services -> 0 .. bound]
<1>1. 0 \in 0 .. bound
  OBVIOUS
<1>2. QED
  BY <1>1, Zenon

LEMMA InitIInv == Init => IInv
<1> SUFFICES ASSUME Init PROVE IInv
  OBVIOUS
<1>1. TypeOK
  BY SweepTypes DEF Init, TypeOK
<1>2. QED
  BY <1>1 DEF Init, IInv, TypeOK, Counted, StartedEarlier, Failed, Allowed, Due, Restarting

\* The steps that only move the sweep on: to a service, to its end.
LEMMA MoveOnIInv ==
    ASSUME IInv, UNCHANGED <<containers, state, history, faults>>,
           sweep' \in Sweeps, sweep'.pc \in {"due", "probe", "over"}
    PROVE  IInv'
BY DEF IInv, TypeOK, Counted, StartedEarlier, Failed, Allowed, Restarting,
   s0, containers, state, history

LEMMA BeginIInv == IInv /\ Begin => IInv'
BY SweepTypes, MoveOnIInv DEF Begin

LEMMA ReachableIInv == IInv /\ Reachable => IInv'
<1> SUFFICES ASSUME IInv, Reachable PROVE IInv'
  OBVIOUS
<1>1. TypeOK'
  BY SweepTypes DEF IInv, TypeOK, Reachable, CountForgotten, containers
<1>2. Counted'
  BY DEF IInv, TypeOK, Counted, Reachable, CountForgotten
<1>3. StartedEarlier' /\ Failed' /\ Allowed'
  BY DEF IInv, StartedEarlier, Failed, Allowed, Restarting, Reachable, NextService
<1>4. QED
  BY <1>1, <1>2, <1>3 DEF IInv

LEMMA UnreachableIInv == IInv /\ Unreachable => IInv'
<1> SUFFICES ASSUME IInv, Unreachable PROVE IInv'
  OBVIOUS
<1>1. TypeOK'
  <2>1. sweep' \in Sweeps
    BY SweepTypes DEF IInv, Unreachable, Awaits
  <2>2. failing' \in [Services -> 0 .. Threshold]
    BY DEF IInv, TypeOK, Unreachable, AtMost
  <2>3. QED
    BY <2>1, <2>2 DEF IInv, TypeOK, Unreachable, containers, state
<1>2. Counted'
  BY DEF IInv, TypeOK, Counted, Unreachable, state, AtMost
<1>3. sweep'.pc = "inspect" /\ s0' = s0
  BY DEF IInv, TypeOK, Sweeps, Unreachable, s0
<1>4. Failed'
  BY <1>3 DEF IInv, TypeOK, Counted, Failed, Unreachable, state, AtMost
<1>5. StartedEarlier' /\ Allowed'
  BY <1>3 DEF IInv, StartedEarlier, Allowed, Restarting, Unreachable, state
<1>6. QED
  BY <1>1, <1>2, <1>4, <1>5 DEF IInv

\* A decision to restart: the cooldown begins, the restart is awaited.
LEMMA DecideIInv ==
    ASSUME IInv, s0 \in Services, NEW pc \in {"exited", "hung"},
           UNCHANGED <<containers, history, faults>>,
           unreachable' \in [Services -> 0 .. Threshold], Counted',
           CooledDown, attempt' = [attempt EXCEPT ![s0] = 0],
           sweep' = [sweep EXCEPT !.pc = pc],
           pc = "hung" => failing[s0] = Threshold
    PROVE  IInv'
<1>1. sweep'.pc = pc /\ s0' = s0
  BY DEF IInv, TypeOK, Sweeps, s0
<1>2. TypeOK'
  <2>1. sweep' \in Sweeps
    BY SweepTypes DEF IInv, Awaits
  <2>2. attempt' \in [Services -> 0 .. Cooldown]
    BY DEF IInv, TypeOK
  <2>3. QED
    BY <2>1, <2>2 DEF IInv, TypeOK, containers, history
<1>3. StartedEarlier'
  BY DEF IInv, TypeOK, StartedEarlier, history
<1>4. rested[s0] = Cooldown
  BY DEF IInv, TypeOK, StartedEarlier, CooledDown
<1>5. Allowed'
  BY <1>1, <1>4 DEF IInv, TypeOK, Allowed, Restarting, history
<1>6. Failed'
  BY <1>1 DEF Failed
<1>7. QED
  BY <1>2, <1>3, <1>5, <1>6 DEF IInv

LEMMA ExitedIInv == IInv /\ Exited => IInv'
<1> SUFFICES ASSUME IInv, Exited PROVE IInv'
  OBVIOUS
<1>1. s0 \in Services
  BY DEF IInv, Failed, Exited, Inspecting
<1>2. CASE CooledDown
  <2>1. /\ attempt' = [attempt EXCEPT ![s0] = 0]
        /\ sweep' = [sweep EXCEPT !.pc = "exited"]
        /\ unreachable' \in [Services -> 0 .. Threshold]
        /\ Counted'
    BY <1>2 DEF Exited, Decide, IInv, TypeOK, Counted, history
  <2>2. QED
    BY <1>1, <1>2, <2>1, DecideIInv DEF Exited
<1>3. CASE ~CooledDown
  <2>1. UNCHANGED attempt /\ sweep' = NextService
    BY <1>3 DEF Exited, Decide
  <2>2. sweep' \in Sweeps /\ sweep'.pc = "probe"
    BY <1>1, <2>1, SweepTypes DEF IInv, NextService
  <2>3. QED
    BY <2>1, <2>2, MoveOnIInv DEF Exited, state
<1>4. QED
  BY <1>2, <1>3

LEMMA HungIInv == IInv /\ Hung => IInv'
<1> SUFFICES ASSUME IInv, Hung PROVE IInv'
  OBVIOUS
<1>1. s0 \in Services /\ UNCHANGED history
  BY DEF IInv, Failed, Hung, Inspecting
<1>2. AtMost(unreachable[s0] + 1, Threshold) <= failing[s0]
  BY <1>1 DEF IInv, TypeOK, Failed, Hung, Inspecting, AtMost
<1>3. /\ unreachable' \in [Services -> 0 .. Threshold]
      /\ unreachable'[s0] = AtMost(unreachable[s0] + 1, Threshold)
      /\ Counted'
  BY <1>1, <1>2 DEF IInv, TypeOK, Counted, Hung, history, AtMost
<1>4. CASE Reached(unreachable'[s0]) /\ CooledDown
  <2>1. /\ attempt' = [attempt EXCEPT ![s0] = 0]
        /\ sweep' = [sweep EXCEPT !.pc = "hung"]
    BY <1>4 DEF Hung, Decide
  <2>2. failing[s0] = Threshold
    BY <1>1, <1>2, <1>3, <1>4 DEF IInv, TypeOK, Reached, AtMost
  <2>3. QED
    BY <1>1, <1>3, <1>4, <2>1, <2>2, DecideIInv DEF Hung
<1>5. CASE ~(Reached(unreachable'[s0]) /\ CooledDown)
  <2>1. UNCHANGED attempt /\ sweep' = NextService
    BY <1>5 DEF Hung, Decide
  <2>2. sweep' \in Sweeps /\ sweep'.pc = "probe"
    BY <1>1, <2>1, SweepTypes DEF IInv, NextService
  <2>3. TypeOK'
    BY <1>3, <2>1, <2>2 DEF IInv, TypeOK, Hung, containers, history
  <2>4. StartedEarlier' /\ Failed' /\ Allowed'
    BY <1>1, <2>1, <2>2 DEF IInv, StartedEarlier, Failed, Allowed, Restarting, history
  <2>5. QED
    BY <1>3, <2>3, <2>4 DEF IInv
<1>6. QED
  BY <1>4, <1>5

LEMMA RestartSucceedsIInv == IInv /\ RestartSucceeds => IInv'
<1> SUFFICES ASSUME IInv, RestartSucceeds PROVE IInv'
  OBVIOUS
<1>1. s0 \in Services /\ attempt[s0] = 0
  BY DEF IInv, Allowed, RestartSucceeds
<1>2. sweep' \in Sweeps /\ sweep'.pc = "probe"
  BY <1>1, SweepTypes DEF IInv, RestartSucceeds, NextService
<1>3. TypeOK'
  <2>1. unreachable' \in [Services -> 0 .. Threshold] /\ failing' \in [Services -> 0 .. Threshold]
    BY ResetType DEF IInv, TypeOK, RestartSucceeds, CountForgotten
  <2>2. rested' \in [Services -> 0 .. Cooldown]
    BY ResetType DEF IInv, TypeOK, RestartSucceeds
  <2>3. status' \in [Services -> {"running", "exited", "missing"}] /\ answering' \subseteq Services
    BY <1>1 DEF IInv, TypeOK, RestartSucceeds
  <2>4. QED
    BY <1>2, <2>1, <2>2, <2>3 DEF IInv, TypeOK, RestartSucceeds
<1>4. Counted'
  BY DEF IInv, TypeOK, Counted, RestartSucceeds, CountForgotten
<1>5. StartedEarlier'
  BY <1>1 DEF IInv, TypeOK, StartedEarlier, RestartSucceeds
<1>6. Failed' /\ Allowed'
  BY <1>2 DEF Failed, Allowed, Restarting
<1>7. QED
  BY <1>3, <1>4, <1>5, <1>6 DEF IInv

LEMMA RestartFailsIInv == IInv /\ RestartFails => IInv'
<1> SUFFICES ASSUME IInv, RestartFails PROVE IInv'
  OBVIOUS
<1>1. s0 \in Services /\ attempt[s0] = 0
  BY DEF IInv, Allowed, RestartFails
<1>2. sweep' \in Sweeps /\ sweep'.pc = "probe"
  BY <1>1, SweepTypes DEF IInv, RestartFails, NextService
<1>3. TypeOK'
  <2>1. rested' \in [Services -> 0 .. Cooldown]
    BY ResetType DEF IInv, TypeOK, RestartFails
  <2>2. QED
    BY <1>2, <2>1 DEF IInv, TypeOK, RestartFails, containers, state
<1>4. Counted' /\ StartedEarlier'
  BY <1>1 DEF IInv, TypeOK, Counted, StartedEarlier, RestartFails, state
<1>5. Failed' /\ Allowed'
  BY <1>2 DEF Failed, Allowed, Restarting
<1>6. QED
  BY <1>3, <1>4, <1>5 DEF IInv

LEMMA TickIInv == IInv /\ Tick => IInv'
<1> SUFFICES ASSUME IInv, Tick PROVE IInv'
  OBVIOUS
<1>1. TypeOK'
  <2>1. /\ attempt' \in [Services -> 0 .. Cooldown]
        /\ rested' \in [Services -> 0 .. Cooldown]
    BY DEF IInv, TypeOK, Tick, AtMost
  <2>2. QED
    BY <2>1, SweepTypes DEF IInv, TypeOK, Tick, containers
<1>2. Counted' /\ StartedEarlier'
  BY DEF IInv, TypeOK, Counted, StartedEarlier, Tick, AtMost
<1>3. Failed' /\ Allowed'
  BY DEF Failed, Allowed, Restarting, Tick, Due
<1>4. QED
  BY <1>1, <1>2, <1>3 DEF IInv

LEMMA EnvironmentIInv ==
    ASSUME IInv, NEW s \in Services, Fault(s) \/ Recover(s)
    PROVE  IInv'
<1>1. TypeOK'
  BY DEF IInv, TypeOK, Fault, Recover, state, history
<1>2. Counted' /\ StartedEarlier' /\ Failed' /\ Allowed'
  BY DEF IInv, Counted, StartedEarlier, Failed, Allowed, Restarting, s0,
     Fault, Recover, state, history
<1>3. QED
  BY <1>1, <1>2 DEF IInv

LEMMA NextIInv == IInv /\ [Next]_vars => IInv'
<1> SUFFICES ASSUME IInv, [Next]_vars PROVE IInv'
  OBVIOUS
<1>1. CASE Missing
  <2>1. s0 \in Services
    BY <1>1 DEF IInv, Failed, Missing, Inspecting
  <2>2. QED
    BY <1>1, <2>1, SweepTypes, MoveOnIInv DEF IInv, Missing, NextService
<1>2. CASE InspectionRaises \/ Finish
  BY <1>2, SweepTypes, MoveOnIInv DEF InspectionRaises, Finish, Over
<1>3. CASE UNCHANGED vars
  BY <1>3 DEF vars, containers, state, history, IInv, TypeOK, Counted,
     StartedEarlier, Failed, Allowed, Restarting, s0
<1>4. QED
  BY <1>1, <1>2, <1>3, BeginIInv, ReachableIInv, UnreachableIInv, ExitedIInv, HungIInv,
     RestartSucceedsIInv, RestartFailsIInv, TickIInv, EnvironmentIInv
     DEF Next, SweepStep

LEMMA Invariance == Spec => []IInv
BY InitIInv, NextIInv, PTL DEF Spec

\* Every variable keeps its type, whatever the bounds.
THEOREM ArrTypeCorrect == Spec => []TypeOK
<1>1. IInv => TypeOK
  BY DEF IInv
<1>2. QED
  BY Invariance, <1>1, PTL

-----------------------------------------------------------------------------
(* The refinement *)

USE DEF Guard!Next, Guard!vars

\* Nothing is found stopped while no restart of it is awaited.
LEMMA FoundNothing ==
    ASSUME sweep.pc # "exited"
    PROVE  found = [s \in Services |-> "unknown"]
BY DEF found

\* The steps a guard does not see.
LEMMA Invisible ==
    ASSUME IInv, UNCHANGED <<status, rested, failing>>,
           sweep.pc # "exited", sweep'.pc # "exited"
    PROVE  UNCHANGED <<status, found, failing, rested>>
BY FoundNothing DEF found

LEMMA RestartRefines ==
    ASSUME IInv, Restarting,
           rested' = [rested EXCEPT ![s0] = 0],
           sweep' = NextService,
           \/ UNCHANGED <<status, failing>>
           \/ /\ status' = [status EXCEPT ![s0] = "running"]
              /\ failing' = [failing EXCEPT ![s0] = 0]
    PROVE  s0 \in Services /\ Guard!Restart(s0)
<1>1. s0 \in Services /\ rested[s0] = Cooldown
  BY DEF IInv, Allowed
<1>2. found[s0] = "exited" \/ failing[s0] = Threshold
  BY <1>1 DEF IInv, Allowed, Restarting, found
<1>3. found' = [found EXCEPT ![s0] = "unknown"]
  BY <1>1 DEF found, NextService
<1>4. QED
  BY <1>1, <1>2, <1>3 DEF Guard!Restart

LEMMA ExitedRefines ==
    ASSUME IInv, Exited
    PROVE  [Guard!Next]_Guard!vars
<1>1. s0 \in Services /\ status[s0] = "exited" /\ sweep.pc = "inspect"
  BY DEF IInv, Failed, Exited, Inspecting
<1>2. UNCHANGED <<status, failing, rested>>
  BY DEF Exited, containers, history
<1>3. CASE CooledDown
  <2>1. sweep' = [sweep EXCEPT !.pc = "exited"]
    BY <1>3 DEF Exited, Decide
  <2>2. sweep'.pc = "exited" /\ s0' = s0
    BY <2>1 DEF IInv, TypeOK, Sweeps, s0
  <2>3. found' = [found EXCEPT ![s0] = status[s0]]
    BY <1>1, <2>2 DEF found
  <2>4. Guard!Inspected(s0)
    BY <1>2, <2>3 DEF Guard!Inspected
  <2>5. QED
    BY <1>1, <2>4
<1>4. CASE ~CooledDown
  <2>1. sweep'.pc = "probe"
    BY <1>4 DEF Exited, Decide, NextService
  <2>2. QED
    BY <1>1, <1>2, <2>1, Invisible
<1>5. QED
  BY <1>3, <1>4

LEMMA HungRefines ==
    ASSUME IInv, Hung
    PROVE  UNCHANGED <<status, found, failing, rested>>
<1>1. sweep.pc = "inspect" /\ UNCHANGED <<status, failing, rested>>
  BY DEF Hung, Inspecting, containers, history
<1>2. sweep'.pc # "exited"
  BY DEF Hung, Decide, NextService, IInv, TypeOK, Sweeps
<1>3. QED
  BY <1>1, <1>2, Invisible

LEMMA TickRefines ==
    ASSUME IInv, Tick
    PROVE  Guard!Tick
<1>1. UNCHANGED found
  BY DEF Tick, Due, Over, found
<1>2. QED
  BY <1>1 DEF Tick, Guard!Tick, AtMost, Guard!AtMost, containers

\* found is unchanged when the environment acts: the sweep does not move.
LEMMA EnvironmentRefines ==
    ASSUME IInv, NEW s \in Services, Fault(s) \/ Recover(s)
    PROVE  [Guard!Next]_Guard!vars
<1>1. UNCHANGED <<found, failing, rested>>
  BY DEF Fault, Recover, found, s0, history
<1>2. CASE Fault(s)
  BY <1>1, <1>2 DEF Fault, Guard!Changes
<1>3. CASE Recover(s)
  BY <1>1, <1>3 DEF Recover
<1>4. QED
  BY <1>2, <1>3

LEMMA StepRefines == IInv /\ [Next]_vars => [Guard!Next]_Guard!vars
<1> SUFFICES ASSUME IInv, [Next]_vars PROVE [Guard!Next]_Guard!vars
  OBVIOUS
<1>1. CASE Reachable
  <2>1. UNCHANGED <<status, found, rested>>
    BY <1>1 DEF Reachable, containers, found, NextService
  <2>2. Guard!Answers(s0) /\ s0 \in Services
    BY <1>1, <2>1 DEF Reachable, Guard!Answers
  <2>3. QED
    BY <2>2
<1>2. CASE Unreachable
  <2>1. UNCHANGED <<status, found, rested>>
    BY <1>2 DEF Unreachable, containers, found, IInv, TypeOK, Sweeps
  <2>2. Guard!Fails(s0) /\ s0 \in Services
    BY <1>2, <2>1 DEF Unreachable, Guard!Fails, AtMost, Guard!AtMost
  <2>3. QED
    BY <2>2
<1>3. CASE Begin \/ Missing \/ InspectionRaises \/ Finish
  <2>1. UNCHANGED <<status, rested, failing>> /\ sweep.pc # "exited" /\ sweep'.pc # "exited"
    BY <1>3 DEF Begin, Missing, Inspecting, InspectionRaises, Finish, NextService, Over,
       containers, history
  <2>2. QED
    BY <2>1, Invisible
<1>4. CASE RestartSucceeds \/ RestartFails
  <2>1. s0 \in Services /\ Guard!Restart(s0)
    BY <1>4, RestartRefines DEF RestartSucceeds, RestartFails, containers
  <2>2. QED
    BY <2>1
<1>5. CASE UNCHANGED vars
  BY <1>5 DEF vars, containers, history, found, s0
<1>6. QED
  BY <1>1, <1>2, <1>3, <1>4, <1>5, ExitedRefines, HungRefines, TickRefines,
     EnvironmentRefines DEF Next, SweepStep

LEMMA InitRefines == Init => Guard!Init
BY DEF Init, Due, Guard!Init, found

\* run_arr_services restarts a container only after an inspection found it
\* stopped or Threshold probes in a row have failed, and never within the
\* cooldown of an earlier attempt, whatever containers do between its awaits.
THEOREM SweepIsRestartGuard == Spec => Guarded
BY Invariance, InitRefines, StepRefines, PTL DEF Spec, Guarded, Guard!Spec

=============================================================================
