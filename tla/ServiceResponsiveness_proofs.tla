--------------------- MODULE ServiceResponsiveness_proofs ---------------------
(* The sweep implements RestartGuard for the containers of the services; and  *)
(* for the proxies too, if no two routes lead through one of them.            *)
EXTENDS ServiceResponsiveness, TLAPS

LEMMA Bounds ==
    /\ N \in Nat /\ M \in Nat /\ External \subseteq Probes
    /\ ProxyOf \in [Probes -> Proxies \cup {0}]
    /\ Threshold \in Nat \ {0}
    /\ Cooldown \in Nat
    /\ MaxFaults \in Nat
BY ProbesAssumption, ProxyAssumption, ThresholdAssumption, CooldownAssumption, FaultsAssumption
   DEF ProbesAssumption, ProxyAssumption, ThresholdAssumption, CooldownAssumption,
       FaultsAssumption

USE Bounds

\* The routes through a proxy.
Routes == {p \in External : ProxyOf[p] # 0}

\* The routes that share their proxy with no other.
OwnRoutes == {p \in Routes : \A q \in Routes : ProxyOf[q] = ProxyOf[p] => q = p}

\* No two routes lead through one proxy.
OwnProxies == \A p, q \in Routes : ProxyOf[p] = ProxyOf[q] => p = q

LEMMA RoutesAre ==
    /\ Probes \subseteq Containers /\ 0 \notin Probes
    /\ \A p \in Routes : /\ p \in Probes /\ p \in External
                         /\ ProxyOf[p] \in Proxies /\ ProxyOf[p] \in Containers
                         /\ ProxyOf[p] \notin Probes /\ ProxyOf[p] # 0
    /\ OwnRoutes \subseteq Routes
BY DEF OwnRoutes, Routes, Probes, Proxies, Containers

Sweeps == [pc : Awaits \cup {"due", "over"}, cur : 1 .. N + 1, ok : BOOLEAN]

\* No more slow probes are counted than there were since an answer.
CountedSlow ==
    /\ \A p \in Probes : count[p] <= failing[p]
    /\ \A p \in OwnRoutes : extCount[p] <= failing[ProxyOf[p]]

\* A cooldown starts before the restart it is meant for.
StartedEarlier ==
    /\ \A p \in Probes : attempt[p] <= rested[p]
    /\ \A p \in OwnRoutes : extAttempt[p] <= rested[ProxyOf[p]]

\* A restart that is awaited was allowed when it was decided, and still is.
Allowed ==
    /\ sweep.pc = "restart" =>
          /\ p0 \in Probes /\ attempt[p0] = 0
          /\ rested[p0] = Cooldown /\ failing[p0] = Threshold
    /\ sweep.pc = "proxy" =>
          /\ p0 \in Routes /\ extAttempt[p0] = 0
          /\ p0 \in OwnRoutes => rested[proxy0] = Cooldown /\ failing[proxy0] = Threshold
    /\ sweep.pc = "external" => p0 \in External

IInv == TypeOK /\ CountedSlow /\ StartedEarlier /\ Allowed

-----------------------------------------------------------------------------
(* The invariant *)

LEMMA SweepTypes ==
    ASSUME TypeOK
    PROVE  /\ Due \in Sweeps /\ Over \in Sweeps
           /\ [pc |-> "internal", cur |-> 1, ok |-> FALSE] \in Sweeps
           /\ p0 \in Probes =>
                 /\ NextProbe \in Sweeps /\ NextProbe.pc = "internal"
                 /\ \A ok \in BOOLEAN :
                       /\ Proceed(ok) \in Sweeps
                       /\ Proceed(ok).pc \in {"internal", "external"}
                       /\ Proceed(ok).pc = "external" =>
                             Proceed(ok).cur = p0 /\ p0 \in External
           /\ \A pc \in Awaits : LET s == [sweep EXCEPT !.pc = pc]
                                 IN  s \in Sweeps /\ s.pc = pc /\ s.cur = p0
<1> USE DEF Sweeps, Awaits
<1>1. sweep \in Sweeps /\ p0 \in 1 .. N + 1
  BY DEF TypeOK, p0
<1>2. Due \in Sweeps /\ Over \in Sweeps /\ [pc |-> "internal", cur |-> 1, ok |-> FALSE] \in Sweeps
  BY DEF Due, Over
<1>3. ASSUME p0 \in Probes PROVE NextProbe \in Sweeps /\ NextProbe.pc = "internal"
  BY <1>3 DEF NextProbe, Probes
<1>4. ASSUME p0 \in Probes, NEW ok \in BOOLEAN
      PROVE  /\ Proceed(ok) \in Sweeps
             /\ Proceed(ok).pc \in {"internal", "external"}
             /\ Proceed(ok).pc = "external" => Proceed(ok).cur = p0 /\ p0 \in External
  BY <1>1, <1>3, <1>4 DEF Proceed
<1>5. \A pc \in Awaits : LET s == [sweep EXCEPT !.pc = pc]
                         IN  s \in Sweeps /\ s.pc = pc /\ s.cur = p0
  BY <1>1 DEF p0
<1>6. QED
  BY <1>2, <1>3, <1>4, <1>5

LEMMA SetType ==
    ASSUME NEW S, NEW bound \in Nat, NEW f \in [S -> 0 .. bound], NEW x, NEW v \in 0 .. bound
    PROVE  [f EXCEPT ![x] = v] \in [S -> 0 .. bound]
OBVIOUS

LEMMA ResetType ==
    ASSUME NEW S, NEW bound \in Nat, NEW f \in [S -> 0 .. bound], NEW x
    PROVE  [f EXCEPT ![x] = 0] \in [S -> 0 .. bound]
<1>1. 0 \in 0 .. bound
  OBVIOUS
<1>2. QED
  BY <1>1

LEMMA CapIs ==
    ASSUME NEW bound \in Nat, NEW n \in 0 .. bound
    PROVE  /\ AtMost(n + 1, bound) \in 0 .. bound
           /\ n <= AtMost(n + 1, bound)
           /\ n < bound => AtMost(n + 1, bound) = n + 1
           /\ n = bound => AtMost(n + 1, bound) = bound
BY DEF AtMost

\* Counting on both sides keeps the one from overtaking the other.
LEMMA CapMonotone ==
    ASSUME NEW bound \in Nat, NEW n \in 0 .. bound, NEW m \in 0 .. bound, n <= m
    PROVE  AtMost(n + 1, bound) <= AtMost(m + 1, bound)
BY DEF AtMost

LEMMA InitIInv == Init => IInv
<1> SUFFICES ASSUME Init PROVE IInv
  OBVIOUS
<1>1. sweep \in Sweeps /\ sweep.pc = "due"
  BY DEF Init, Due, Sweeps
<1>2. TypeOK
  BY <1>1 DEF Init, TypeOK, Sweeps
<1>3. CountedSlow /\ StartedEarlier
  BY RoutesAre DEF Init, CountedSlow, StartedEarlier
<1>4. QED
  BY <1>1, <1>2, <1>3 DEF IInv, Allowed

\* Steps that leave the counters, cooldowns and the history as they are.
LEMMA SweepMovesInv ==
    ASSUME IInv, UNCHANGED <<counters, attempts, history>>,
           slow' \subseteq Containers, faults' \in 0 .. MaxFaults,
           \/ sweep' = sweep
           \/ sweep' \in Sweeps /\ sweep'.pc \in {"due", "over", "internal"}
    PROVE  IInv'
<1>1. TypeOK'
  BY DEF IInv, TypeOK, Sweeps, counters, attempts, history
<1>2. CountedSlow' /\ StartedEarlier'
  BY DEF IInv, CountedSlow, StartedEarlier, counters, attempts, history
<1>3. Allowed'
  BY DEF IInv, Allowed, p0, proxy0, counters, attempts, history
<1>4. QED
  BY <1>1, <1>2, <1>3 DEF IInv

\* After a probe the sweep goes on without a restart.
GoesOn ==
    /\ sweep' \in Sweeps
    /\ sweep'.pc \in {"internal", "external"}
    /\ sweep'.pc = "external" => p0' \in External

LEMMA ProceedGoesOn ==
    ASSUME TypeOK, p0 \in Probes,
           sweep' = NextProbe \/ \E ok \in BOOLEAN : sweep' = Proceed(ok)
    PROVE  GoesOn
BY SweepTypes DEF GoesOn, p0

LEMMA GoesOnAllowed == GoesOn => Allowed'
BY DEF GoesOn, Allowed

LEMMA InternalOkInv == ASSUME IInv, InternalOk PROVE IInv'
<1>1. p0 \in Probes /\ p0 \in Containers /\ GoesOn
  BY ProceedGoesOn, RoutesAre DEF InternalOk, IInv
<1>2. /\ count' = [count EXCEPT ![p0] = 0] /\ failing' = [failing EXCEPT ![p0] = 0]
      /\ UNCHANGED <<slow, extCount, attempts, rested, faults>>
  BY DEF InternalOk, Forgotten, Answered
<1>3. TypeOK'
  BY <1>1, <1>2, SetType DEF IInv, TypeOK, GoesOn, Sweeps, attempts
<1>4. CountedSlow'
  BY <1>1, <1>2, RoutesAre DEF IInv, TypeOK, CountedSlow
<1>5. StartedEarlier'
  BY <1>2 DEF IInv, StartedEarlier, attempts
<1>6. QED
  BY <1>1, <1>3, <1>4, <1>5, GoesOnAllowed DEF IInv

\* A slow answer is counted twice, by docktarr and by the history.
LEMMA InternalSlowInv == ASSUME IInv, InternalSlow PROVE IInv'
<1> DEFINE n == AtMost(count[p0] + 1, Threshold)
           m == AtMost(failing[p0] + 1, Threshold)
<1>1. p0 \in Probes /\ p0 \in Containers
  BY RoutesAre DEF InternalSlow
<1>2. /\ count[p0] \in 0 .. Threshold /\ failing[p0] \in 0 .. Threshold
      /\ count[p0] <= failing[p0]
      /\ attempt[p0] \in 0 .. Cooldown /\ rested[p0] \in 0 .. Cooldown
      /\ attempt[p0] <= rested[p0]
  BY <1>1 DEF IInv, TypeOK, CountedSlow, StartedEarlier
<1>3. n \in 0 .. Threshold /\ m \in 0 .. Threshold /\ n <= m
  BY <1>2, CapIs, CapMonotone
<1>4. /\ count' = [count EXCEPT ![p0] = n] /\ failing' = [failing EXCEPT ![p0] = m]
      /\ UNCHANGED <<slow, extCount, extAttempt, rested, faults>>
  BY DEF InternalSlow, Counted, Failing
<1>5. count'[p0] = n /\ failing'[p0] = m
  BY <1>1, <1>4 DEF IInv, TypeOK
<1> HIDE DEF n, m
<1>6. /\ count' \in [Probes -> 0 .. Threshold] /\ failing' \in [Containers -> 0 .. Threshold]
  BY <1>3, <1>4, SetType DEF IInv, TypeOK
<1>7. CountedSlow'
  BY <1>1, <1>3, <1>4, RoutesAre DEF IInv, TypeOK, CountedSlow
<1>8. CASE n >= Threshold /\ attempt[p0] = Cooldown
  <2>1. attempt' = [attempt EXCEPT ![p0] = 0] /\ sweep' = [sweep EXCEPT !.pc = "restart"]
    BY <1>5, <1>8 DEF InternalSlow, Reached, CooledDown
  <2>2. sweep' \in Sweeps /\ sweep'.pc = "restart" /\ p0' = p0
    BY <2>1, SweepTypes DEF IInv, Awaits, p0
  <2>3. TypeOK'
    BY <1>4, <1>6, <2>1, <2>2, SetType DEF IInv, TypeOK, Sweeps
  <2>4. StartedEarlier'
    BY <1>2, <1>4, <2>1 DEF IInv, TypeOK, StartedEarlier
  <2>5. Allowed'
    BY <1>1, <1>2, <1>3, <1>4, <1>5, <1>8, <2>1, <2>2 DEF IInv, TypeOK, Allowed
  <2>6. QED
    BY <1>7, <2>3, <2>4, <2>5 DEF IInv
<1>9. CASE ~(n >= Threshold /\ attempt[p0] = Cooldown)
  <2>1. UNCHANGED attempt /\ sweep' = Proceed(FALSE)
    BY <1>5, <1>9 DEF InternalSlow, Reached, CooledDown
  <2>2. GoesOn
    BY <1>1, <2>1, ProceedGoesOn DEF IInv
  <2>3. TypeOK'
    BY <1>4, <1>6, <2>1, <2>2 DEF IInv, TypeOK, GoesOn, Sweeps
  <2>4. StartedEarlier'
    BY <1>4, <2>1 DEF IInv, StartedEarlier
  <2>5. QED
    BY <1>7, <2>2, <2>3, <2>4, GoesOnAllowed DEF IInv
<1>10. QED
  BY <1>8, <1>9

\* A restart of a service: its cooldown began when it was decided.
LEMMA AppRestartInv == ASSUME IInv, AppRestarted \/ AppRestartFails PROVE IInv'
<1>1. p0 \in Probes /\ p0 \in Containers /\ attempt[p0] = 0
  BY RoutesAre DEF IInv, Allowed, AppRestarted, AppRestartFails
<1>2. GoesOn
  BY <1>1, ProceedGoesOn DEF IInv, AppRestarted, AppRestartFails
<1>3. /\ rested' = [rested EXCEPT ![p0] = 0]
      /\ UNCHANGED <<extCount, attempts, faults>>
      /\ \/ /\ count' = [count EXCEPT ![p0] = 0] /\ failing' = [failing EXCEPT ![p0] = 0]
            /\ slow' = slow \ {p0}
         \/ UNCHANGED <<slow, count, failing>>
  BY DEF AppRestarted, AppRestartFails, Forgotten, Answered, counters
<1>4. TypeOK'
  <2>1. rested' \in [Containers -> 0 .. Cooldown]
    <3>1. rested \in [Containers -> 0 .. Cooldown]
      BY DEF IInv, TypeOK
    <3>2. QED
      BY ONLY <1>3, <3>1, ResetType, Bounds
  <2>2. count' \in [Probes -> 0 .. Threshold] /\ failing' \in [Containers -> 0 .. Threshold]
    BY <1>3, SetType DEF IInv, TypeOK
  <2>3. slow' \subseteq Containers
    BY <1>3 DEF IInv, TypeOK
  <2>4. QED
    BY <1>2, <1>3, <2>1, <2>2, <2>3 DEF IInv, TypeOK, GoesOn, Sweeps, attempts
<1>5. CountedSlow'
  <2>1. CASE UNCHANGED <<slow, count, failing>>
    BY <1>3, <2>1 DEF IInv, CountedSlow
  <2>2. CASE count' = [count EXCEPT ![p0] = 0] /\ failing' = [failing EXCEPT ![p0] = 0]
    BY <1>1, <1>3, <2>2, RoutesAre DEF IInv, TypeOK, CountedSlow
  <2>3. QED
    BY <1>3, <2>1, <2>2
<1>6. StartedEarlier'
  BY <1>1, <1>3, RoutesAre DEF IInv, TypeOK, StartedEarlier, attempts
<1>7. QED
  BY <1>2, <1>4, <1>5, <1>6, GoesOnAllowed DEF IInv

-----------------------------------------------------------------------------
(* The public routes *)

LEMMA ProbeInHand == ASSUME IInv, sweep.pc = "external" PROVE p0 \in External /\ p0 \in Probes
BY DEF IInv, Allowed

LEMMA ExternalOkInv == ASSUME IInv, ExternalOk PROVE IInv'
<1>1. p0 \in Probes /\ GoesOn
  BY ProbeInHand, ProceedGoesOn DEF ExternalOk, IInv
<1>2. /\ extCount' = [extCount EXCEPT ![p0] = 0]
      /\ \/ failing' = failing /\ p0 \notin Routes
         \/ failing' = [failing EXCEPT ![proxy0] = 0] /\ p0 \in Routes
      /\ UNCHANGED <<slow, count, attempts, rested, faults>>
  BY ProbeInHand DEF ExternalOk, Forgotten, Answered, Routes, proxy0
<1>3. TypeOK'
  <2>1. failing' \in [Containers -> 0 .. Threshold]
    <3>1. failing \in [Containers -> 0 .. Threshold]
      BY DEF IInv, TypeOK
    <3>2. QED
      BY ONLY <1>2, <3>1, ResetType, Bounds
  <2>2. extCount' \in [Probes -> 0 .. Threshold]
    BY <1>2, ResetType DEF IInv, TypeOK
  <2>3. QED
    BY <1>1, <1>2, <2>1, <2>2 DEF IInv, TypeOK, GoesOn, Sweeps, attempts
<1>4. CountedSlow'
  <2>1. CASE failing' = failing /\ p0 \notin Routes
    BY <1>1, <1>2, <2>1, RoutesAre DEF IInv, TypeOK, CountedSlow
  <2>2. CASE failing' = [failing EXCEPT ![proxy0] = 0] /\ p0 \in Routes
    <3>1. \A p \in OwnRoutes : ProxyOf[p] = proxy0 => p = p0
      BY <2>2 DEF OwnRoutes, proxy0
    <3>2. QED
      BY <1>1, <1>2, <2>2, <3>1, RoutesAre DEF IInv, TypeOK, CountedSlow, proxy0
  <2>3. QED
    BY <1>2, <2>1, <2>2
<1>5. StartedEarlier'
  BY <1>2 DEF IInv, StartedEarlier, attempts
<1>6. QED
  BY <1>1, <1>3, <1>4, <1>5, GoesOnAllowed DEF IInv

LEMMA ExternalSlowInv == ASSUME IInv, ExternalSlow PROVE IInv'
<1> DEFINE n == AtMost(extCount[p0] + 1, Threshold)
           m == AtMost(failing[proxy0] + 1, Threshold)
<1>1. p0 \in Probes /\ p0 \in External
  BY ProbeInHand DEF ExternalSlow
<1>2. extCount[p0] \in 0 .. Threshold /\ n \in 0 .. Threshold
  BY <1>1, CapIs DEF IInv, TypeOK
<1>3. /\ extCount' = [extCount EXCEPT ![p0] = n] /\ extCount'[p0] = n
      /\ UNCHANGED <<slow, count, attempt, rested, faults>>
  BY <1>1 DEF ExternalSlow, Counted, IInv, TypeOK
<1>4. CASE p0 \notin Routes
  <2>1. UNCHANGED <<failing, extAttempt>> /\ sweep' = NextProbe
    BY <1>1, <1>4 DEF ExternalSlow, BlamesProxy, Routes, proxy0
  <2>2. GoesOn
    BY <1>1, <2>1, ProceedGoesOn DEF IInv
  <2>3. TypeOK'
    <3>1. extCount' \in [Probes -> 0 .. Threshold]
      BY <1>2, <1>3, SetType DEF IInv, TypeOK
    <3>2. QED
      BY <1>3, <2>1, <2>2, <3>1 DEF IInv, TypeOK, GoesOn, Sweeps
  <2>4. CountedSlow' /\ StartedEarlier'
    BY <1>3, <1>4, <2>1, RoutesAre DEF IInv, TypeOK, CountedSlow, StartedEarlier
  <2>5. QED
    BY <2>2, <2>3, <2>4, GoesOnAllowed DEF IInv
<1>5. CASE p0 \in Routes
  <2>1. proxy0 \in Containers /\ proxy0 # 0 /\ proxy0 \notin Probes /\ proxy0 = ProxyOf[p0]
    BY <1>5, RoutesAre DEF proxy0
  <2>2. /\ failing[proxy0] \in 0 .. Threshold
        /\ extAttempt[p0] \in 0 .. Cooldown /\ rested[proxy0] \in 0 .. Cooldown
        /\ p0 \in OwnRoutes => /\ extCount[p0] <= failing[proxy0]
                               /\ extAttempt[p0] <= rested[proxy0]
    BY <1>1, <1>5, <2>1 DEF IInv, TypeOK, CountedSlow, StartedEarlier
  <2>3. m \in 0 .. Threshold /\ (p0 \in OwnRoutes => n <= m)
    BY <1>2, <2>2, CapIs, CapMonotone
  <2>4. failing' = [failing EXCEPT ![proxy0] = m] /\ failing'[proxy0] = m
    BY <2>1 DEF ExternalSlow, Failing, IInv, TypeOK
  <2>5. \A p \in OwnRoutes : ProxyOf[p] = proxy0 => p = p0
    BY <1>5 DEF OwnRoutes, proxy0
  <2> HIDE DEF n, m
  <2>6. /\ extCount' \in [Probes -> 0 .. Threshold]
        /\ failing' \in [Containers -> 0 .. Threshold]
    BY <1>2, <1>3, <2>3, <2>4, SetType DEF IInv, TypeOK
  <2>7. CountedSlow'
    BY <1>1, <1>3, <2>1, <2>3, <2>4, <2>5, RoutesAre DEF IInv, TypeOK, CountedSlow
  <2>8. CASE n >= Threshold /\ BlamesProxy /\ extAttempt[p0] = Cooldown
    <3>1. /\ extAttempt' = [extAttempt EXCEPT ![p0] = 0]
          /\ sweep' = [sweep EXCEPT !.pc = "proxy"]
      BY <1>3, <2>8 DEF ExternalSlow, Reached, CooledDown
    <3>2. sweep' \in Sweeps /\ sweep'.pc = "proxy" /\ p0' = p0 /\ proxy0' = proxy0
      BY <3>1, SweepTypes DEF IInv, Awaits, p0, proxy0
    <3>3. TypeOK'
      BY <1>3, <2>6, <3>1, <3>2, SetType DEF IInv, TypeOK, Sweeps
    <3>4. StartedEarlier'
      BY <1>3, <2>1, <2>2, <3>1 DEF IInv, TypeOK, StartedEarlier
    <3>5. Allowed'
      BY <1>2, <1>3, <1>5, <2>2, <2>3, <2>4, <2>8, <3>1, <3>2, RoutesAre DEF IInv, TypeOK, Allowed
    <3>6. QED
      BY <2>7, <3>3, <3>4, <3>5 DEF IInv
  <2>9. CASE ~(n >= Threshold /\ BlamesProxy /\ extAttempt[p0] = Cooldown)
    <3>1. UNCHANGED extAttempt /\ sweep' = NextProbe
      BY <1>3, <2>9 DEF ExternalSlow, Reached, CooledDown
    <3>2. GoesOn
      BY <1>1, <3>1, ProceedGoesOn DEF IInv
    <3>3. TypeOK'
      BY <1>3, <2>6, <3>1, <3>2 DEF IInv, TypeOK, GoesOn, Sweeps
    <3>4. StartedEarlier'
      BY <1>3, <3>1 DEF IInv, StartedEarlier
    <3>5. QED
      BY <2>7, <3>2, <3>3, <3>4, GoesOnAllowed DEF IInv
  <2>10. QED
    BY <2>8, <2>9
<1>6. QED
  BY <1>4, <1>5

LEMMA ProxyRestartInv == ASSUME IInv, ProxyRestarted \/ ProxyRestartFails PROVE IInv'
<1>1. p0 \in Routes /\ p0 \in Probes /\ extAttempt[p0] = 0 /\ proxy0 = ProxyOf[p0]
  BY RoutesAre DEF IInv, Allowed, ProxyRestarted, ProxyRestartFails, proxy0
<1>2. GoesOn
  BY <1>1, ProceedGoesOn DEF IInv, ProxyRestarted, ProxyRestartFails
<1>3. /\ rested' = [rested EXCEPT ![proxy0] = 0]
      /\ UNCHANGED <<count, attempts, faults>>
      /\ \/ /\ extCount' = [extCount EXCEPT ![p0] = 0]
            /\ failing' = [failing EXCEPT ![proxy0] = 0]
            /\ slow' = slow \ {proxy0}
         \/ UNCHANGED <<slow, extCount, failing>>
  BY DEF ProxyRestarted, ProxyRestartFails, Forgotten, Answered, counters
<1>4. \A p \in OwnRoutes : ProxyOf[p] = proxy0 => p = p0
  BY <1>1 DEF OwnRoutes
<1>5. TypeOK'
  <2>1. rested' \in [Containers -> 0 .. Cooldown]
    <3>1. rested \in [Containers -> 0 .. Cooldown]
      BY DEF IInv, TypeOK
    <3>2. QED
      BY ONLY <1>3, <3>1, ResetType, Bounds
  <2>2. extCount' \in [Probes -> 0 .. Threshold] /\ failing' \in [Containers -> 0 .. Threshold]
    BY <1>3, SetType DEF IInv, TypeOK
  <2>3. slow' \subseteq Containers
    BY <1>3 DEF IInv, TypeOK
  <2>4. QED
    BY <1>2, <1>3, <2>1, <2>2, <2>3 DEF IInv, TypeOK, GoesOn, Sweeps, attempts
<1>6. CountedSlow'
  <2>1. CASE UNCHANGED <<slow, extCount, failing>>
    BY <1>3, <2>1 DEF IInv, CountedSlow
  <2>2. CASE /\ extCount' = [extCount EXCEPT ![p0] = 0]
             /\ failing' = [failing EXCEPT ![proxy0] = 0]
    BY <1>1, <1>3, <1>4, <2>2, RoutesAre DEF IInv, TypeOK, CountedSlow
  <2>3. QED
    BY <1>3, <2>1, <2>2
<1>7. StartedEarlier'
  BY <1>1, <1>3, <1>4, RoutesAre DEF IInv, TypeOK, StartedEarlier, attempts
<1>8. QED
  BY <1>2, <1>5, <1>6, <1>7, GoesOnAllowed DEF IInv

LEMMA TickInv == ASSUME IInv, Tick PROVE IInv'
<1>1. /\ \A p \in Probes : /\ attempt'[p] = AtMost(attempt[p] + 1, Cooldown)
                           /\ extAttempt'[p] = AtMost(extAttempt[p] + 1, Cooldown)
      /\ \A c \in Containers : rested'[c] = AtMost(rested[c] + 1, Cooldown)
  BY DEF Tick, Older, IInv, TypeOK
<1>2. /\ attempt' \in [Probes -> 0 .. Cooldown] /\ extAttempt' \in [Probes -> 0 .. Cooldown]
      /\ rested' \in [Containers -> 0 .. Cooldown]
  BY CapIs DEF Tick, Older, IInv, TypeOK
<1>3. StartedEarlier'
  <2>1. \A p \in Probes : attempt'[p] <= rested'[p]
    <3> TAKE p \in Probes
    <3>1. /\ attempt[p] \in 0 .. Cooldown /\ rested[p] \in 0 .. Cooldown /\ attempt[p] <= rested[p]
          /\ attempt'[p] = AtMost(attempt[p] + 1, Cooldown)
          /\ rested'[p] = AtMost(rested[p] + 1, Cooldown)
      BY <1>1, RoutesAre DEF IInv, TypeOK, StartedEarlier
    <3>2. QED
      BY <3>1, CapMonotone
  <2>2. \A p \in OwnRoutes : extAttempt'[p] <= rested'[ProxyOf[p]]
    <3> TAKE p \in OwnRoutes
    <3>1. /\ extAttempt[p] \in 0 .. Cooldown /\ rested[ProxyOf[p]] \in 0 .. Cooldown
          /\ extAttempt[p] <= rested[ProxyOf[p]]
          /\ extAttempt'[p] = AtMost(extAttempt[p] + 1, Cooldown)
          /\ rested'[ProxyOf[p]] = AtMost(rested[ProxyOf[p]] + 1, Cooldown)
      BY <1>1, RoutesAre DEF IInv, TypeOK, StartedEarlier
    <3>2. QED
      BY <3>1, CapMonotone
  <2>3. QED
    BY <2>1, <2>2 DEF StartedEarlier
<1>4. sweep' \in Sweeps /\ sweep'.pc = "due"
  BY SweepTypes DEF Tick, IInv, Due
<1>5. TypeOK' /\ CountedSlow'
  BY <1>2, <1>4 DEF Tick, IInv, TypeOK, Sweeps, CountedSlow, counters
<1>6. QED
  BY <1>3, <1>4, <1>5 DEF IInv, Allowed

LEMMA OtherInv ==
    ASSUME IInv,
           \/ Begin \/ Finish
           \/ \E c \in Containers : SlowsDown(c) \/ Recovers(c)
           \/ UNCHANGED vars
    PROVE  IInv'
<1>1. UNCHANGED <<counters, attempts, history>>
  BY DEF Begin, Finish, SlowsDown, Recovers, vars
<1>2. slow' \subseteq Containers /\ faults' \in 0 .. MaxFaults
  <2>1. slow \subseteq Containers /\ faults \in 0 .. MaxFaults
    BY DEF IInv, TypeOK
  <2>2. QED
    BY <2>1 DEF Begin, Finish, SlowsDown, Recovers, vars
<1>3. sweep' = sweep \/ (sweep' \in Sweeps /\ sweep'.pc \in {"over", "internal"})
  <2> DEFINE start == [pc |-> "internal", cur |-> 1, ok |-> FALSE]
  <2>1. Over \in Sweeps /\ Over.pc = "over" /\ start \in Sweeps /\ start.pc = "internal"
    BY SweepTypes DEF IInv, Over
  <2>2. CASE Begin \/ Finish
    <3>1. sweep' = start \/ sweep' = Over
      BY <2>2 DEF Begin, Finish
    <3> HIDE DEF start
    <3>2. QED
      BY <2>1, <3>1
  <2>3. QED
    BY <2>2 DEF SlowsDown, Recovers, vars
<1>4. QED
  BY <1>1, <1>2, <1>3, SweepMovesInv

LEMMA NextIInv == IInv /\ [Next]_vars => IInv'
BY InternalOkInv, InternalSlowInv, AppRestartInv, ExternalOkInv, ExternalSlowInv,
   ProxyRestartInv, TickInv, OtherInv DEF Next, SweepStep

LEMMA Invariance == Spec => []IInv
<1>1. IInv /\ [Next]_vars => IInv'
  BY NextIInv
<1>2. QED
  BY InitIInv, <1>1, PTL DEF Spec

-----------------------------------------------------------------------------
(* The refinement *)

USE DEF Guard!Next, Guard!vars

LEMMA RestartRefines ==
    ASSUME IInv, NEW c \in Containers,
           rested[c] = Cooldown, failing[c] = Threshold,
           rested' = [rested EXCEPT ![c] = 0],
           failing' = failing \/ failing' = [failing EXCEPT ![c] = 0]
    PROVE  Guard!Restart(c)
<1> DEFINE running == [d \in Containers |-> "running"]
           unknown == [d \in Containers |-> "unknown"]
<1>1. /\ running = [running EXCEPT ![c] = "running"]
      /\ unknown = [unknown EXCEPT ![c] = "unknown"]
  OBVIOUS
<1>2. QED
  BY <1>1 DEF Guard!Restart

LEMMA AnswerRefines ==
    ASSUME IInv, NEW c \in Containers, UNCHANGED rested,
           \/ failing' = [failing EXCEPT ![c] = 0]
           \/ failing' = [failing EXCEPT ![c] = AtMost(@ + 1, Threshold)]
    PROVE  Guard!Answers(c) \/ Guard!Fails(c)
BY DEF Guard!Answers, Guard!Fails, AtMost, Guard!AtMost

LEMMA TickRefines == ASSUME IInv, Tick PROVE Guard!Tick
<1>1. rested' = [c \in Containers |-> Guard!AtMost(rested[c] + 1, Cooldown)]
  BY DEF Tick, Older, AtMost, Guard!AtMost, IInv, TypeOK
<1>2. QED
  BY <1>1 DEF Tick, Guard!Tick

LEMMA StepRefines == OwnProxies /\ IInv /\ [Next]_vars => [Guard!Next]_Guard!vars
<1> SUFFICES ASSUME OwnProxies, IInv, [Next]_vars PROVE [Guard!Next]_Guard!vars
  OBVIOUS
<1>1. CASE InternalOk \/ InternalSlow
  <2>1. p0 \in Containers
    BY <1>1, RoutesAre DEF InternalOk, InternalSlow
  <2>2. Guard!Answers(p0) \/ Guard!Fails(p0)
    BY <1>1, <2>1, AnswerRefines DEF InternalOk, InternalSlow, Answered, Failing
  <2>3. QED
    BY <2>1, <2>2
<1>2. CASE AppRestarted \/ AppRestartFails
  <2>1. p0 \in Containers /\ rested[p0] = Cooldown /\ failing[p0] = Threshold
    BY <1>2, RoutesAre DEF AppRestarted, AppRestartFails, IInv, Allowed
  <2>2. Guard!Restart(p0)
    BY <1>2, <2>1, RestartRefines DEF AppRestarted, AppRestartFails, Answered
  <2>3. QED
    BY <2>1, <2>2
<1>3. CASE ExternalOk \/ ExternalSlow
  <2>1. CASE proxy0 = 0
    BY <1>3, <2>1 DEF ExternalOk, ExternalSlow
  <2>2. CASE proxy0 # 0
    <3>1. proxy0 \in Containers
      BY <1>3, <2>2, ProbeInHand, RoutesAre DEF ExternalOk, ExternalSlow, Routes, proxy0
    <3>2. Guard!Answers(proxy0) \/ Guard!Fails(proxy0)
      BY <1>3, <2>2, <3>1, AnswerRefines DEF ExternalOk, ExternalSlow, Answered, Failing
    <3>3. QED
      BY <3>1, <3>2
  <2>3. QED
    BY <2>1, <2>2
<1>4. CASE ProxyRestarted \/ ProxyRestartFails
  <2>1. proxy0 \in Containers /\ rested[proxy0] = Cooldown /\ failing[proxy0] = Threshold
    BY <1>4, RoutesAre DEF ProxyRestarted, ProxyRestartFails, IInv, Allowed, OwnRoutes, OwnProxies, proxy0
  <2>2. Guard!Restart(proxy0)
    BY <1>4, <2>1, RestartRefines DEF ProxyRestarted, ProxyRestartFails, Answered
  <2>3. QED
    BY <2>1, <2>2
<1>5. CASE \/ Begin \/ Finish
           \/ \E c \in Containers : SlowsDown(c) \/ Recovers(c)
           \/ UNCHANGED vars
  BY <1>5 DEF Begin, Finish, SlowsDown, Recovers, vars, history
<1>6. CASE Tick
  BY <1>6, TickRefines
<1>7. QED
  BY <1>1, <1>2, <1>3, <1>4, <1>5, <1>6 DEF Next, SweepStep

LEMMA InitRefines == Init => Guard!Init
BY DEF Init, Guard!Init

\* The promise to the services' own containers.
Services == INSTANCE RestartGuard WITH
    Containers <- Probes,
    status <- [p \in Probes |-> "running"],
    found <- [p \in Probes |-> "unknown"],
    failing <- [p \in Probes |-> failing[p]],
    rested <- [p \in Probes |-> rested[p]]

USE DEF Services!Next, Services!vars

LEMMA ServiceRestartRefines ==
    ASSUME IInv, NEW c \in Probes,
           rested[c] = Cooldown, failing[c] = Threshold,
           rested' = [rested EXCEPT ![c] = 0],
           failing' = failing \/ failing' = [failing EXCEPT ![c] = 0]
    PROVE  Services!Restart(c)
<1> DEFINE f == [p \in Probes |-> failing[p]]
           r == [p \in Probes |-> rested[p]]
<1>1. failing \in [Containers -> 0 .. Threshold] /\ rested \in [Containers -> 0 .. Cooldown]
  BY DEF IInv, TypeOK
<1>2. r' = [r EXCEPT ![c] = 0] /\ r[c] = Cooldown /\ f[c] = Threshold
  BY <1>1, RoutesAre
<1>3. f' = f \/ f' = [f EXCEPT ![c] = 0]
  BY <1>1, RoutesAre
<1>4. /\ [p \in Probes |-> "running"] = [[p \in Probes |-> "running"] EXCEPT ![c] = "running"]
      /\ [p \in Probes |-> "unknown"] = [[p \in Probes |-> "unknown"] EXCEPT ![c] = "unknown"]
  OBVIOUS
<1> HIDE DEF f, r
<1>5. QED
  BY <1>2, <1>3, <1>4 DEF Services!Restart, f, r

LEMMA ServiceAnswerRefines ==
    ASSUME IInv, NEW c \in Probes, UNCHANGED rested,
           \/ failing' = [failing EXCEPT ![c] = 0]
           \/ failing' = [failing EXCEPT ![c] = AtMost(@ + 1, Threshold)]
    PROVE  Services!Answers(c) \/ Services!Fails(c)
<1> DEFINE f == [p \in Probes |-> failing[p]]
<1>1. failing \in [Containers -> 0 .. Threshold]
  BY DEF IInv, TypeOK
<1>2. f' = [f EXCEPT ![c] = 0] \/ f' = [f EXCEPT ![c] = AtMost(@ + 1, Threshold)]
  BY <1>1, RoutesAre
<1>3. QED
  BY <1>2 DEF Services!Answers, Services!Fails, AtMost, Services!AtMost

LEMMA ProxyIsNoProbe == p0 \in Probes => proxy0 \notin Probes
BY DEF Probes, Proxies, proxy0

\* What is recorded of the proxies does not concern the services.
LEMMA ProxyStepStutters ==
    ASSUME IInv, NEW c, c \notin Probes,
           rested' = rested \/ rested' = [rested EXCEPT ![c] = 0],
           \/ failing' = failing
           \/ failing' = [failing EXCEPT ![c] = 0]
           \/ failing' = [failing EXCEPT ![c] = AtMost(@ + 1, Threshold)]
    PROVE  UNCHANGED Services!vars
<1>1. failing \in [Containers -> 0 .. Threshold] /\ rested \in [Containers -> 0 .. Cooldown]
  BY DEF IInv, TypeOK
<1>2. \A p \in Probes : failing'[p] = failing[p] /\ rested'[p] = rested[p]
  BY <1>1, RoutesAre
<1>3. QED
  BY <1>2

LEMMA ServiceTickRefines == ASSUME IInv, Tick PROVE Services!Tick
<1>1. \A p \in Probes : rested'[p] = Services!AtMost(rested[p] + 1, Cooldown)
  BY RoutesAre DEF Tick, Older, AtMost, Services!AtMost, IInv, TypeOK
<1>2. [p \in Probes |-> rested'[p]]
        = [p \in Probes |-> Services!AtMost([q \in Probes |-> rested[q]][p] + 1, Cooldown)]
  BY <1>1
<1>3. QED
  BY <1>2 DEF Tick, Services!Tick

LEMMA ServiceStepRefines == IInv /\ [Next]_vars => [Services!Next]_Services!vars
<1> SUFFICES ASSUME IInv, [Next]_vars PROVE [Services!Next]_Services!vars
  OBVIOUS
<1>1. CASE InternalOk \/ InternalSlow
  <2>1. PICK c \in Probes : c = p0
    BY <1>1 DEF InternalOk, InternalSlow
  <2>2. Services!Answers(c) \/ Services!Fails(c)
    BY <1>1, <2>1, ServiceAnswerRefines DEF InternalOk, InternalSlow, Answered, Failing
  <2>3. QED
    BY <2>2
<1>2. CASE AppRestarted \/ AppRestartFails
  <2>1. PICK c \in Probes : c = p0 /\ rested[c] = Cooldown /\ failing[c] = Threshold
    BY <1>2 DEF AppRestarted, AppRestartFails, IInv, Allowed
  <2>2. Services!Restart(c)
    BY <1>2, <2>1, ServiceRestartRefines DEF AppRestarted, AppRestartFails, Answered
  <2>3. QED
    BY <2>1, <2>2
<1>3. CASE ExternalOk \/ ExternalSlow
  <2>1. proxy0 \notin Probes
    BY <1>3, ProbeInHand, ProxyIsNoProbe DEF ExternalOk, ExternalSlow
  <2>2. /\ rested' = rested
        /\ \/ failing' = failing
           \/ failing' = [failing EXCEPT ![proxy0] = 0]
           \/ failing' = [failing EXCEPT ![proxy0] = AtMost(@ + 1, Threshold)]
    BY <1>3 DEF ExternalOk, ExternalSlow, Answered, Failing
  <2>3. QED
    BY <2>1, <2>2, ProxyStepStutters
<1>4. CASE ProxyRestarted \/ ProxyRestartFails
  <2>1. proxy0 \notin Probes
    BY <1>4, RoutesAre, ProxyIsNoProbe DEF ProxyRestarted, ProxyRestartFails, IInv, Allowed
  <2>2. /\ rested' = [rested EXCEPT ![proxy0] = 0]
        /\ failing' = failing \/ failing' = [failing EXCEPT ![proxy0] = 0]
    BY <1>4 DEF ProxyRestarted, ProxyRestartFails, Answered
  <2>3. QED
    BY <2>1, <2>2, ProxyStepStutters
<1>5. CASE \/ Begin \/ Finish
           \/ \E c \in Containers : SlowsDown(c) \/ Recovers(c)
           \/ UNCHANGED vars
  BY <1>5 DEF Begin, Finish, SlowsDown, Recovers, vars, history
<1>6. CASE Tick
  BY <1>6, ServiceTickRefines
<1>7. QED
  BY <1>1, <1>2, <1>3, <1>4, <1>5, <1>6 DEF Next, SweepStep

LEMMA ServiceInitRefines == Init => Services!Init
BY RoutesAre DEF Init, Services!Init

\* Every variable keeps its type, for any probes, proxies, thresholds and bounds.
THEOREM ResponsivenessTypeCorrect == Spec => []TypeOK
<1>1. IInv => TypeOK
  BY DEF IInv
<1>2. QED
  BY <1>1, Invariance, PTL

\* run_service_responsiveness restarts a service only after Threshold slow answers
\* of it in a row, the proxy of a route after as many slow answers of that route,
\* some of which may have been due to a slow service, and neither within the
\* cooldown of an earlier attempt, for any number of probes, provided that no two
\* routes lead through one proxy; the counters and cooldowns are kept per probe.
THEOREM ProbesAreRestartGuard == ASSUME OwnProxies PROVE Spec => Guarded
<1>1. IInv /\ [Next]_vars => [Guard!Next]_Guard!vars
  BY StepRefines
<1>2. QED
  BY Invariance, InitRefines, <1>1, PTL DEF Spec, Guarded, Guard!Spec

\* Whatever the routes share, run_service_responsiveness restarts a service's own
\* container only after Threshold slow probes of it in a row and never within the
\* cooldown of an earlier attempt.
THEOREM ServicesAreRestartGuard == Spec => Services!Spec
<1>1. IInv /\ [Next]_vars => [Services!Next]_Services!vars
  BY ServiceStepRefines
<1>2. QED
  BY Invariance, ServiceInitRefines, <1>1, PTL DEF Spec, Services!Spec

=============================================================================
