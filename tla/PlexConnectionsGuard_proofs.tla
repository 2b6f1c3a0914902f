--------------------- MODULE PlexConnectionsGuard_proofs ---------------------
(* Proofs about PlexConnectionsGuard: whichever servers go up and down while *)
(* addresses are probed, one that works is not overwritten.                  *)
EXTENDS PlexConnectionsGuard, TLAPS

USE EndpointsAssumption, EnvironmentAssumption

Checks == [pc : {"idle", "endpoint", "prefs", "urls", "withdraw", "publish"},
           todo : SUBSET Endpoints, cur : Endpoints \cup {NoEndpoint},
           urls : SUBSET Urls, reachable : BOOLEAN]

\* A check that awaits a server's answer has the server in hand.
CurIsServer == check.pc \in {"prefs", "urls", "withdraw", "publish"} => check.cur \in Endpoints

\* As long as no probe has succeeded, the addresses that have been up all the time
\* are still to be probed.
SteadyToProbe == check.pc = "urls" /\ ~check.reachable => steady \subseteq check.urls

GuardInv == TypeOK /\ CurIsServer /\ SteadyToProbe

LEMMA IdleIs ==
  /\ IdleCheck \in Checks /\ IdleCheck.pc = "idle"
  /\ \A S \in SUBSET Endpoints :
       LET c == [IdleCheck EXCEPT !.pc = "endpoint", !.todo = S]
       IN  c \in Checks /\ c.pc = "endpoint"
BY DEF IdleCheck, Checks

LEMMA GuardInit == Init => GuardInv
<1> SUFFICES ASSUME Init PROVE GuardInv
  OBVIOUS
<1>1. check \in Checks /\ check.pc = "idle"
  BY IdleIs DEF Init
<1>2. publish \in [Endpoints -> BOOLEAN]
  BY DEF Init
<1>3. TypeOK
  BY <1>1, <1>2 DEF Init, TypeOK, Checks
<1>4. CurIsServer /\ SteadyToProbe
  BY <1>1 DEF CurIsServer, SteadyToProbe
<1>5. QED
  BY <1>3, <1>4 DEF GuardInv

LEMMA CheckType == ASSUME GuardInv PROVE check \in Checks
BY DEF GuardInv, TypeOK, Checks

\* A step after which no server is in hand.
LEMMA Released ==
  ASSUME GuardInv, check' \in Checks, check'.pc \in {"idle", "endpoint"},
         customConnections' \in [Endpoints -> SUBSET Urls],
         publish' \in [Endpoints -> BOOLEAN], listed' \in [Endpoints -> SUBSET Urls],
         steady' \subseteq up', halfDone' \subseteq Endpoints,
         changes' \in 0 .. MaxChanges, UNCHANGED <<up, edits>>
  PROVE  GuardInv'
BY DEF GuardInv, TypeOK, CurIsServer, SteadyToProbe, Checks

LEMMA NextEndpointIs ==
  ASSUME GuardInv
  PROVE  NextEndpoint \in Checks /\ NextEndpoint.pc = "endpoint"
BY CheckType, IdleIs DEF NextEndpoint, Checks

LEMMA CheckStepInv == ASSUME GuardInv, CheckStep PROVE GuardInv'
<1>1. CASE Begin
  <2>1. check' \in Checks /\ check'.pc = "endpoint"
    BY <1>1, IdleIs DEF Begin
  <2>2. QED
    BY <1>1, <2>1, Released DEF Begin, servers, history, GuardInv, TypeOK
<1>2. ASSUME NEW e \in Endpoints, ProbeEndpoint(e) PROVE GuardInv'
  <2>1. check' \in Checks /\ (check'.pc = "endpoint" \/ (check'.pc = "prefs" /\ check'.cur = e))
    <3>1. CASE e \in up
      BY <1>2, <3>1, CheckType DEF ProbeEndpoint, Checks
    <3>2. CASE e \notin up
      BY <1>2, <3>2, CheckType DEF ProbeEndpoint, Checks
    <3>3. QED
      BY <3>1, <3>2
  <2>2. QED
    BY <1>2, <2>1
       DEF ProbeEndpoint, servers, GuardInv, TypeOK, CurIsServer, SteadyToProbe, Checks
<1>3. CASE ReadPreferences
  <2>1. customConnections[check.cur] \in SUBSET Urls
    BY <1>3 DEF ReadPreferences, GuardInv, TypeOK, CurIsServer
  <2>2. /\ check' \in Checks /\ check'.pc = "urls" /\ check'.cur = check.cur
        /\ check'.urls = customConnections[check.cur]
    BY <1>3, <2>1, CheckType DEF ReadPreferences, Split, Checks
  <2>3. steady' = steady \cap customConnections[check.cur]
    BY <1>3 DEF ReadPreferences
  <2>4. QED
    BY <1>3, <2>2, <2>3
       DEF ReadPreferences, servers, GuardInv, TypeOK, CurIsServer, SteadyToProbe, Checks
<1>4. CASE Skip
  BY <1>4, NextEndpointIs, Released DEF Skip, servers, history, GuardInv, TypeOK
<1>5. ASSUME NEW u \in Urls, ProbeUrl(u) PROVE GuardInv'
  <2>1. /\ check' \in Checks /\ check'.pc = "urls" /\ check'.cur = check.cur
        /\ check'.urls = check.urls \ {u}
        /\ check'.reachable = (check.reachable \/ u \in up)
    BY <1>5, CheckType DEF ProbeUrl, AnyProbe, Checks
  <2>2. SteadyToProbe'
    BY <1>5, <2>1 DEF ProbeUrl, history, GuardInv, TypeOK, SteadyToProbe
  <2>3. QED
    BY <1>5, <2>1, <2>2
       DEF ProbeUrl, servers, history, GuardInv, TypeOK, CurIsServer, Checks
<1>6. CASE LeaveAlone
  BY <1>6, NextEndpointIs, Released DEF LeaveAlone, servers, history, GuardInv, TypeOK
<1>7. CASE Replace
  <2>1. check' \in Checks /\ check'.pc = "withdraw" /\ check'.cur = check.cur
    BY <1>7, CheckType DEF Replace, Checks
  <2>2. customConnections' \in [Endpoints -> SUBSET Urls]
    BY <1>7 DEF Replace, NewValue, Urls, GuardInv, TypeOK
  <2>3. QED
    BY <1>7, <2>1, <2>2
       DEF Replace, history, GuardInv, TypeOK, CurIsServer, SteadyToProbe, Checks
<1>8. CASE Withdraw
  <2>1. check' \in Checks /\ check'.pc = "publish" /\ check'.cur = check.cur
    BY <1>8, CheckType DEF Withdraw, Checks
  <2>2. publish' \in [Endpoints -> BOOLEAN]
    BY <1>8 DEF Withdraw, GuardInv, TypeOK
  <2>3. QED
    BY <1>8, <2>1, <2>2
       DEF Withdraw, history, GuardInv, TypeOK, CurIsServer, SteadyToProbe, Checks
<1>9. CASE Publish
  <2>1. publish' \in [Endpoints -> BOOLEAN] /\ listed' \in [Endpoints -> SUBSET Urls]
    BY <1>9 DEF Publish, Published, GuardInv, TypeOK, CurIsServer
  <2>2. QED
    BY <1>9, <2>1, NextEndpointIs, Released DEF Publish, GuardInv, TypeOK
<1>10. CASE RepairFails
  <2>1. halfDone' \subseteq Endpoints
    BY <1>10 DEF RepairFails, Repairing, GuardInv, TypeOK, CurIsServer
  <2>2. QED
    BY <1>10, <2>1, NextEndpointIs, Released DEF RepairFails, servers, GuardInv, TypeOK
<1>11. CASE Finish
  BY <1>11, IdleIs, Released DEF Finish, servers, history, GuardInv, TypeOK
<1>12. QED
  BY <1>1, <1>2, <1>3, <1>4, <1>5, <1>6, <1>7, <1>8, <1>9, <1>10, <1>11 DEF CheckStep

LEMMA RestartInv == ASSUME GuardInv, Restart PROVE GuardInv'
<1>1. halfDone' \subseteq Endpoints
  BY DEF Restart, Repairing, GuardInv, TypeOK, CurIsServer
<1>2. changes' \in 0 .. MaxChanges
  BY DEF Restart, GuardInv, TypeOK
<1>3. QED
  BY <1>1, <1>2, IdleIs, Released DEF Restart, servers, GuardInv, TypeOK

LEMMA ChangeInv == ASSUME GuardInv, NEW u \in Urls, Change(u) PROVE GuardInv'
<1>1. changes' \in 0 .. MaxChanges
  BY DEF Change, GuardInv, TypeOK
<1>2. up' \subseteq Urls /\ steady' \subseteq up' /\ steady' \subseteq steady
  BY DEF Change, GuardInv, TypeOK
<1>3. QED
  BY <1>1, <1>2 DEF Change, servers, GuardInv, TypeOK, CurIsServer, SteadyToProbe

LEMMA EditInv ==
  ASSUME GuardInv, NEW e \in Endpoints, NEW u \in Urls, Edit(e, u)
  PROVE  GuardInv'
<1>1. edits' \in 0 .. MaxEdits
  BY DEF Edit, GuardInv, TypeOK
<1>2. customConnections' \in [Endpoints -> SUBSET Urls]
  BY DEF Edit, GuardInv, TypeOK
<1>3. listed' \in [Endpoints -> SUBSET Urls]
  BY <1>2 DEF Edit, GuardInv, TypeOK
<1>4. QED
  BY <1>1, <1>2, <1>3 DEF Edit, history, GuardInv, TypeOK, CurIsServer, SteadyToProbe

LEMMA NextInv == GuardInv /\ [Next]_vars => GuardInv'
<1> SUFFICES ASSUME GuardInv, [Next]_vars PROVE GuardInv'
  OBVIOUS
<1>1. CASE Next
  BY <1>1, CheckStepInv, RestartInv, ChangeInv, EditInv DEF Next
<1>2. CASE UNCHANGED vars
  BY <1>2 DEF vars, servers, history, GuardInv, TypeOK, CurIsServer, SteadyToProbe
<1>3. QED
  BY <1>1, <1>2

LEMMA Invariance == Spec => []GuardInv
BY GuardInit, NextInv, PTL DEF Spec

\* Every variable keeps its type, for any endpoints, addresses and bounds.
THEOREM GuardTypeCorrect == Spec => []TypeOK
<1>1. GuardInv => TypeOK
  BY DEF GuardInv
<1>2. QED
  BY <1>1, Invariance, PTL

\* The preference is replaced only after every address has been probed in vain.
LEMMA ReplacedInVain ==
  ASSUME GuardInv, Next, NEW e \in Endpoints, Replaced(e)
  PROVE  customConnections[e] \cap steady = {}
<1>1. check.pc = "urls" /\ check'.pc = "withdraw"
  BY DEF Replaced
<1>2. CASE Replace
  BY <1>1, <1>2 DEF Replace, GuardInv, SteadyToProbe
<1>3. CASE check' = NextEndpoint \/ check' = IdleCheck \/ UNCHANGED check
  BY <1>1, <1>3, IdleIs, NextEndpointIs
<1>4. ASSUME NEW u \in Urls, ProbeUrl(u) PROVE FALSE
  BY <1>1, <1>4, CheckType DEF ProbeUrl, Checks
<1>5. QED
  BY <1>1, <1>2, <1>3, <1>4
     DEF Next, CheckStep, Begin, ProbeEndpoint, ReadPreferences, Skip, LeaveAlone, Withdraw,
         Publish, RepairFails, Finish, Restart, Change, Edit

\* No address that the check read is overwritten if it was up from the beginning of
\* the check on, for any endpoints, addresses and numbers of changes and edits;
\* _check_endpoint.
THEOREM NoWorkingAddressLost == Spec => WorkingAddressKept
<1>1. GuardInv /\ [Next]_vars =>
        [\A e \in Endpoints : Replaced(e) => customConnections[e] \cap steady = {}]_vars
  BY ReplacedInVain
<1>2. QED
  BY <1>1, Invariance, PTL DEF Spec, WorkingAddressKept

=============================================================================
