------------------------ MODULE PlexConnectionsGuard ------------------------
(***************************************************************************)
(* run_plex_connections_guard: for each configured endpoint at which a     *)
(* Plex server is live, docktarr probes the addresses that the server      *)
(* publishes (its customConnections preference) and, when none of them     *)
(* answers, replaces them by the endpoint itself and toggles               *)
(* PublishServerOnPlexOnlineKey to 0 and 1, which makes the server publish *)
(* its addresses to plex.tv anew.                                          *)
(*                                                                         *)
(* Every probe and every PUT is an await.  Meanwhile servers go up and     *)
(* down, the user edits the preference, and docktarr may be killed.  The   *)
(* check keeps no state between runs.  Modelled with auto_fix on; without  *)
(* it a check changes nothing.                                             *)
(***************************************************************************)
EXTENDS Naturals

CONSTANTS
    Endpoints,      \* config.endpoints
    Remote,         \* other addresses a server may publish
    NoEndpoint,     \* "no endpoint in hand"
    MaxChanges,     \* bound: servers going up or down, restarts of docktarr
    MaxEdits        \* bound: edits of customConnections by the user

Urls == Endpoints \cup Remote

ASSUME EndpointsAssumption ==
    NoEndpoint \notin Endpoints /\ Endpoints \cap Remote = {}
ASSUME EnvironmentAssumption ==
    MaxChanges \in Nat /\ MaxEdits \in Nat

VARIABLES
    up,                 \* the addresses at which a Plex server answers
    customConnections,  \* per server, the addresses in its preference
    publish,            \* per server, PublishServerOnPlexOnlineKey
    listed,             \* per server, the addresses plex.tv has
    check,              \* the run of the guard
    steady,             \* history: addresses up since the endpoint's check began
                        \*   and, once they have been read, published then
    halfDone,           \* history: servers whose last repair was interrupted
                        \*   after its first PUT
    changes, edits

servers == <<customConnections, publish, listed>>
history == <<steady, halfDone>>
vars == <<up, servers, check, history, changes, edits>>

IdleCheck == [pc |-> "idle", todo |-> {}, cur |-> NoEndpoint, urls |-> {},
              reachable |-> FALSE]

\* The pcs of a check are named for what it awaits.
TypeOK ==
    /\ up \subseteq Urls
    /\ customConnections \in [Endpoints -> SUBSET Urls]
    /\ publish \in [Endpoints -> BOOLEAN]
    /\ listed \in [Endpoints -> SUBSET Urls]
    /\ check \in [pc : {"idle", "endpoint", "prefs", "urls", "withdraw", "publish"},
                  todo : SUBSET Endpoints, cur : Endpoints \cup {NoEndpoint},
                  urls : SUBSET Urls, reachable : BOOLEAN]
    /\ steady \subseteq up
    /\ halfDone \subseteq Endpoints
    /\ changes \in 0 .. MaxChanges
    /\ edits \in 0 .. MaxEdits

\* Any servers publish any addresses, and plex.tv has what they publish.
Init ==
    /\ up \in SUBSET Urls
    /\ customConnections \in [Endpoints -> SUBSET Urls]
    /\ publish = [e \in Endpoints |-> TRUE]
    /\ listed = customConnections
    /\ check = IdleCheck
    /\ steady = {}
    /\ halfDone = {}
    /\ changes = 0
    /\ edits = 0

-----------------------------------------------------------------------------
(* The run *)

Begin ==
    /\ check.pc = "idle"
    /\ check' = [IdleCheck EXCEPT !.pc = "endpoint", !.todo = Endpoints]
    /\ UNCHANGED <<up, servers, history, changes, edits>>

\* The check of an endpoint is over; the next one begins.  (Variants of a definition
\* with a plausible mistake, such as the next one, stand before it; no behaviour
\* uses them.)
CheckEnds == IdleCheck
NextEndpoint == [IdleCheck EXCEPT !.pc = "endpoint", !.todo = check.todo]

\* An endpoint that answers is checked, one that does not is skipped.
ProbeEndpoint(e) ==
    /\ check.pc = "endpoint"
    /\ e \in check.todo
    /\ check' = IF e \in up
                THEN [check EXCEPT !.pc = "prefs", !.todo = @ \ {e}, !.cur = e]
                ELSE [check EXCEPT !.todo = @ \ {e}]
    /\ steady' = up
    /\ UNCHANGED <<up, servers, halfDone, changes, edits>>

\* The preference split at commas; what is empty after trimming is left out.
SplitWithEmpty(e) == customConnections[e] \cup {NoEndpoint}
Split(e) == customConnections[e]

ReadPreferences ==
    /\ check.pc = "prefs"
    /\ check.cur \in up
    /\ check' = [check EXCEPT !.pc = "urls", !.urls = Split(check.cur)]
    /\ steady' = steady \cap customConnections[check.cur]
    /\ UNCHANGED <<up, servers, halfDone, changes, edits>>

\* get_preferences or, before it has changed anything, the repair fails.
Skip ==
    /\ check.pc \in {"prefs", "urls"}
    /\ check.pc = "urls" => check.urls = {} /\ ~check.reachable
    /\ check' = NextEndpoint
    /\ UNCHANGED <<up, servers, history, changes, edits>>

\* One published address is probed.
LastProbe(u) == u \in up
AnyProbe(u) == check.reachable \/ u \in up

ProbeUrl(u) ==
    /\ check.pc = "urls"
    /\ u \in check.urls
    /\ check' = [check EXCEPT !.urls = @ \ {u}, !.reachable = AnyProbe(u)]
    /\ UNCHANGED <<up, servers, history, changes, edits>>

\* The server publishes an address that works: it is left alone.
LeaveAlone ==
    /\ check.pc = "urls"
    /\ check.urls = {}
    /\ check.reachable
    /\ check' = NextEndpoint
    /\ UNCHANGED <<up, servers, history, changes, edits>>

\* Drift: the three PUTs.
NewValue(e) == {e}

Replace ==
    LET e == check.cur IN
    /\ check.pc = "urls"
    /\ check.urls = {}
    /\ ~check.reachable
    /\ e \in up
    /\ customConnections' = [customConnections EXCEPT ![e] = NewValue(e)]
    /\ check' = [check EXCEPT !.pc = "withdraw"]
    /\ UNCHANGED <<up, publish, listed, history, changes, edits>>

Withdraw ==
    /\ check.pc = "withdraw"
    /\ check.cur \in up
    /\ publish' = [publish EXCEPT ![check.cur] = FALSE]
    /\ check' = [check EXCEPT !.pc = "publish"]
    /\ UNCHANGED <<up, customConnections, listed, history, changes, edits>>

\* The server is published again, with the addresses it has now.
Published == listed' = [listed EXCEPT ![check.cur] = customConnections[check.cur]]

Publish ==
    /\ check.pc = "publish"
    /\ check.cur \in up
    /\ publish' = [publish EXCEPT ![check.cur] = TRUE]
    /\ Published
    /\ check' = NextEndpoint
    /\ halfDone' = halfDone \ {check.cur}
    /\ UNCHANGED <<up, customConnections, steady, changes, edits>>

Repairing == check.pc \in {"withdraw", "publish"}

\* A later PUT fails: the exception is logged and the check is over.
RepairFails ==
    /\ Repairing
    /\ check' = NextEndpoint
    /\ halfDone' = halfDone \cup {check.cur}
    /\ UNCHANGED <<up, servers, steady, changes, edits>>

Finish ==
    /\ check.pc = "endpoint"
    /\ check.todo = {}
    /\ check' = IdleCheck
    /\ UNCHANGED <<up, servers, history, changes, edits>>

-----------------------------------------------------------------------------
(* The environment *)

\* docktarr is killed and started again.
Restart ==
    /\ changes < MaxChanges
    /\ changes' = changes + 1
    /\ check.pc # "idle"
    /\ halfDone' = IF Repairing THEN halfDone \cup {check.cur} ELSE halfDone
    /\ check' = IdleCheck
    /\ UNCHANGED <<up, servers, steady, edits>>

Change(u) ==
    /\ changes < MaxChanges
    /\ changes' = changes + 1
    /\ up' = IF u \in up THEN up \ {u} ELSE up \cup {u}
    /\ steady' = steady \ {u}
    /\ UNCHANGED <<servers, check, halfDone, edits>>

\* The user adds an address to what a server publishes.
Edit(e, u) ==
    /\ edits < MaxEdits
    /\ edits' = edits + 1
    /\ u \notin customConnections[e]
    /\ customConnections' = [customConnections EXCEPT ![e] = @ \cup {u}]
    /\ listed' = [listed EXCEPT ![e] = customConnections'[e]]
    /\ UNCHANGED <<up, publish, check, history, changes>>

CheckStep ==
    \/ Begin
    \/ \E e \in Endpoints : ProbeEndpoint(e)
    \/ ReadPreferences
    \/ Skip
    \/ \E u \in Urls : ProbeUrl(u)
    \/ LeaveAlone
    \/ Replace
    \/ Withdraw
    \/ Publish
    \/ RepairFails
    \/ Finish

Next ==
    \/ CheckStep
    \/ Restart
    \/ \E u \in Urls : Change(u)
    \/ \E e \in Endpoints, u \in Urls : Edit(e, u)

Spec == Init /\ [][Next]_vars

\* The job runs again and again and every request ends; each kind of request
\* made to a server again and again is answered in the end.
FairSpec ==
    /\ Spec
    /\ WF_vars(CheckStep)
    /\ \A e \in Endpoints :
          /\ SF_vars(check.cur = e /\ ReadPreferences)
          /\ SF_vars(check.cur = e /\ Replace)
          /\ SF_vars(check.cur = e /\ Withdraw)
          /\ SF_vars(check.cur = e /\ Publish)

-----------------------------------------------------------------------------
(* Properties *)

Replaced(e) == check.pc = "urls" /\ check'.pc = "withdraw" /\ check.cur = e

\* "ONLY replaces customConnections when the published set contains no
\* reachable URL": no address that the check read is overwritten if it was up
\* from the beginning of the check on, in whatever order the addresses are probed
\* and whichever other servers go up or down.
WorkingAddressKept ==
    [][\A e \in Endpoints : Replaced(e) => customConnections[e] \cap steady = {}]_vars

Listed(e) == publish[e] /\ listed[e] \cap up # {}

\* A server that stays live is listed by plex.tv, in the end and for good, with
\* an address that works, unless its last repair was interrupted half-way.
HealedUnlessInterrupted ==
    \A e \in Endpoints :
        <>[](e \in up /\ e \notin halfDone) => <>[]Listed(e)

=============================================================================
