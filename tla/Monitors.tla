------------------------------ MODULE Monitors ------------------------------
(***************************************************************************)
(* The jobs that share no state with any other, in one process: the        *)
(* scheduler's event loop takes a step of one of them or of its world.     *)
(***************************************************************************)
EXTENDS LibraryQa, ArtworkHealth, PidPressure, PermissionsHealth, MountAudit

vars == <<libraryVars, artVars, pidVars, permVars, mountVars>>

Init == LibraryInit /\ ArtInit /\ PidInit /\ PermInit /\ MountInit

LibraryTurn == LibraryNext /\ UNCHANGED <<artVars, pidVars, permVars, mountVars>>
ArtTurn == ArtNext /\ UNCHANGED <<libraryVars, pidVars, permVars, mountVars>>
PidTurn == PidNext /\ UNCHANGED <<libraryVars, artVars, permVars, mountVars>>
PermTurn == PermNext /\ UNCHANGED <<libraryVars, artVars, pidVars, mountVars>>
MountTurn == MountNext /\ UNCHANGED <<libraryVars, artVars, pidVars, permVars>>

Next == LibraryTurn \/ ArtTurn \/ PidTurn \/ PermTurn \/ MountTurn

Spec == Init /\ [][Next]_vars

-----------------------------------------------------------------------------
(* Properties *)

\* Every variable of the five jobs keeps its type, in particular what each job
\* remembers between two awaits of it.
TypeOK == LibraryTypeOK /\ ArtTypeOK /\ PidTypeOK /\ PermTypeOK /\ MountTypeOK

=============================================================================
