----------------------- MODULE MCPlexConnectionsGuard -----------------------
(* Instances of PlexConnectionsGuard for TLC.                               *)
EXTENDS PlexConnectionsGuard
=============================================================================
