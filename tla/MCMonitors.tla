----------------------------- MODULE MCMonitors -----------------------------
(***************************************************************************)
(* Instances for TLC of the jobs that share no state with one another:     *)
(* their interleavings tell nothing that each of them does not, so a       *)
(* behaviour is one of the job that is chosen at its start.                *)
(***************************************************************************)
EXTENDS Monitors, TLC

VARIABLE job

CONSTANTS e1, e2, bare, hdr, both

Plain == [video |-> TRUE, dovi |-> "none", pq |-> FALSE, hdr |-> FALSE, ratio |-> "full",
          broadcast |-> FALSE, multi |-> FALSE]

\* Two episodes.  An imposter of the first with PQ video and without metadata; a
\* file with metadata, of the same size; a Dolby Vision profile 5 file of both.
FileSet == {bare, hdr, both}
Held == bare :> {e1} @@ hdr :> {e1} @@ both :> {e1, e2}
Size == bare :> 1 @@ hdr :> 1 @@ both :> 2
Content ==
    bare :> [Plain EXCEPT !.pq = TRUE, !.broadcast = TRUE] @@
    hdr  :> [Plain EXCEPT !.pq = TRUE, !.hdr = TRUE] @@
    both :> [Plain EXCEPT !.dovi = "p5", !.multi = TRUE]

\* Two of the three jobs that share the library at a time: both of media_qa, or the
\* full scan of media_qa and the imposter detector.
Resting(j) == scan[j] = IdleScan /\ UNCHANGED scan[j]
LibraryTurns ==
    /\ LibraryNext
    /\ job = "qa" => Resting("imposter")
    /\ job = "imposters" => Resting("recent")

OneInit == job \in {"qa", "imposters", "artwork", "pids", "permissions", "mounts"} /\ Init

OneOf(ofLibrary, ofArtwork, ofPids, ofPermissions, ofMounts) ==
    /\ UNCHANGED job
    /\ \/ job \in {"qa", "imposters"} /\ ofLibrary /\ UNCHANGED <<artVars, pidVars, permVars, mountVars>>
       \/ job = "artwork" /\ ofArtwork /\ UNCHANGED <<libraryVars, pidVars, permVars, mountVars>>
       \/ job = "pids" /\ ofPids /\ UNCHANGED <<libraryVars, artVars, permVars, mountVars>>
       \/ job = "permissions" /\ ofPermissions
             /\ UNCHANGED <<libraryVars, artVars, pidVars, mountVars>>
       \/ job = "mounts" /\ ofMounts /\ UNCHANGED <<libraryVars, artVars, pidVars, permVars>>

OneNext == OneOf(LibraryTurns, ArtNext, PidNext, PermNext, MountNext)

OneSpec == OneInit /\ [][OneNext]_<<job, vars>>

\* The fairness of LibraryFairSpec, ArtFairSpec, PidFairSpec and PermFairSpec.  As
\* job never changes, fairness of one action of each job taken together is fairness
\* of each of them; Waived where a job has fewer conditions than the others.
FullScan == \E j \in FullJobs : ScanStep(j)
Waived == FALSE

FairSpec ==
    /\ OneSpec
    /\ WF_<<job, vars>>(OneOf(FullScan, ArtTick, PidTick, PermTick, Waived))
    /\ WF_<<job, vars>>(OneOf(Waived, RefreshRuns, Waived, Waived, Waived))

=============================================================================
