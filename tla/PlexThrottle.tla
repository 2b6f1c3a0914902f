---------------------------- MODULE PlexThrottle ----------------------------
(***************************************************************************)
(* run_plex_throttle: every interval docktarr asks Plex for its sessions   *)
(* and caps qBittorrent's download rate while somebody watches.  The limit *)
(* is only sent when it differs from the one docktarr believes is set, and *)
(* after the last stream has ended the cap is held for a grace window.     *)
(*                                                                         *)
(* A run has one await that matters, the POST of the limit: streams start  *)
(* and stop meanwhile.  Time is counted in scheduler intervals, in each of *)
(* which the job runs at most once (max_instances = 1; a late run is       *)
(* dropped); requests time out within an interval.                         *)
(***************************************************************************)
EXTENDS Integers

CONSTANTS
    IdleLimit, DirectplayLimit, TranscodeLimit,  \* kB/s, 0 is unlimited
    Grace,                                       \* config.grace, in intervals
    MaxRestarts      \* bound: restarts of the docktarr process

ASSUME LimitsAssumption ==
    IdleLimit \in Nat /\ DirectplayLimit \in Nat /\ TranscodeLimit \in Nat
ASSUME GraceAssumption == Grace \in Nat
ASSUME RestartsAssumption == MaxRestarts \in Nat

VARIABLES
    playing,      \* what Plex is doing
    limit,        \* qBittorrent's global download limit
    current,      \* state.current_limit_kbps
    quiet,        \* now - state.last_active_at
    lastLabel,    \* state.last_state_label
    job,          \* the run: what it saw and the limit it sends
    ran,          \* the job has run in this interval
    lost,         \* history: the last reply of qBittorrent was lost
    restarts

throttleState == <<current, quiet, lastLabel>>
throttleVars == <<playing, limit, throttleState, job, ran, lost, restarts>>

Active == {"directplay", "transcode"}
Labels == Active \cup {"idle"}
Limits == {IdleLimit, DirectplayLimit, TranscodeLimit}
Unset == -1               \* None: nothing applied yet
Never == -1               \* None: no stream seen yet

\* "unknown" once a run has ended with an error.
IdleJob(label) == [pc |-> "idle", label |-> label, target |-> Unset]

ThrottleTypeOK ==
    /\ playing \in Labels
    /\ limit \in Nat
    /\ current \in Limits \cup {Unset}
    /\ quiet \in 0 .. Grace \cup {Never}
    /\ lastLabel \in Labels
    /\ job \in [pc : {"idle", "applying"}, label : Labels \cup {"unknown"},
                target : Limits \cup {Unset}]
    /\ ran \in BOOLEAN
    /\ lost \in BOOLEAN
    /\ restarts \in 0 .. MaxRestarts

\* docktarr starts while qBittorrent has any of the limits it may have left.
ThrottleInit ==
    /\ playing \in Labels
    /\ limit \in Limits
    /\ current = Unset
    /\ quiet = Never
    /\ lastLabel = "idle"
    /\ job = IdleJob("unknown")
    /\ ran = FALSE
    /\ lost = FALSE
    /\ restarts = 0

\* Variants of a definition with a plausible mistake, such as the next one,
\* stand before it; no behaviour uses them.
TargetKbpsUnlimitedMinusOne(label) ==
    CASE label = "transcode" -> TranscodeLimit
      [] label = "directplay" -> DirectplayLimit
      [] label = "idle" -> -1
TargetKbps(label) ==
    CASE label = "transcode" -> TranscodeLimit
      [] label = "directplay" -> DirectplayLimit
      [] label = "idle" -> IdleLimit

InGraceForever == quiet # Never
InGrace == quiet # Never /\ quiet < Grace

\* The limit for the label Plex reports: in the grace window that of the last
\* label recorded.
TargetNoGrace(label) == TargetKbps(label)
Target(label) ==
    IF label = "idle" /\ InGrace THEN TargetKbps(lastLabel) ELSE TargetKbps(label)

NewestLabel(label) == IF label = "idle" THEN lastLabel ELSE label

Started == job.pc = "idle" /\ ~ran /\ ran' = TRUE

\* Plex does not answer: nothing changes.
PlexUnreachable ==
    /\ Started
    /\ job' = IdleJob("unknown")
    /\ UNCHANGED <<playing, limit, throttleState, lost, restarts>>

\* Plex answers: an active label starts the grace window anew, and the limit
\* is sent unless docktarr believes that it is set.
Send(label) ==
    /\ current # Target(label)
    /\ job' = [pc |-> "applying", label |-> label, target |-> Target(label)]
    /\ UNCHANGED lastLabel

Keep(label) ==
    /\ current = Target(label)
    /\ job' = IdleJob(label)
    /\ lastLabel' = NewestLabel(label)

Look ==
    LET label == playing IN
    /\ Started
    /\ quiet' = IF label \in Active THEN 0 ELSE quiet
    /\ Send(label) \/ Keep(label)
    /\ UNCHANGED <<playing, limit, current, lost, restarts>>

\* qBittorrent sets the limit and the run succeeds,
Applied ==
    /\ job.pc = "applying"
    /\ limit' = job.target
    /\ current' = job.target
    /\ lastLabel' = NewestLabel(job.label)
    /\ job' = IdleJob(job.label)
    /\ lost' = FALSE
    /\ UNCHANGED <<playing, quiet, ran, restarts>>

\* or it sets the limit and its reply is lost,
ReplyLost ==
    /\ job.pc = "applying"
    /\ limit' = job.target
    /\ job' = IdleJob("unknown")
    /\ lost' = TRUE
    /\ UNCHANGED <<playing, throttleState, ran, restarts>>

\* or it does not set it.  After an error the state is as it was.
RecordedAnyway == current' = job.target /\ UNCHANGED <<quiet, lastLabel>>
Unrecorded == UNCHANGED throttleState

Refused ==
    /\ job.pc = "applying"
    /\ Unrecorded
    /\ job' = IdleJob("unknown")
    /\ UNCHANGED <<playing, limit, ran, lost, restarts>>

\* A restart forgets the state; the POST may have been served all the same.
Restart ==
    /\ restarts < MaxRestarts
    /\ restarts' = restarts + 1
    /\ limit' \in IF job.pc = "applying" THEN {limit, job.target} ELSE {limit}
    /\ current' = Unset
    /\ quiet' = Never
    /\ lastLabel' = "idle"
    /\ job' = IdleJob("unknown")
    /\ lost' = FALSE
    /\ UNCHANGED <<playing, ran>>

\* Somebody starts or stops watching, or Plex begins to transcode.
Watch ==
    /\ playing' \in Labels \ {playing}
    /\ UNCHANGED <<limit, throttleState, job, ran, lost, restarts>>

ThrottleTick ==
    /\ job.pc = "idle"
    /\ ran' = FALSE
    /\ quiet' = IF quiet \in {Never, Grace} THEN quiet ELSE quiet + 1
    /\ UNCHANGED <<playing, limit, current, lastLabel, job, lost, restarts>>

ThrottleNext ==
    \/ PlexUnreachable
    \/ Look
    \/ Applied
    \/ ReplyLost
    \/ Refused
    \/ Restart
    \/ Watch
    \/ ThrottleTick

ThrottleSpec == ThrottleInit /\ [][ThrottleNext]_throttleVars

\* Time passes, every POST ends, and neither Plex nor qBittorrent stays away.
ThrottleFairSpec ==
    /\ ThrottleSpec
    /\ WF_throttleVars(ThrottleTick)
    /\ WF_throttleVars(Applied \/ ReplyLost \/ Refused)
    /\ SF_throttleVars(Look)
    /\ SF_throttleVars(Applied)

-----------------------------------------------------------------------------
(* Properties *)

\* After a run that saw a stream and met no error, qBittorrent has the cap of
\* that stream, unless the last reply of qBittorrent was lost: "only sends when
\* the target changes" must not skip a cap that is needed, after failed polls and
\* applications, restarts, and for limits that are equal.
StreamingCapped ==
    job.pc = "idle" /\ job.label \in Active /\ ~lost => limit = TargetKbps(job.label)

\* Once docktarr has set a limit, it returns to the idle one only when no
\* stream has been seen for the whole grace window: "don't lift caps blindly",
\* whatever errors of Plex and of qBittorrent and lost replies lie between.
HeldThroughGrace ==
    [][limit # IdleLimit /\ limit' = IdleLimit /\ current # Unset => quiet = Grace]_throttleVars

\* When the streams have ended for good the idle limit returns for good, though
\* any number of polls and of POSTs fail before, unless the last reply of
\* qBittorrent was lost.
LiftedInTheEnd ==
    <>[](playing = "idle" /\ ~lost) => <>[](limit = IdleLimit)

=============================================================================
