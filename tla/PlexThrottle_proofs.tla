------------------------- MODULE PlexThrottle_proofs -------------------------
(* Proofs about PlexThrottle: unless the last reply of qBittorrent was lost *)
(* the limit docktarr believes is set is the one qBittorrent has, and so no *)
(* cap that a stream needs is skipped.                                      *)
EXTENDS PlexThrottle, TLAPS

USE RestartsAssumption

\* What is on its way to qBittorrent is the limit for what the run saw.
JobOK ==
    job.pc = "applying" =>
        /\ job.label \in Labels
        /\ job.target \in Limits
        /\ job.label \in Active => job.target = TargetKbps(job.label)

\* What docktarr believes is set is set, unless the last reply was lost.
Agrees == current # Unset /\ ~lost => limit = current

IInv ==
    /\ ThrottleTypeOK
    /\ JobOK
    /\ Agrees
    /\ StreamingCapped

LEMMA LimitsNat == Limits \subseteq Nat /\ Unset \notin Limits
  BY LimitsAssumption DEF Limits, Unset

LEMMA TargetIsLimit ==
  ASSUME NEW label \in Labels, lastLabel \in Labels
  PROVE  /\ Target(label) \in Limits
         /\ label \in Active => Target(label) = TargetKbps(label)
<1>1. \A l \in Labels : TargetKbps(l) \in Limits
  <2>1. TargetKbps("transcode") = TranscodeLimit
    BY DEF TargetKbps
  <2>2. TargetKbps("directplay") = DirectplayLimit
    BY DEF TargetKbps
  <2>3. TargetKbps("idle") = IdleLimit
    BY DEF TargetKbps
  <2>4. QED
    BY <2>1, <2>2, <2>3 DEF Limits, Labels, Active
<1>2. label \in Active => label # "idle"
  BY DEF Active
<1>3. QED
  BY <1>1, <1>2 DEF Target

LEMMA InitInv == ThrottleInit => IInv
<1> SUFFICES ASSUME ThrottleInit PROVE IInv
  OBVIOUS
<1>1. job.pc = "idle" /\ job.label = "unknown"
  BY DEF ThrottleInit, IdleJob
<1>2. ThrottleTypeOK
  <2>1. job \in [pc : {"idle", "applying"}, label : Labels \cup {"unknown"},
                 target : Limits \cup {Unset}]
    BY DEF ThrottleInit, IdleJob
  <2>2. lastLabel \in Labels
    BY DEF ThrottleInit, Labels
  <2>3. limit \in Nat /\ quiet \in 0 .. Grace \cup {Never} /\ restarts \in 0 .. MaxRestarts
    BY LimitsNat DEF ThrottleInit
  <2>4. QED
    BY <2>1, <2>2, <2>3 DEF ThrottleInit, ThrottleTypeOK
<1>3. QED
  BY <1>1, <1>2 DEF ThrottleInit, IInv, JobOK, Agrees, StreamingCapped, Active

\* A run that looks at Plex.
LEMMA LookInv == ASSUME IInv, Look PROVE IInv'
<1> USE DEF IInv
<1>1. /\ playing \in Labels /\ lastLabel \in Labels
      /\ Target(playing) \in Limits
      /\ playing \in Active => Target(playing) = TargetKbps(playing)
  BY TargetIsLimit DEF ThrottleTypeOK
<1>2. /\ job' \in [pc : {"idle", "applying"}, label : Labels \cup {"unknown"},
                   target : Limits \cup {Unset}]
      /\ JobOK'
  <2>1. CASE Send(playing)
    BY <1>1, <2>1 DEF Send, JobOK, Limits, Labels, Active, TargetKbps
  <2>2. CASE Keep(playing)
    BY <1>1, <2>2 DEF Keep, IdleJob, JobOK
  <2>3. QED
    BY <2>1, <2>2 DEF Look
<1>3. lastLabel' \in Labels
  BY <1>1 DEF Look, Send, Keep, NewestLabel, ThrottleTypeOK
<1>4. quiet' \in 0 .. Grace \cup {Never}
  BY GraceAssumption DEF Look, ThrottleTypeOK
<1>5. ThrottleTypeOK'
  BY <1>2, <1>3, <1>4 DEF Look, Started, ThrottleTypeOK
<1>6. Agrees' /\ StreamingCapped'
  <2>1. Agrees'
    BY DEF Look, Agrees
  <2>2. CASE Send(playing)
    BY <2>1, <2>2 DEF Send, StreamingCapped
  <2>3. CASE Keep(playing)
    <3>1. ~lost => limit' = Target(playing)
      BY <1>1, <2>3, LimitsNat DEF Keep, Look, Agrees, IdleJob
    <3>2. job'.label = playing /\ lost' = lost
      BY <2>3 DEF Keep, Look, IdleJob
    <3>3. QED
      BY <1>1, <2>1, <3>1, <3>2 DEF StreamingCapped, TargetKbps
  <2>4. QED
    BY <2>1, <2>2, <2>3 DEF Look
<1>7. QED
  BY <1>2, <1>5, <1>6

LEMMA AppliedInv == ASSUME IInv, Applied PROVE IInv'
<1> USE DEF IInv
<1>1. /\ job.label \in Labels /\ job.target \in Limits
      /\ job.label \in Active => job.target = TargetKbps(job.label)
  BY DEF Applied, JobOK
<1>2. job'.pc = "idle" /\ job'.label = job.label
  BY DEF Applied, IdleJob
<1>3. ThrottleTypeOK'
  BY <1>1, LimitsNat DEF Applied, ThrottleTypeOK, IdleJob, NewestLabel
<1>4. Agrees' /\ StreamingCapped'
  BY <1>1, <1>2 DEF Applied, Agrees, StreamingCapped, TargetKbps
<1>5. QED
  BY <1>2, <1>3, <1>4 DEF JobOK

\* Runs that end with an error, and restarts.
LEMMA FailedInv ==
  ASSUME IInv, PlexUnreachable \/ ReplyLost \/ Refused \/ Restart PROVE IInv'
<1> USE DEF IInv
<1>1. job' = IdleJob("unknown")
  BY DEF PlexUnreachable, ReplyLost, Refused, Restart
<1>2. job'.pc = "idle" /\ job'.label = "unknown"
  BY <1>1 DEF IdleJob
<1>3. ThrottleTypeOK'
  <2>1. job' \in [pc : {"idle", "applying"}, label : Labels \cup {"unknown"},
                  target : Limits \cup {Unset}]
    BY <1>1 DEF IdleJob
  <2>2. CASE PlexUnreachable
    BY <2>1, <2>2 DEF PlexUnreachable, Started, ThrottleTypeOK, throttleState
  <2>3. CASE ReplyLost
    BY <2>1, <2>3, LimitsNat DEF ReplyLost, ThrottleTypeOK, JobOK, throttleState
  <2>4. CASE Refused
    BY <2>1, <2>4 DEF Refused, Unrecorded, ThrottleTypeOK, throttleState
  <2>5. CASE Restart
    <3>1. restarts' \in 0 .. MaxRestarts /\ limit' \in Nat
      BY <2>5, LimitsNat DEF Restart, ThrottleTypeOK, JobOK
    <3>2. QED
      BY <2>1, <2>5, <3>1 DEF Restart, ThrottleTypeOK, Labels
  <2>6. QED
    BY <2>2, <2>3, <2>4, <2>5
<1>4. Agrees'
  BY DEF PlexUnreachable, ReplyLost, Refused, Unrecorded, Restart, Agrees, throttleState
<1>5. QED
  BY <1>2, <1>3, <1>4 DEF JobOK, StreamingCapped, Active

LEMMA QuietInv ==
  ASSUME IInv, Watch \/ ThrottleTick \/ UNCHANGED throttleVars PROVE IInv'
<1> USE DEF IInv
<1>1. UNCHANGED <<limit, current, job, lost>>
  BY DEF Watch, ThrottleTick, throttleVars, throttleState
<1>2. ThrottleTypeOK'
  <2>1. CASE Watch
    BY <2>1 DEF Watch, ThrottleTypeOK, throttleState
  <2>2. CASE ThrottleTick
    <3>1. quiet' \in 0 .. Grace \cup {Never}
      BY <2>2, GraceAssumption DEF ThrottleTick, ThrottleTypeOK, Never
    <3>2. QED
      BY <2>2, <3>1 DEF ThrottleTick, ThrottleTypeOK
  <2>3. CASE UNCHANGED throttleVars
    BY <2>3 DEF throttleVars, throttleState, ThrottleTypeOK
  <2>4. QED
    BY <2>1, <2>2, <2>3
<1>3. JobOK' /\ Agrees' /\ StreamingCapped'
  BY <1>1 DEF JobOK, Agrees, StreamingCapped, TargetKbps
<1>4. QED
  BY <1>2, <1>3

LEMMA SpecInv == ThrottleSpec => []IInv
<1>1. IInv /\ [ThrottleNext]_throttleVars => IInv'
  BY LookInv, AppliedInv, FailedInv, QuietInv DEF ThrottleNext
<1>2. QED
  BY InitInv, <1>1, PTL DEF ThrottleSpec

-----------------------------------------------------------------------------

\* Every variable keeps its type, whatever is lost, refused or restarted.
THEOREM ThrottleTypeCorrect == ThrottleSpec => []ThrottleTypeOK
<1>1. IInv => ThrottleTypeOK
  BY DEF IInv
<1>2. QED
  BY <1>1, SpecInv, PTL

\* Unless the last reply of qBittorrent was lost, after a run that saw a stream
\* and met no error the cap for that stream is set, for every choice of the three
\* limits (equal ones too) and of the grace window, through errors of Plex and
\* qBittorrent and restarts of docktarr.
THEOREM CapNeverSkipped == ThrottleSpec => []StreamingCapped
<1>1. IInv => StreamingCapped
  BY DEF IInv
<1>2. QED
  BY <1>1, SpecInv, PTL

-----------------------------------------------------------------------------
(* The grace window *)

\* No cap is the idle limit, so that a return to the idle limit is seen as one.
IdleIsNoCap == IdleLimit # DirectplayLimit /\ IdleLimit # TranscodeLimit

\* An active label is recorded only after a stream was seen, and nothing but the
\* idle limit is recorded before.
LabelWasSeen ==
    /\ quiet = Never => lastLabel = "idle"
    /\ lastLabel = "idle" => current \in {Unset, IdleLimit}

\* What is on its way to qBittorrent: the idle limit is sent in place of another
\* only when the grace window is over.
LiftIsDue ==
    job.pc = "applying" =>
        /\ job.label \in Active => quiet # Never
        /\ job.label = "idle" => job.target \in {TargetKbps(lastLabel), IdleLimit}
        /\ job.target = IdleLimit /\ current # Unset => quiet = Grace

HeldInv == IInv /\ LabelWasSeen /\ LiftIsDue

LEMMA TargetKbpsIs ==
    /\ TargetKbps("idle") = IdleLimit
    /\ IdleIsNoCap => \A l \in Labels : TargetKbps(l) = IdleLimit => l = "idle"
<1>1. /\ TargetKbps("idle") = IdleLimit
      /\ TargetKbps("directplay") = DirectplayLimit
      /\ TargetKbps("transcode") = TranscodeLimit
  BY DEF TargetKbps
<1>2. QED
  BY <1>1 DEF Labels, Active, IdleIsNoCap

LEMMA InitHeld == ThrottleInit => HeldInv
BY InitInv DEF ThrottleInit, HeldInv, LabelWasSeen, LiftIsDue, IdleJob

LEMMA LookHeld == ASSUME IdleIsNoCap, HeldInv, Look PROVE LabelWasSeen' /\ LiftIsDue'
<1>1. /\ playing \in Labels /\ lastLabel \in Labels
      /\ quiet \in 0 .. Grace \cup {Never} /\ current' = current
  BY DEF HeldInv, IInv, ThrottleTypeOK, Look
<1>2. /\ playing \in Active => quiet' = 0 /\ playing # "idle"
      /\ playing \notin Active => quiet' = quiet /\ playing = "idle"
  BY <1>1 DEF Look, Labels, Active
<1>3. LabelWasSeen /\ Never # 0
  BY DEF HeldInv, Never
<1>4. CASE Keep(playing)
  <2>1. lastLabel' = (IF playing = "idle" THEN lastLabel ELSE playing) /\ job'.pc = "idle"
    BY <1>4 DEF Keep, NewestLabel, IdleJob
  <2>2. QED
    BY <1>1, <1>2, <1>3, <2>1 DEF LabelWasSeen, LiftIsDue
<1>5. CASE Send(playing)
  <2>1. /\ job' = [pc |-> "applying", label |-> playing, target |-> Target(playing)]
        /\ current # Target(playing) /\ lastLabel' = lastLabel
    BY <1>5 DEF Send
  <2>2. LabelWasSeen'
    BY <1>1, <1>2, <1>3, <2>1 DEF LabelWasSeen
  <2>3. playing = "idle" => Target(playing) \in {TargetKbps(lastLabel), IdleLimit}
    BY TargetKbpsIs DEF Target
  <2>4. ASSUME Target(playing) = IdleLimit, current # Unset PROVE quiet' = Grace
    <3>1. playing = "idle"
      <4>1. playing \in Active => Target(playing) = TargetKbps(playing)
        BY <1>1, TargetIsLimit
      <4>2. QED
        BY <1>1, <1>2, <2>4, <4>1, TargetKbpsIs
    <3>2. lastLabel # "idle" /\ quiet # Never
      BY <1>3, <2>1, <2>4 DEF LabelWasSeen
    <3>3. ~InGrace
      BY <1>1, <2>4, <3>1, <3>2, TargetKbpsIs DEF Target
    <3>4. QED
      BY <1>1, <1>2, <3>1, <3>2, <3>3, GraceAssumption DEF InGrace, Active
  <2>5. LiftIsDue'
    <3>1. TargetKbps(lastLabel)' = TargetKbps(lastLabel)
      BY <2>1 DEF TargetKbps
    <3>2. playing \in Active => quiet' # Never
      BY <1>2, <1>3
    <3>3. QED
      BY <1>1, <2>1, <2>3, <2>4, <3>1, <3>2 DEF LiftIsDue
  <2>6. QED
    BY <2>2, <2>5
<1>6. QED
  BY <1>4, <1>5 DEF Look

LEMMA AppliedHeld == ASSUME HeldInv, Applied PROVE LabelWasSeen' /\ LiftIsDue'
<1>1. /\ job.label \in Labels /\ job'.pc = "idle" /\ quiet' = quiet /\ current' = job.target
      /\ lastLabel' = IF job.label = "idle" THEN lastLabel ELSE job.label
  BY DEF Applied, IdleJob, NewestLabel, HeldInv, IInv, JobOK
<1>2. /\ LabelWasSeen
      /\ job.label \in Active => quiet # Never
      /\ job.label = "idle" => job.target \in {TargetKbps(lastLabel), IdleLimit}
  BY DEF Applied, HeldInv, LiftIsDue
<1>3. CASE job.label = "idle"
  BY <1>1, <1>2, <1>3, TargetKbpsIs DEF LabelWasSeen, LiftIsDue
<1>4. CASE job.label # "idle"
  BY <1>1, <1>2, <1>4 DEF LabelWasSeen, LiftIsDue, Labels, Active
<1>5. QED
  BY <1>3, <1>4

LEMMA FailedHeld ==
    ASSUME HeldInv, PlexUnreachable \/ ReplyLost \/ Refused \/ Restart
    PROVE  LabelWasSeen' /\ LiftIsDue'
<1>1. job'.pc = "idle"
  BY DEF PlexUnreachable, ReplyLost, Refused, Restart, IdleJob
<1>2. LabelWasSeen'
  BY DEF PlexUnreachable, ReplyLost, Refused, Unrecorded, Restart, throttleState, HeldInv,
     LabelWasSeen
<1>3. QED
  BY <1>1, <1>2 DEF LiftIsDue

LEMMA QuietHeld ==
    ASSUME HeldInv, Watch \/ ThrottleTick \/ UNCHANGED throttleVars
    PROVE  LabelWasSeen' /\ LiftIsDue'
<1>1. UNCHANGED <<current, lastLabel, job>> /\ TargetKbps(lastLabel)' = TargetKbps(lastLabel)
  BY DEF Watch, ThrottleTick, throttleVars, throttleState, TargetKbps
<1>2. CASE ThrottleTick
  <2>1. quiet \in 0 .. Grace \cup {Never} /\ job'.pc = "idle"
    BY <1>2 DEF ThrottleTick, HeldInv, IInv, ThrottleTypeOK
  <2>2. quiet' = Never => quiet = Never
    BY <1>2, <2>1, GraceAssumption DEF ThrottleTick, Never
  <2>3. QED
    BY <1>1, <2>1, <2>2 DEF HeldInv, LabelWasSeen, LiftIsDue
<1>3. CASE quiet' = quiet
  BY <1>1, <1>3 DEF HeldInv, LabelWasSeen, LiftIsDue
<1>4. QED
  BY <1>2, <1>3 DEF Watch, throttleVars, throttleState

LEMMA NextHeld == IdleIsNoCap /\ HeldInv /\ [ThrottleNext]_throttleVars => HeldInv'
<1> SUFFICES ASSUME IdleIsNoCap, HeldInv, [ThrottleNext]_throttleVars PROVE HeldInv'
  OBVIOUS
<1>1. IInv'
  BY LookInv, AppliedInv, FailedInv, QuietInv DEF HeldInv, ThrottleNext
<1>2. LabelWasSeen' /\ LiftIsDue'
  BY LookHeld, AppliedHeld, FailedHeld, QuietHeld DEF ThrottleNext
<1>3. QED
  BY <1>1, <1>2 DEF HeldInv

LEMMA HeldStep ==
    ASSUME HeldInv, ThrottleNext, limit # IdleLimit, limit' = IdleLimit, current # Unset
    PROVE  quiet = Grace
<1>1. CASE Applied \/ ReplyLost
  BY <1>1 DEF Applied, ReplyLost, HeldInv, LiftIsDue
<1>2. CASE Restart
  BY <1>2 DEF Restart, HeldInv, LiftIsDue
<1>3. CASE UNCHANGED limit
  BY <1>3
<1>4. QED
  BY <1>1, <1>2, <1>3 DEF ThrottleNext, PlexUnreachable, Look, Refused, Watch, ThrottleTick

\* Once docktarr has set a limit it returns to the idle one only when the grace
\* window is over since the last stream was seen, for any grace window and any
\* limits but a cap that is itself the idle limit, through errors of Plex and of
\* qBittorrent, lost replies and restarts; "don't lift caps blindly".
THEOREM CapHeldThroughGrace == ASSUME IdleIsNoCap PROVE ThrottleSpec => HeldThroughGrace
<1>1. HeldInv /\ [ThrottleNext]_throttleVars => HeldInv'
  BY NextHeld
<1>2. HeldInv /\ [ThrottleNext]_throttleVars =>
        [limit # IdleLimit /\ limit' = IdleLimit /\ current # Unset => quiet = Grace]_throttleVars
  BY HeldStep
<1>3. QED
  BY InitHeld, <1>1, <1>2, PTL DEF ThrottleSpec, HeldThroughGrace

=============================================================================
