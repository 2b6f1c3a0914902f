----------------------------- MODULE MediaRules -----------------------------
(***************************************************************************)
(* What media_qa and imposter_detector make of a file.  A file's content   *)
(* is a record of what ffprobe and the arr report of it:                   *)
(*   video      a stream that is not cover art                             *)
(*   dovi       the profile of a DOVI configuration record                 *)
(*   pq         color_transfer is smpte2084                                *)
(*   hdr        the first frame carries mastering-display, content-light   *)
(*              or HDR10+ side data                                        *)
(*   ratio      the duration over the arr's runtime: below the truncation  *)
(*              ratio, below 1 - tolerance, as expected, above 2.3, or     *)
(*              unknown (no duration, or a runtime below the minimum)      *)
(*   broadcast  a broadcast source for a streaming-only network            *)
(*   multi      the name is that of a file of several episodes             *)
(***************************************************************************)

Contents == [video : BOOLEAN, dovi : {"none", "p5", "other"}, pq : BOOLEAN, hdr : BOOLEAN,
             ratio : {"truncated", "short", "full", "long", "unknown"},
             broadcast : BOOLEAN, multi : BOOLEAN]

NoFlag == "none"

-----------------------------------------------------------------------------
(* media_qa *)

NeedsFrameProbe(probe) == probe.video /\ probe.pq /\ probe.dovi = "none"

\* The streams are those of probe, the side data that of the first frame of
\* frames: the two are probed one after the other.
EvaluateMedia(probe, frames) ==
    IF ~probe.video THEN "missing_or_truncated_video"
    ELSE IF probe.dovi = "p5" THEN "dovi_p5_no_fallback"
    ELSE IF NeedsFrameProbe(probe) /\ ~frames.hdr THEN "pq_missing_hdr_metadata"
    ELSE IF probe.ratio = "truncated" THEN "missing_or_truncated_video"
    ELSE NoFlag

-----------------------------------------------------------------------------
(* imposter_detector *)

EvaluateEpisode(file) ==
    IF file.multi THEN NoFlag
    ELSE IF file.broadcast THEN "streaming_with_broadcast_source"
    ELSE IF file.ratio \in {"truncated", "short"} THEN "runtime_short"
    ELSE IF file.ratio = "long" THEN "runtime_long"
    ELSE NoFlag

=============================================================================
