------------------------------ MODULE LibraryQa ------------------------------
(***************************************************************************)
(* The jobs that look for bad files in the arrs' library and may replace   *)
(* them: run_media_qa and run_media_qa_backfill, which probe the files     *)
(* with ffprobe and share MediaQaState, and the imposter detector, which   *)
(* goes by what Sonarr reports and keeps no state.  Each lists files first *)
(* and then works through the list, one await after the other, while the   *)
(* arr imports and replaces files and the other jobs delete them.          *)
(***************************************************************************)
EXTENDS Integers, MediaRules

CONSTANTS
    Slots,          \* episodes and movies
    Files,          \* files that may be imported, by the identifier the arr gives them
    NoFile,
    SlotsOf,        \* what a file holds: a movie, an episode or several; named in its path
    SizeOf, ContentOf,
    QaJobs,         \* run_media_qa, run_media_qa_backfill
    ImposterJobs,   \* run_imposter_detector, run_imposter_backfill
    FullJobs,       \* those of them that list the whole library
    MaxFaults       \* bound: requests and probes that fail, restarts of docktarr

ASSUME FilesAssumption == NoFile \notin Files
ASSUME SlotsAssumption == SlotsOf \in [Files -> (SUBSET Slots) \ {{}}]
ASSUME ContentsAssumption == ContentOf \in [Files -> Contents]
ASSUME JobsAssumption == QaJobs \cap ImposterJobs = {}
ASSUME LibraryBoundsAssumption == MaxFaults \in Nat

Jobs == QaJobs \cup ImposterJobs

\* The cache key: path and size as listed.
KeyOf(f) == <<SlotsOf[f], SizeOf[f]>>
Keys == {KeyOf(f) : f \in Files}

VARIABLES
    library,      \* the file of each slot
    imported,     \* the files imported so far: an identifier is used once
    owed,         \* history: the file docktarr removed from each slot, until a search for
                  \*   the slot, an import, or a failure that keeps it from the search
    verdicts,     \* MediaQaState.verdicts, and the file each verdict is about
    ffprobe,      \* MediaQaState.ffprobe_bins
    scan,         \* the run of each job
    faults

arr == <<library, imported>>
qaState == <<verdicts, ffprobe>>
libraryVars == <<arr, owed, qaState, scan, faults>>

NoVerdict == [flag |-> "unknown", of |-> NoFile]
Candidates == [slot : Slots, file : Files]
NoCandidate == [slot |-> NoFile, file |-> NoFile]
IdleScan == [pc |-> "idle", todo |-> {}, cur |-> NoCandidate, streams |-> NoFile]

LibraryTypeOK ==
    /\ library \in [Slots -> Files \cup {NoFile}]
    /\ imported \in SUBSET Files
    /\ owed \in [Slots -> Files \cup {NoFile}]
    /\ verdicts \in [Keys -> [flag : {"unknown", "healthy", "dud"}, of : Files \cup {NoFile}]]
    /\ ffprobe \in {"unresolved", "found", "missing"}
    /\ scan \in [Jobs -> [pc : {"idle", "resolve", "scan", "streams", "frames", "delete", "post"},
                          todo : SUBSET Candidates, cur : Candidates \cup {NoCandidate},
                          streams : Files \cup {NoFile}]]
    /\ faults \in 0 .. MaxFaults

LibraryInit ==
    /\ library = [s \in Slots |-> NoFile]
    /\ imported = {}
    /\ owed = [s \in Slots |-> NoFile]
    /\ verdicts = [k \in Keys |-> NoVerdict]
    /\ ffprobe = "unresolved"
    /\ scan = [j \in Jobs |-> IdleScan]
    /\ faults = 0

CacheKey(c) == KeyOf(c.file)

IsDud(f) == EvaluateMedia(ContentOf[f], ContentOf[f]) # NoFlag
IsImposter(f) == EvaluateEpisode(ContentOf[f]) # NoFlag

LibraryFault == faults < MaxFaults /\ faults' = faults + 1

Goto(j, pc) == scan' = [scan EXCEPT ![j].pc = pc]
NextCandidate(j) == scan' = [scan EXCEPT ![j].pc = "scan", ![j].cur = NoCandidate,
                                         ![j].streams = NoFile]

-----------------------------------------------------------------------------
(* Listing *)

Present == {s \in Slots : library[s] # NoFile}
FilesOf(S) == {[slot |-> s, file |-> library[s]] : s \in S}

\* A job of FullJobs lists every slot with a file, the others those with a recent
\* import; a file of several episodes is listed for each of them.
ListsRecent(j, S) == j \notin FullJobs /\ S \subseteq Present
ListsAll(j, S) == j \in FullJobs /\ S = Present

\* A request that is not answered leaves slots out.
Lists(j, S) ==
    \/ ListsRecent(j, S) /\ UNCHANGED faults
    \/ ListsAll(j, S) /\ UNCHANGED faults
    \/ j \in FullJobs /\ S \subseteq Present /\ LibraryFault

Begin(j) ==
    /\ scan[j].pc = "idle"
    /\ \E S \in SUBSET Present :
         /\ Lists(j, S)
         /\ scan' = [scan EXCEPT ![j].pc = IF j \in QaJobs /\ S # {} THEN "resolve" ELSE "scan",
                                  ![j].todo = FilesOf(S)]
    /\ UNCHANGED <<arr, owed, qaState>>

\* The binary is looked for once: an arr container that does not answer, or is
\* not running, has none from then on and the job's runs end here.
ResolveFfprobe(j) ==
    /\ scan[j].pc = "resolve"
    /\ \/ ffprobe # "missing" /\ ffprobe' = "found" /\ UNCHANGED faults
       \/ ffprobe = "missing" /\ UNCHANGED <<ffprobe, faults>>
       \/ ffprobe = "unresolved" /\ ffprobe' = "missing" /\ LibraryFault
    /\ scan' = [scan EXCEPT ![j] = IF ffprobe' = "found" THEN [@ EXCEPT !.pc = "scan"]
                                                        ELSE IdleScan]
    /\ UNCHANGED <<arr, owed, verdicts>>

Finish(j) ==
    /\ scan[j].pc = "scan" /\ scan[j].todo = {}
    /\ scan' = [scan EXCEPT ![j] = IdleScan]
    /\ UNCHANGED <<arr, owed, qaState, faults>>

-----------------------------------------------------------------------------
(* media_qa *)

Cached(c) == verdicts[CacheKey(c)] # NoVerdict

\* A candidate with a verdict is skipped; the probe of any other is started.
TakeCandidate(j) ==
    /\ scan[j].pc = "scan"
    /\ \E c \in scan[j].todo :
         scan' = [scan EXCEPT ![j].todo = @ \ {c},
                              ![j].pc = IF Cached(c) THEN "scan" ELSE "streams",
                              ![j].cur = IF Cached(c) THEN NoCandidate ELSE c]
    /\ UNCHANGED <<arr, owed, qaState, faults>>

\* What is kept of a flag; RawVerdict keeps no mark of a healthy file.
RawVerdict(flag) == flag
Verdict(flag) == IF flag = NoFlag THEN "healthy" ELSE "dud"

\* The file at the listed path, which may be another than the one that was listed.
FileAt(c) ==
    LET f == library[c.slot]
    IN  IF f # NoFile /\ SlotsOf[f] = SlotsOf[c.file] THEN f ELSE NoFile

\* Where the two probes have been made; the verdict is kept for the listed file.
Judge(j, streams, frames) ==
    LET flag == EvaluateMedia(ContentOf[streams], ContentOf[frames])
        c == scan[j].cur
    IN  /\ verdicts' = [verdicts EXCEPT ![CacheKey(c)] =
                          [flag |-> Verdict(flag), of |-> streams]]
        /\ IF flag = NoFlag
           THEN NextCandidate(j)
           ELSE Goto(j, "delete")

ProbeStreams(j) ==
    /\ scan[j].pc = "streams"
    /\ LET f == FileAt(scan[j].cur)
       IN  /\ f # NoFile
           /\ IF NeedsFrameProbe(ContentOf[f])
              THEN /\ scan' = [scan EXCEPT ![j].pc = "frames", ![j].streams = f]
                   /\ UNCHANGED verdicts
              ELSE Judge(j, f, f)
    /\ UNCHANGED <<arr, owed, ffprobe, faults>>

ProbeFrames(j) ==
    /\ scan[j].pc = "frames"
    /\ LET f == FileAt(scan[j].cur)
       IN  f # NoFile /\ Judge(j, scan[j].streams, f)
    /\ UNCHANGED <<arr, owed, ffprobe, faults>>

FailureIsHealthy(j) ==
    verdicts' = [verdicts EXCEPT ![CacheKey(scan[j].cur)] =
                   [flag |-> "healthy", of |-> scan[j].cur.file]]

\* A probe that fails is no verdict.
Inconclusive(j) == UNCHANGED verdicts

ProbeFails(j) ==
    /\ scan[j].pc \in {"streams", "frames"}
    /\ \/ FileAt(scan[j].cur) = NoFile /\ UNCHANGED faults
       \/ LibraryFault
    /\ Inconclusive(j)
    /\ NextCandidate(j)
    /\ UNCHANGED <<arr, owed, ffprobe>>

-----------------------------------------------------------------------------
(* imposter_detector *)

\* The full scan goes by its listing; the other asks for each episode in its turn.
Reported(j, c) == IF j \in FullJobs THEN c.file ELSE library[c.slot]

EvaluateListed(j) ==
    /\ scan[j].pc = "scan"
    /\ \E c \in scan[j].todo :
         LET f == Reported(j, c)
             flagged == f # NoFile /\ IsImposter(f)
         IN  scan' = [scan EXCEPT ![j].todo = @ \ {c},
                                  ![j].pc = IF flagged THEN "delete" ELSE "scan",
                                  ![j].cur = IF flagged THEN [c EXCEPT !.file = f]
                                                        ELSE NoCandidate]
    /\ UNCHANGED <<arr, owed, qaState, faults>>

-----------------------------------------------------------------------------
(* _remediate of both: a DELETE by the file's identifier, then a search.       *)
(* Neither looks at the status of the answer.                                  *)

\* A file goes from every slot it holds.
Without(f) == [s \in Slots |-> IF library[s] = f THEN NoFile ELSE library[s]]

\* Deleted by identifier: of one that is gone nothing is deleted.
Deleted(f) ==
    /\ library' = Without(f)
    /\ owed' = [s \in Slots |-> IF library[s] = f THEN f ELSE owed[s]]

DeleteOnly(j) ==
    /\ scan[j].pc = "delete"
    /\ Deleted(scan[j].cur.file)
    /\ NextCandidate(j)
    /\ UNCHANGED <<imported, qaState, faults>>

DeleteCurrent(j) ==
    LET c == scan[j].cur
        f == IF library[c.slot] = NoFile THEN c.file ELSE library[c.slot]
    IN  /\ scan[j].pc = "delete"
        /\ Deleted(f)
        /\ scan' = [scan EXCEPT ![j].pc = "post", ![j].cur = [c EXCEPT !.file = f]]
        /\ UNCHANGED <<imported, qaState, faults>>

\* The identifier is the listed one, whatever file the slot has by now.
DeleteFile(j) ==
    /\ scan[j].pc = "delete"
    /\ Deleted(scan[j].cur.file)
    /\ Goto(j, "post")
    /\ UNCHANGED <<imported, qaState, faults>>

\* Answered with an error: not noticed.
DeleteRefused(j) ==
    /\ scan[j].pc = "delete"
    /\ LibraryFault
    /\ Goto(j, "post")
    /\ UNCHANGED <<arr, owed, qaState>>

\* Not answered at all, applied or not: given up, and no search is posted.
DeleteFails(j) ==
    /\ scan[j].pc = "delete"
    /\ LibraryFault
    /\ library' \in {library, Without(scan[j].cur.file)}
    /\ NextCandidate(j)
    /\ UNCHANGED <<imported, owed, qaState>>

\* The verdict of a remediated file is dropped: what is grabbed next is probed.
Forget(j) ==
    IF j \in QaJobs
    THEN verdicts' = [verdicts EXCEPT ![CacheKey(scan[j].cur)] = NoVerdict]
    ELSE UNCHANGED verdicts

\* One slot is searched for, though the file may have held several.
Settled(j) == owed' = [owed EXCEPT ![scan[j].cur.slot] = NoFile]

PostSearch(j) ==
    /\ scan[j].pc = "post"
    /\ Settled(j)
    /\ Forget(j)
    /\ NextCandidate(j)
    /\ UNCHANGED <<arr, ffprobe, faults>>

\* Not answered, or answered with an error: the second is not noticed.
PostFails(j) ==
    /\ scan[j].pc = "post"
    /\ LibraryFault
    /\ Settled(j)
    /\ Forget(j) \/ UNCHANGED verdicts
    /\ NextCandidate(j)
    /\ UNCHANGED <<arr, ffprobe>>

-----------------------------------------------------------------------------
(* The arr imports a file for all its slots, in place of those they have; the   *)
(* other slots of a file that is replaced lose it too.  Restarts of docktarr.   *)

Replaced(f) == {library[s] : s \in SlotsOf[f]} \ {NoFile}

Import(f) ==
    /\ f \notin imported
    /\ imported' = imported \cup {f}
    /\ library' = [s \in Slots |-> IF s \in SlotsOf[f] THEN f
                                  ELSE IF library[s] \in Replaced(f) THEN NoFile
                                  ELSE library[s]]
    /\ owed' = [s \in Slots |-> IF s \in SlotsOf[f] THEN NoFile ELSE owed[s]]
    /\ UNCHANGED <<qaState, scan, faults>>

RestartScans ==
    /\ LibraryFault
    /\ verdicts' = [k \in Keys |-> NoVerdict]
    /\ ffprobe' = "unresolved"
    /\ scan' = [j \in Jobs |-> IdleScan]
    /\ owed' = [s \in Slots |-> NoFile]
    /\ UNCHANGED arr

Remediate(j) ==
    \/ DeleteFile(j)
    \/ DeleteRefused(j)
    \/ DeleteFails(j)
    \/ PostSearch(j)
    \/ PostFails(j)

QaStep(j) ==
    \/ ResolveFfprobe(j)
    \/ TakeCandidate(j)
    \/ ProbeStreams(j)
    \/ ProbeFrames(j)
    \/ ProbeFails(j)

ScanStep(j) ==
    \/ Begin(j)
    \/ j \in QaJobs /\ QaStep(j)
    \/ j \in ImposterJobs /\ EvaluateListed(j)
    \/ Remediate(j)
    \/ Finish(j)

LibraryNext ==
    \/ \E j \in Jobs : ScanStep(j)
    \/ \E f \in Files : Import(f)
    \/ RestartScans

LibrarySpec == LibraryInit /\ [][LibraryNext]_libraryVars

\* The full scan runs again and again and its awaits end; nothing is assumed of the
\* other jobs.
LibraryFairSpec == LibrarySpec /\ \A j \in FullJobs : WF_libraryVars(ScanStep(j))

-----------------------------------------------------------------------------
(* Properties *)

\* No good file is removed: what docktarr deletes is a dud or an imposter by its
\* own content, although a file may be replaced between the listing, the two
\* probes and the DELETE, probes fail and two jobs remediate the same file.  The
\* imports of the arr, which remove the files they replace, are its own affair.
GoodFilesKept ==
    [][\A s \in Slots :
         library[s] # NoFile /\ library'[s] = NoFile /\ imported' = imported
           => IsDud(library[s]) \/ IsImposter(library[s])]_libraryVars

\* A file that docktarr has removed is one whose search a job is about to post, for
\* one of the episodes it held, unless one of them has been searched for or
\* imported since, the request failed or docktarr was restarted: several jobs may
\* work on one file, of which only one finds it to delete, and the search is never
\* left to the other.
RemovedIsSearched ==
    \A f \in Files : (\A s \in SlotsOf[f] : owed[s] = f) =>
        \E j \in Jobs : scan[j].pc = "post" /\ scan[j].cur.file = f

\* "Delete the dud file via the arr API and trigger a re-search": for each episode
\* that docktarr has emptied, whatever the file held beside it, a search is about
\* to be posted, or a job still has the episode before it.
EpisodesSearched ==
    \A s \in Slots : owed[s] # NoFile =>
        \E j \in Jobs : \/ scan[j].cur.slot = s
                       \/ \E c \in scan[j].todo : c.slot = s

\* A dud does not stay in the library without a verdict of its own, unless no
\* ffprobe was found, or a file of the same path and size was given a verdict
\* before: "a quality-upgrade replacement changes the size and re-probes", and one
\* that does not change it is taken for the file it replaced.
Overlooked(s, f) ==
    /\ library[s] = f
    /\ IsDud(f)
    /\ ffprobe # "missing"
    /\ LET v == verdicts[KeyOf(f)] IN v.flag # "dud" /\ v.of \in {f, NoFile}
DudsFound == \A s \in Slots, f \in Files : []<>~Overlooked(s, f)

=============================================================================
