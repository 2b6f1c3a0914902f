--------------------------- MODULE Monitors_proofs ---------------------------
(* Proofs about the jobs that share no state with one another: each keeps its *)
(* promises, and the process that runs them all keeps those of each.          *)
EXTENDS Monitors, TLAPS

-----------------------------------------------------------------------------
(* LibraryQa: whatever is imported and replaced while files are listed, probed
   and deleted, no good file is removed. *)

USE FilesAssumption, SlotsAssumption, LibraryBoundsAssumption

Scans == [pc : {"idle", "resolve", "scan", "streams", "frames", "delete", "post"},
          todo : SUBSET Candidates, cur : Candidates \cup {NoCandidate},
          streams : Files \cup {NoFile}]
Verdicts == [flag : {"unknown", "healthy", "dud"}, of : Files \cup {NoFile}]

HasCandidate == {"streams", "frames", "delete", "post"}

\* A candidate's file has been imported, so that a file found under its identifier
\* is the one that was listed, and it holds the candidate's slot.
Known(c, imp) == c.file \in imp /\ c.slot \in SlotsOf[c.file]

\* What a job in state r relies on, with the library and imports as they are: the
\* candidates are known; the listed file, if it is still there, is the one whose
\* streams were probed, and it is bad where it is to be deleted.
Sound(r, lib, imp) ==
    /\ \A c \in r.todo : Known(c, imp)
    /\ r.pc \in HasCandidate => r.cur \in Candidates /\ Known(r.cur, imp)
    /\ r.pc = "frames" =>
         r.streams \in Files /\ (lib[r.cur.slot] = r.cur.file => r.streams = r.cur.file)
    /\ r.pc = "delete" /\ lib[r.cur.slot] = r.cur.file =>
         IsDud(r.cur.file) \/ IsImposter(r.cur.file)

LibraryImported == \A s \in Slots : library[s] # NoFile => library[s] \in imported

\* A file is in all the slots it holds, and in no other.
LibraryWhole ==
    \A s \in Slots : library[s] # NoFile =>
        /\ s \in SlotsOf[library[s]]
        /\ \A t \in SlotsOf[library[s]] : library[t] = library[s]

LibraryInv ==
    /\ LibraryTypeOK
    /\ LibraryImported
    /\ LibraryWhole
    /\ \A j \in Jobs : Sound(scan[j], library, imported)

\* How the library changes: files go, and files that are new come.
WorldMoves ==
    /\ imported \subseteq imported'
    /\ imported' \in SUBSET Files
    /\ library' \in [Slots -> Files \cup {NoFile}]
    /\ \A s \in Slots : \/ library'[s] = library[s]
                        \/ library'[s] = NoFile
                        \/ library'[s] \in imported' \ imported
    /\ LibraryWhole'

LEMMA InitLibraryInv == LibraryInit => LibraryInv
<1> SUFFICES ASSUME LibraryInit PROVE LibraryInv
  OBVIOUS
<1>1. IdleScan \in Scans /\ IdleScan.todo = {} /\ IdleScan.pc = "idle"
  BY DEF IdleScan, Scans
<1>2. NoVerdict \in Verdicts
  BY DEF NoVerdict, Verdicts
<1>3. LibraryTypeOK
  BY <1>1, <1>2 DEF LibraryInit, LibraryTypeOK, Scans, Verdicts
<1>4. LibraryImported /\ LibraryWhole
  BY DEF LibraryInit, LibraryImported, LibraryWhole
<1>5. \A j \in Jobs : Sound(scan[j], library, imported)
  BY <1>1 DEF LibraryInit, Sound, HasCandidate
<1>6. QED
  BY <1>3, <1>4, <1>5 DEF LibraryInv

LEMMA StillSound ==
  ASSUME LibraryInv, WorldMoves, NEW r \in Scans, Sound(r, library, imported)
  PROVE  Sound(r, library', imported')
<1>1. imported \subseteq imported'
  BY DEF WorldMoves
<1>2. ASSUME r.cur \in Candidates, r.cur.file \in imported,
             library'[r.cur.slot] = r.cur.file
      PROVE  library[r.cur.slot] = r.cur.file
  BY <1>2 DEF WorldMoves, Candidates
<1>3. QED
  BY <1>1, <1>2 DEF Sound, Known, HasCandidate

LEMMA ImportedStays ==
  ASSUME LibraryInv, WorldMoves
  PROVE  LibraryImported'
BY DEF WorldMoves, LibraryInv, LibraryImported

LEMMA ScanType == ASSUME LibraryInv, NEW j \in Jobs
                  PROVE  scan[j] \in Scans /\ Sound(scan[j], library, imported)
BY DEF LibraryInv, LibraryTypeOK, Scans

RestTyped ==
    /\ owed' \in [Slots -> Files \cup {NoFile}]
    /\ verdicts' \in [Keys -> Verdicts]
    /\ ffprobe' \in {"unresolved", "found", "missing"}
    /\ faults' \in 0 .. MaxFaults

\* A step of one job, or of none of them.
LEMMA OneJob ==
  ASSUME LibraryInv, WorldMoves, RestTyped,
         NEW j \in Jobs, NEW r \in Scans, Sound(r, library', imported'),
         scan' = [scan EXCEPT ![j] = r]
  PROVE  LibraryInv'
<1>1. scan \in [Jobs -> Scans]
  BY DEF LibraryInv, LibraryTypeOK, Scans
<1>2. scan' \in [Jobs -> Scans]
  BY <1>1
<1>3. \A i \in Jobs : Sound(scan'[i], library', imported')
  <2> SUFFICES ASSUME NEW i \in Jobs PROVE Sound(scan'[i], library', imported')
    OBVIOUS
  <2>1. CASE i = j
    BY <1>1, <2>1
  <2>2. CASE i # j
    BY <1>1, <2>2, ScanType, StillSound
  <2>3. QED
    BY <2>1, <2>2
<1>4. LibraryTypeOK'
  BY <1>2 DEF WorldMoves, RestTyped, LibraryTypeOK, Scans, Verdicts
<1>5. QED
  BY <1>3, <1>4, ImportedStays DEF LibraryInv, WorldMoves

LEMMA NoJob ==
  ASSUME LibraryInv, WorldMoves, RestTyped, UNCHANGED scan
  PROVE  LibraryInv'
<1>1. \A i \in Jobs : Sound(scan[i], library', imported')
  BY ScanType, StillSound
<1>2. LibraryTypeOK'
  BY DEF WorldMoves, RestTyped, LibraryInv, LibraryTypeOK, Verdicts
<1>3. QED
  BY <1>1, <1>2, ImportedStays DEF LibraryInv, WorldMoves

LEMMA Unmoved == ASSUME LibraryInv, UNCHANGED arr PROVE WorldMoves
BY DEF arr, WorldMoves, LibraryInv, LibraryTypeOK, LibraryWhole

LEMMA RestType ==
  ASSUME LibraryInv
  PROVE  /\ owed \in [Slots -> Files \cup {NoFile}]
         /\ verdicts \in [Keys -> Verdicts]
         /\ ffprobe \in {"unresolved", "found", "missing"}
         /\ faults \in 0 .. MaxFaults
BY DEF LibraryInv, LibraryTypeOK, Verdicts

LEMMA FaultType == ASSUME LibraryInv, LibraryFault PROVE faults' \in 0 .. MaxFaults
BY RestType DEF LibraryFault

LEMMA KeyType == ASSUME NEW c \in Candidates PROVE CacheKey(c) \in Keys
BY DEF CacheKey, Keys, Candidates

\* A job that moves to a step without obligations of its own.
LEMMA GotoIs ==
  ASSUME LibraryInv, WorldMoves, NEW j \in Jobs, NEW pc \in {"scan", "post"},
         pc = "post" => scan[j].pc \in HasCandidate,
         Goto(j, pc)
  PROVE  \E r \in Scans : Sound(r, library', imported') /\ scan' = [scan EXCEPT ![j] = r]
<1> DEFINE r == [scan[j] EXCEPT !.pc = pc]
<1>1. r \in Scans /\ r.todo = scan[j].todo /\ r.cur = scan[j].cur /\ r.pc = pc
  BY ScanType DEF Scans
<1>2. scan' = [scan EXCEPT ![j] = r]
  BY DEF Goto, LibraryInv, LibraryTypeOK
<1>3. Sound(r, library, imported)
  BY <1>1, ScanType DEF Sound, HasCandidate
<1>4. QED
  BY <1>1, <1>2, <1>3, StillSound

LEMMA NextCandidateIs ==
  ASSUME LibraryInv, WorldMoves, NEW j \in Jobs, NextCandidate(j)
  PROVE  \E r \in Scans : Sound(r, library', imported') /\ scan' = [scan EXCEPT ![j] = r]
<1> DEFINE r == [scan[j] EXCEPT !.pc = "scan", !.cur = NoCandidate, !.streams = NoFile]
<1>1. r \in Scans /\ r.todo = scan[j].todo /\ r.pc = "scan"
  BY ScanType DEF Scans
<1>2. scan' = [scan EXCEPT ![j] = r]
  BY DEF NextCandidate, LibraryInv, LibraryTypeOK
<1>3. Sound(r, library, imported)
  BY <1>1, ScanType DEF Sound, HasCandidate
<1>4. QED
  BY <1>1, <1>2, <1>3, StillSound

LEMMA IdleIs == IdleScan \in Scans /\ \A lib, imp : Sound(IdleScan, lib, imp)
BY DEF IdleScan, Scans, Sound, HasCandidate

-----------------------------------------------------------------------------
(* Listing *)

LEMMA ListedKnown ==
  ASSUME LibraryInv, NEW S \in SUBSET Present
  PROVE  FilesOf(S) \subseteq Candidates /\ \A c \in FilesOf(S) : Known(c, imported)
BY DEF FilesOf, Present, Candidates, Known, LibraryInv, LibraryTypeOK, LibraryImported, LibraryWhole

LEMMA BeginInv == ASSUME LibraryInv, NEW j \in Jobs, Begin(j) PROVE LibraryInv'
<1>1. PICK S \in SUBSET Present :
        /\ Lists(j, S)
        /\ scan' = [scan EXCEPT ![j].pc = IF j \in QaJobs /\ S # {} THEN "resolve" ELSE "scan",
                                 ![j].todo = FilesOf(S)]
  BY DEF Begin
<1> DEFINE r == [scan[j] EXCEPT !.pc = IF j \in QaJobs /\ S # {} THEN "resolve" ELSE "scan",
                                !.todo = FilesOf(S)]
<1>2. r \in Scans /\ r.todo = FilesOf(S) /\ r.pc \in {"resolve", "scan"}
  BY ScanType, ListedKnown DEF Scans
<1>3. scan' = [scan EXCEPT ![j] = r]
  BY <1>1 DEF LibraryInv, LibraryTypeOK
<1>4. Sound(r, library, imported)
  BY <1>2, ListedKnown DEF Sound, HasCandidate
<1>5. WorldMoves
  BY Unmoved DEF Begin
<1>6. faults' \in 0 .. MaxFaults
  BY <1>1, RestType, FaultType DEF Lists
<1>7. RestTyped
  BY <1>6, RestType DEF Begin, qaState, RestTyped
<1>8. QED
  BY <1>2, <1>3, <1>4, <1>5, <1>7, StillSound, OneJob

LEMMA ResolveInv == ASSUME LibraryInv, NEW j \in Jobs, ResolveFfprobe(j) PROVE LibraryInv'
<1> DEFINE r == IF ffprobe' = "found" THEN [scan[j] EXCEPT !.pc = "scan"] ELSE IdleScan
<1>1. r \in Scans /\ Sound(r, library, imported)
  BY ScanType, IdleIs DEF Scans, Sound, HasCandidate
<1>2. scan' = [scan EXCEPT ![j] = r]
  BY DEF ResolveFfprobe
<1>3. WorldMoves
  BY Unmoved DEF ResolveFfprobe
<1>4. faults' \in 0 .. MaxFaults /\ ffprobe' \in {"unresolved", "found", "missing"}
  BY RestType, FaultType DEF ResolveFfprobe
<1>5. RestTyped
  BY <1>4, RestType DEF ResolveFfprobe, RestTyped
<1>6. QED
  BY <1>1, <1>2, <1>3, <1>5, StillSound, OneJob

LEMMA FinishInv == ASSUME LibraryInv, NEW j \in Jobs, Finish(j) PROVE LibraryInv'
<1>1. WorldMoves
  BY Unmoved DEF Finish
<1>2. RestTyped
  BY RestType DEF Finish, qaState, RestTyped
<1>3. QED
  BY <1>1, <1>2, IdleIs, OneJob DEF Finish

-----------------------------------------------------------------------------
(* Probing and judging *)

LEMMA TakeInv == ASSUME LibraryInv, NEW j \in Jobs, TakeCandidate(j) PROVE LibraryInv'
<1>1. PICK c \in scan[j].todo :
        scan' = [scan EXCEPT ![j].todo = @ \ {c},
                             ![j].pc = IF Cached(c) THEN "scan" ELSE "streams",
                             ![j].cur = IF Cached(c) THEN NoCandidate ELSE c]
  BY DEF TakeCandidate
<1> DEFINE r == [scan[j] EXCEPT !.todo = @ \ {c},
                                !.pc = IF Cached(c) THEN "scan" ELSE "streams",
                                !.cur = IF Cached(c) THEN NoCandidate ELSE c]
<1>2. c \in Candidates /\ Known(c, imported)
  BY ScanType DEF Scans, Sound
<1>3. /\ r \in Scans /\ r.todo \subseteq scan[j].todo
      /\ r.pc = "scan" \/ (r.pc = "streams" /\ r.cur = c)
  BY <1>2, ScanType DEF Scans
<1>4. scan' = [scan EXCEPT ![j] = r]
  BY <1>1 DEF LibraryInv, LibraryTypeOK
<1>5. Sound(r, library, imported)
  BY <1>2, <1>3, ScanType DEF Sound, HasCandidate
<1>6. WorldMoves
  BY Unmoved DEF TakeCandidate
<1>7. RestTyped
  BY RestType DEF TakeCandidate, qaState, RestTyped
<1>8. QED
  BY <1>3, <1>4, <1>5, <1>6, <1>7, StillSound, OneJob

LEMMA JudgeInv ==
  ASSUME LibraryInv, NEW j \in Jobs, scan[j].pc \in {"streams", "frames"},
         NEW streams \in Files, NEW frames \in Files,
         library[scan[j].cur.slot] = scan[j].cur.file
           => streams = scan[j].cur.file /\ frames = scan[j].cur.file,
         Judge(j, streams, frames),
         UNCHANGED <<arr, owed, ffprobe, faults>>
  PROVE  LibraryInv'
<1> DEFINE c == scan[j].cur
           flag == EvaluateMedia(ContentOf[streams], ContentOf[frames])
<1>1. c \in Candidates /\ Known(c, imported)
  BY ScanType DEF Sound, HasCandidate
<1>2. WorldMoves
  BY Unmoved
<1>3. [flag |-> Verdict(flag), of |-> streams] \in Verdicts
  BY DEF Verdict, Verdicts
<1>4. verdicts' \in [Keys -> Verdicts]
  BY <1>1, <1>3, KeyType, RestType DEF Judge
<1>5. RestTyped
  BY <1>4, RestType DEF RestTyped
<1>6. CASE flag = NoFlag
  <2>1. NextCandidate(j)
    BY <1>6 DEF Judge
  <2>2. QED
    BY <1>2, <1>5, <2>1, NextCandidateIs, OneJob
<1>7. CASE flag # NoFlag
  <2> DEFINE r == [scan[j] EXCEPT !.pc = "delete"]
  <2>1. r \in Scans /\ r.todo = scan[j].todo /\ r.cur = c /\ r.pc = "delete"
    BY ScanType DEF Scans
  <2>2. scan' = [scan EXCEPT ![j] = r]
    BY <1>7 DEF Judge, Goto, LibraryInv, LibraryTypeOK
  <2>3. library[c.slot] = c.file => IsDud(c.file)
    BY <1>7 DEF IsDud
  <2>4. Sound(r, library, imported)
    BY <1>1, <2>1, <2>3, ScanType DEF Sound, HasCandidate
  <2>5. QED
    BY <1>2, <1>5, <2>1, <2>2, <2>4, StillSound, OneJob
<1>8. QED
  BY <1>6, <1>7

LEMMA StreamsInv == ASSUME LibraryInv, NEW j \in Jobs, ProbeStreams(j) PROVE LibraryInv'
<1> DEFINE c == scan[j].cur
           f == FileAt(c)
<1>1. c \in Candidates /\ Known(c, imported)
  BY ScanType DEF ProbeStreams, Sound, HasCandidate
<1>2. f \in Files /\ (library[c.slot] = c.file => f = c.file)
  BY <1>1 DEF FileAt, ProbeStreams, Candidates, LibraryInv, LibraryTypeOK
<1>3. CASE NeedsFrameProbe(ContentOf[f])
  <2> DEFINE r == [scan[j] EXCEPT !.pc = "frames", !.streams = f]
  <2>1. r \in Scans /\ r.todo = scan[j].todo /\ r.cur = c /\ r.pc = "frames" /\ r.streams = f
    BY <1>2, ScanType DEF Scans
  <2>2. scan' = [scan EXCEPT ![j] = r] /\ UNCHANGED verdicts
    BY <1>3 DEF ProbeStreams, LibraryInv, LibraryTypeOK
  <2>3. Sound(r, library, imported)
    BY <1>1, <1>2, <2>1, ScanType DEF Sound, HasCandidate
  <2>4. WorldMoves
    BY Unmoved DEF ProbeStreams
  <2>5. RestTyped
    BY <2>2, RestType DEF ProbeStreams, RestTyped
  <2>6. QED
    BY <2>1, <2>2, <2>3, <2>4, <2>5, StillSound, OneJob
<1>4. CASE ~NeedsFrameProbe(ContentOf[f])
  BY <1>2, <1>4, JudgeInv DEF ProbeStreams
<1>5. QED
  BY <1>3, <1>4

LEMMA FramesInv == ASSUME LibraryInv, NEW j \in Jobs, ProbeFrames(j) PROVE LibraryInv'
<1> DEFINE c == scan[j].cur
           f == FileAt(c)
<1>1. /\ c \in Candidates
      /\ scan[j].streams \in Files
      /\ library[c.slot] = c.file => scan[j].streams = c.file
  BY ScanType DEF ProbeFrames, Sound, HasCandidate
<1>2. f \in Files /\ (library[c.slot] = c.file => f = c.file)
  BY <1>1 DEF FileAt, ProbeFrames, Candidates, LibraryInv, LibraryTypeOK
<1>3. QED
  BY <1>1, <1>2, JudgeInv DEF ProbeFrames

LEMMA FailsInv == ASSUME LibraryInv, NEW j \in Jobs, ProbeFails(j) PROVE LibraryInv'
<1>1. WorldMoves
  BY Unmoved DEF ProbeFails
<1>2. faults' \in 0 .. MaxFaults
  BY RestType, FaultType DEF ProbeFails
<1>3. RestTyped
  BY <1>2, RestType DEF ProbeFails, Inconclusive, RestTyped
<1>4. QED
  BY <1>1, <1>3, NextCandidateIs, OneJob DEF ProbeFails

LEMMA EvaluateInv == ASSUME LibraryInv, NEW j \in Jobs, EvaluateListed(j) PROVE LibraryInv'
<1>1. PICK c \in scan[j].todo :
        LET f == Reported(j, c)
            flagged == f # NoFile /\ IsImposter(f)
        IN  scan' = [scan EXCEPT ![j].todo = @ \ {c},
                                 ![j].pc = IF flagged THEN "delete" ELSE "scan",
                                 ![j].cur = IF flagged THEN [c EXCEPT !.file = f]
                                                       ELSE NoCandidate]
  BY DEF EvaluateListed
<1> DEFINE f == Reported(j, c)
           flagged == f # NoFile /\ IsImposter(f)
           r == [scan[j] EXCEPT !.todo = @ \ {c},
                                !.pc = IF flagged THEN "delete" ELSE "scan",
                                !.cur = IF flagged THEN [c EXCEPT !.file = f] ELSE NoCandidate]
<1>2. c \in Candidates /\ Known(c, imported)
  BY ScanType DEF Scans, Sound
<1>3. f # NoFile => f \in Files /\ f \in imported /\ c.slot \in SlotsOf[f]
  BY <1>2 DEF Reported, Candidates, Known, LibraryInv, LibraryImported, LibraryWhole, LibraryTypeOK
<1>4. flagged => [c EXCEPT !.file = f] \in Candidates
  BY <1>2, <1>3 DEF Candidates
<1>5. scan' = [scan EXCEPT ![j] = r]
  BY <1>1 DEF LibraryInv, LibraryTypeOK
<1>6. r \in Scans /\ Sound(r, library, imported)
  <2>1. CASE flagged
    <3>1. r = [scan[j] EXCEPT !.todo = @ \ {c}, !.pc = "delete", !.cur = [c EXCEPT !.file = f]]
      BY <2>1
    <3>2. r \in Scans /\ r.todo \subseteq scan[j].todo /\ r.pc = "delete"
          /\ r.cur \in Candidates /\ r.cur.file = f /\ r.cur.slot = c.slot
      BY <1>2, <1>4, <2>1, <3>1, ScanType DEF Scans, Candidates
    <3>3. IsImposter(r.cur.file) /\ Known(r.cur, imported)
      BY <1>3, <2>1, <3>2 DEF Known
    <3>4. QED
      BY <3>2, <3>3, ScanType DEF Sound, HasCandidate
  <2>2. CASE ~flagged
    <3>1. r = [scan[j] EXCEPT !.todo = @ \ {c}, !.pc = "scan", !.cur = NoCandidate]
      BY <2>2
    <3>2. r \in Scans /\ r.todo \subseteq scan[j].todo /\ r.pc = "scan"
      BY <3>1, ScanType DEF Scans
    <3>3. QED
      BY <3>2, ScanType DEF Sound, HasCandidate
  <2>3. QED
    BY <2>1, <2>2
<1>7. WorldMoves
  BY Unmoved DEF EvaluateListed
<1>8. RestTyped
  BY RestType DEF EvaluateListed, qaState, RestTyped
<1> HIDE DEF r
<1>9. QED
  BY <1>5, <1>6, <1>7, <1>8, StillSound, OneJob

-----------------------------------------------------------------------------
(* Remediation *)

LEMMA WithoutMoves ==
  ASSUME LibraryInv, NEW f \in Files, library' = Without(f), UNCHANGED imported
  PROVE  WorldMoves
<1>1. LibraryWhole'
  BY DEF Without, LibraryInv, LibraryTypeOK, LibraryWhole
<1>2. QED
  BY <1>1 DEF Without, WorldMoves, LibraryInv, LibraryTypeOK

LEMMA CurrentFile ==
  ASSUME LibraryInv, NEW j \in Jobs, scan[j].pc \in HasCandidate
  PROVE  scan[j].cur.file \in Files /\ scan[j].cur.slot \in SlotsOf[scan[j].cur.file]
BY ScanType DEF Sound, Known, Candidates

LEMMA CurrentIs ==
  ASSUME LibraryInv, NEW j \in Jobs, scan[j].pc \in HasCandidate
  PROVE  scan[j].cur \in Candidates
BY ScanType DEF Sound

LEMMA ForgetType ==
  ASSUME LibraryInv, NEW j \in Jobs, scan[j].pc \in HasCandidate,
         Forget(j) \/ UNCHANGED verdicts
  PROVE  verdicts' \in [Keys -> Verdicts]
<1>1. NoVerdict \in Verdicts
  BY DEF NoVerdict, Verdicts
<1>2. QED
  BY <1>1, RestType DEF Forget

LEMMA SettledType ==
  ASSUME LibraryInv, NEW j \in Jobs, Settled(j)
  PROVE  owed' \in [Slots -> Files \cup {NoFile}]
BY RestType DEF Settled

LEMMA RemediateInv == ASSUME LibraryInv, NEW j \in Jobs, Remediate(j) PROVE LibraryInv'
<1>1. scan[j].pc \in HasCandidate
  BY DEF Remediate, DeleteFile, DeleteRefused, DeleteFails, PostSearch, PostFails, HasCandidate
<1>2. scan[j].cur \in Candidates
  BY <1>1, CurrentIs
<1>3. CASE DeleteFile(j)
  <2>1. WorldMoves
    BY <1>1, <1>3, CurrentFile, WithoutMoves DEF DeleteFile, Deleted
  <2>5. owed' \in [Slots -> Files \cup {NoFile}]
    BY <1>1, <1>3, CurrentFile, RestType DEF DeleteFile, Deleted
  <2>2. RestTyped
    BY <1>3, <2>5, RestType DEF DeleteFile, qaState, RestTyped
  <2>3. Goto(j, "post")
    BY <1>3 DEF DeleteFile
  <2>4. QED
    BY <1>1, <2>1, <2>2, <2>3, GotoIs, OneJob
<1>4. CASE DeleteRefused(j)
  <2>1. WorldMoves
    BY <1>4, Unmoved DEF DeleteRefused
  <2>2. RestTyped
    BY <1>4, RestType, FaultType DEF DeleteRefused, qaState, RestTyped
  <2>3. Goto(j, "post")
    BY <1>4 DEF DeleteRefused
  <2>4. QED
    BY <1>1, <2>1, <2>2, <2>3, GotoIs, OneJob
<1>5. CASE DeleteFails(j)
  <2>1. WorldMoves
    <3>1. CASE library' = Without(scan[j].cur.file)
      BY <1>1, <1>5, <3>1, CurrentFile, WithoutMoves DEF DeleteFails
    <3>2. CASE UNCHANGED library
      BY <1>5, <3>2, Unmoved DEF DeleteFails, arr
    <3>3. QED
      BY <1>5, <3>1, <3>2 DEF DeleteFails
  <2>2. RestTyped
    BY <1>5, RestType, FaultType DEF DeleteFails, qaState, RestTyped
  <2>3. NextCandidate(j)
    BY <1>5 DEF DeleteFails
  <2>4. QED
    BY <2>1, <2>2, <2>3, NextCandidateIs, OneJob
<1>6. CASE PostSearch(j)
  <2>1. WorldMoves
    BY <1>6, Unmoved DEF PostSearch
  <2>2. RestTyped
    BY <1>1, <1>6, RestType, SettledType, ForgetType DEF PostSearch, RestTyped
  <2>3. NextCandidate(j)
    BY <1>6 DEF PostSearch
  <2>4. QED
    BY <2>1, <2>2, <2>3, NextCandidateIs, OneJob
<1>7. CASE PostFails(j)
  <2>1. WorldMoves
    BY <1>7, Unmoved DEF PostFails
  <2>2. RestTyped
    BY <1>1, <1>7, RestType, FaultType, SettledType, ForgetType DEF PostFails, RestTyped
  <2>3. NextCandidate(j)
    BY <1>7 DEF PostFails
  <2>4. QED
    BY <2>1, <2>2, <2>3, NextCandidateIs, OneJob
<1>8. QED
  BY <1>3, <1>4, <1>5, <1>6, <1>7 DEF Remediate

-----------------------------------------------------------------------------
(* Imports and restarts *)

LEMMA ImportWhole == ASSUME LibraryInv, NEW f \in Files, Import(f) PROVE LibraryWhole'
<1> SUFFICES ASSUME NEW s \in Slots, library'[s] # NoFile
             PROVE  /\ s \in SlotsOf[library'[s]]
                    /\ \A t \in SlotsOf[library'[s]] : library'[t] = library'[s]
  BY DEF LibraryWhole
<1>1. library \in [Slots -> Files \cup {NoFile}] /\ \A g \in Files : SlotsOf[g] \subseteq Slots
  BY DEF LibraryInv, LibraryTypeOK
<1>2. CASE s \in SlotsOf[f]
  BY <1>1, <1>2 DEF Import
<1>3. CASE s \notin SlotsOf[f]
  <2> DEFINE g == library[s]
  <2>1. library'[s] = g /\ g \in Files /\ g \notin Replaced(f)
    BY <1>1, <1>3 DEF Import
  <2>2. s \in SlotsOf[g] /\ \A t \in SlotsOf[g] : library[t] = g
    BY <2>1 DEF LibraryInv, LibraryWhole
  <2>3. \A t \in SlotsOf[g] : t \notin SlotsOf[f]
    BY <2>1, <2>2 DEF Replaced
  <2>4. \A t \in SlotsOf[g] : library'[t] = g
    BY <1>1, <2>1, <2>2, <2>3 DEF Import
  <2>5. QED
    BY <2>1, <2>2, <2>4
<1>4. QED
  BY <1>2, <1>3

LEMMA ImportInv == ASSUME LibraryInv, NEW f \in Files, Import(f) PROVE LibraryInv'
<1>1. WorldMoves
  BY ImportWhole DEF Import, WorldMoves, LibraryInv, LibraryTypeOK
<1>2. RestTyped
  BY RestType DEF Import, qaState, RestTyped
<1>3. QED
  BY <1>1, <1>2, NoJob DEF Import

LEMMA RestartScansInv == ASSUME LibraryInv, RestartScans PROVE LibraryInv'
<1>1. WorldMoves
  BY Unmoved DEF RestartScans
<1>2. NoVerdict \in Verdicts
  BY DEF NoVerdict, Verdicts
<1>3. RestTyped
  BY <1>2, RestType, FaultType DEF RestartScans, RestTyped
<1>4. LibraryTypeOK'
  BY <1>1, <1>3, IdleIs DEF RestartScans, WorldMoves, RestTyped, LibraryTypeOK, Scans, Verdicts
<1>5. \A j \in Jobs : Sound(scan'[j], library', imported')
  BY IdleIs DEF RestartScans
<1>6. QED
  BY <1>1, <1>4, <1>5, ImportedStays DEF LibraryInv, WorldMoves

LEMMA NextLibraryInv == LibraryInv /\ [LibraryNext]_libraryVars => LibraryInv'
<1> SUFFICES ASSUME LibraryInv, [LibraryNext]_libraryVars PROVE LibraryInv'
  OBVIOUS
<1>1. ASSUME NEW j \in Jobs, ScanStep(j) PROVE LibraryInv'
  BY <1>1, BeginInv, ResolveInv, TakeInv, StreamsInv, FramesInv, FailsInv, EvaluateInv,
     RemediateInv, FinishInv DEF ScanStep, QaStep
<1>2. CASE UNCHANGED libraryVars
  <2>1. WorldMoves /\ RestTyped /\ UNCHANGED scan
    BY <1>2, Unmoved, RestType DEF libraryVars, qaState, RestTyped
  <2>2. QED
    BY <2>1, NoJob
<1>3. QED
  BY <1>1, <1>2, ImportInv, RestartScansInv DEF LibraryNext

LEMMA LibraryInvariance == LibrarySpec => []LibraryInv
BY InitLibraryInv, NextLibraryInv, PTL DEF LibrarySpec

\* Every variable keeps its type, for any slots, files, jobs and number of faults.
THEOREM LibraryTypeCorrect == LibrarySpec => []LibraryTypeOK
<1>1. LibraryInv => LibraryTypeOK
  BY DEF LibraryInv
<1>2. QED
  BY <1>1, LibraryInvariance, PTL

\* Where nothing is imported a slot is emptied only by a deletion, and the file that
\* a deletion removes, from this slot as from the others it holds, is bad.
LEMMA RemovedIsBad ==
  ASSUME LibraryInv, LibraryNext, UNCHANGED imported,
         NEW s \in Slots, library[s] # NoFile, library'[s] = NoFile
  PROVE  IsDud(library[s]) \/ IsImposter(library[s])
<1>1. library \in [Slots -> Files \cup {NoFile}]
  BY DEF LibraryInv, LibraryTypeOK
<1>2. ASSUME NEW j \in Jobs, scan[j].pc = "delete", library' = Without(scan[j].cur.file)
      PROVE  IsDud(library[s]) \/ IsImposter(library[s])
  <2> DEFINE c == scan[j].cur
  <2>1. library[s] = c.file
    BY <1>1, <1>2 DEF Without
  <2>2. library[c.slot] = c.file
    BY <1>2, <2>1, CurrentFile DEF HasCandidate, LibraryInv, LibraryWhole
  <2>3. QED
    BY <1>2, <2>1, <2>2, ScanType DEF Sound
<1>3. ASSUME NEW f \in Files, Import(f) PROVE FALSE
  BY <1>3 DEF Import
<1>4. CASE UNCHANGED library
  BY <1>4
<1>5. QED
  BY <1>2, <1>3, <1>4
     DEF LibraryNext, ScanStep, QaStep, Remediate, Begin, ResolveFfprobe, TakeCandidate,
         ProbeStreams, ProbeFrames, ProbeFails, EvaluateListed, DeleteFile, Deleted,
         DeleteRefused, DeleteFails, PostSearch, PostFails, Finish, RestartScans, arr

\* What docktarr deletes is a dud or an imposter by its own content, for any slots,
\* files, episodes a file holds, contents, jobs and number of faults, whatever is
\* imported while files are listed, probed and deleted; _scan_candidates, _remediate.
THEOREM NoGoodFileRemoved == LibrarySpec => GoodFilesKept
<1>1. LibraryInv /\ [LibraryNext]_libraryVars =>
        [\A s \in Slots :
           library[s] # NoFile /\ library'[s] = NoFile /\ imported' = imported
             => IsDud(library[s]) \/ IsImposter(library[s])]_libraryVars
  BY RemovedIsBad
<1>2. QED
  BY <1>1, LibraryInvariance, PTL DEF LibrarySpec, GoodFilesKept

-----------------------------------------------------------------------------
(* Searches *)

\* A job leaves the step in which it posts a search only by settling the slot it is
\* at, with the search or with a request that fails, or by a restart.
LEMMA PostIsKept ==
  ASSUME LibraryInv, LibraryNext, NEW i \in Jobs, scan[i].pc = "post"
  PROVE  \/ scan'[i].pc = "post" /\ scan'[i].cur = scan[i].cur
         \/ Settled(i)
         \/ RestartScans
<1>1. scan \in [Jobs -> Scans]
  BY DEF LibraryInv, LibraryTypeOK, Scans
<1>2. ASSUME NEW j \in Jobs, j # i, ScanStep(j) PROVE scan'[i] = scan[i]
  BY <1>1, <1>2
     DEF ScanStep, QaStep, Remediate, Begin, ResolveFfprobe, TakeCandidate, ProbeStreams, Judge,
         ProbeFrames, ProbeFails, EvaluateListed, DeleteFile, DeleteRefused, DeleteFails,
         PostSearch, PostFails, Finish, Goto, NextCandidate
<1>3. CASE ScanStep(i)
  BY <1>3
     DEF ScanStep, QaStep, Remediate, Begin, ResolveFfprobe, TakeCandidate, ProbeStreams,
         ProbeFrames, ProbeFails, EvaluateListed, DeleteFile, DeleteRefused, DeleteFails,
         PostSearch, PostFails, Finish
<1>4. CASE UNCHANGED scan
  BY <1>4
<1>5. QED
  BY <1>2, <1>3, <1>4 DEF LibraryNext, Import

\* A search comes to be owed for a file only by its deletion.
LEMMA OwedByDelete ==
  ASSUME LibraryInv, LibraryNext, NEW f \in Files, NEW s \in Slots, owed'[s] = f
  PROVE  owed[s] = f \/ \E j \in Jobs : DeleteFile(j) /\ scan[j].cur.file = f
<1>1. owed \in [Slots -> Files \cup {NoFile}]
  BY RestType
<1>2. ASSUME NEW j \in Jobs, DeleteFile(j) PROVE owed[s] = f \/ scan[j].cur.file = f
  BY <1>1, <1>2 DEF DeleteFile, Deleted
<1>3. ASSUME NEW j \in Jobs, Settled(j) PROVE owed[s] = f
  BY <1>1, <1>3 DEF Settled
<1>4. ASSUME NEW g \in Files, Import(g) PROVE owed[s] = f
  BY <1>1, <1>4 DEF Import
<1>5. CASE RestartScans
  BY <1>5 DEF RestartScans
<1>6. CASE UNCHANGED owed
  BY <1>6
<1>7. QED
  BY <1>2, <1>3, <1>4, <1>5, <1>6
     DEF LibraryNext, ScanStep, QaStep, Remediate, Begin, ResolveFfprobe, TakeCandidate,
         ProbeStreams, ProbeFrames, ProbeFails, EvaluateListed, DeleteRefused, DeleteFails,
         PostSearch, PostFails, Finish

LEMMA SearchStep ==
  ASSUME LibraryInv, RemovedIsSearched, LibraryNext
  PROVE  RemovedIsSearched'
<1> SUFFICES ASSUME NEW f \in Files, \A s \in SlotsOf[f] : owed'[s] = f
             PROVE  \E j \in Jobs : scan'[j].pc = "post" /\ scan'[j].cur.file = f
  BY DEF RemovedIsSearched
<1>1. owed \in [Slots -> Files \cup {NoFile}] /\ scan \in [Jobs -> Scans]
  BY RestType DEF LibraryInv, LibraryTypeOK, Scans
<1>2. SlotsOf[f] \subseteq Slots /\ SlotsOf[f] # {}
  OBVIOUS
<1>3. CASE \E j \in Jobs : DeleteFile(j) /\ scan[j].cur.file = f
  <2>1. PICK j \in Jobs : DeleteFile(j) /\ scan[j].cur.file = f
    BY <1>3
  <2>2. scan'[j].pc = "post" /\ scan'[j].cur = scan[j].cur
    BY <1>1, <2>1 DEF DeleteFile, Goto, Scans
  <2>3. QED
    BY <2>1, <2>2
<1>4. CASE ~\E j \in Jobs : DeleteFile(j) /\ scan[j].cur.file = f
  <2>1. \A s \in SlotsOf[f] : owed[s] = f
    BY <1>2, <1>4, OwedByDelete
  <2>2. PICK i \in Jobs : scan[i].pc = "post" /\ scan[i].cur.file = f
    BY <2>1 DEF RemovedIsSearched
  <2>3. ~Settled(i)
    <3>1. scan[i].cur.slot \in SlotsOf[f]
      BY <2>2, CurrentFile DEF HasCandidate
    <3>2. QED
      BY <1>1, <1>2, <3>1 DEF Settled
  <2>4. ~RestartScans
    BY <1>2 DEF RestartScans
  <2>5. QED
    BY <2>2, <2>3, <2>4, PostIsKept
<1>5. QED
  BY <1>3, <1>4

\* A file that docktarr has removed is one whose search, for at least one of the
\* episodes it held, a job is about to post, unless one of them was searched for or
\* imported since, the request of that remediation failed or docktarr was restarted:
\* for any slots, files, episodes a file holds and jobs, several of which may work
\* on one file; _remediate.
THEOREM EveryRemovalIsSearched == LibrarySpec => []RemovedIsSearched
<1>1. LibraryInit => RemovedIsSearched
  BY DEF LibraryInit, RemovedIsSearched
<1>2. LibraryInv /\ RemovedIsSearched /\ [LibraryNext]_libraryVars => RemovedIsSearched'
  <2>1. CASE UNCHANGED libraryVars
    BY <2>1 DEF libraryVars, RemovedIsSearched
  <2>2. QED
    BY <2>1, SearchStep
<1>3. QED
  BY <1>1, <1>2, LibraryInvariance, PTL DEF LibrarySpec

-----------------------------------------------------------------------------
(* ArtworkHealth: a condition is alerted for once. *)

USE ArtConfigAssumption, ArtBoundsAssumption

\* Of a condition that holds an alert has been sent at most once, and only when the
\* counter reached the debounce, which it does not do again before it is cleared.
AlertAtDebounce ==
    \A s \in ConsumerSignals :
        told[s] <= 1 /\ (told[s] = 1 => breachTicks[s] >= ArtDebounce)

\* What is written back is a consumer that was there.
HeldIsThere == artPc = "heal" => held.present

ArtInv == ArtTypeOK /\ AlertAtDebounce /\ HeldIsThere

\* What the steps of the service and the job keep, alerts aside.
ArtRestTyped ==
    /\ consumer' \in Consumers
    /\ noArtwork' \in SUBSET Items
    /\ refreshing' \in SUBSET Items
    /\ artPc' \in {"idle", "heal", "list", "probe", "refresh"}
    /\ held' \in Consumers
    /\ toProbe' \in SUBSET Items
    /\ foundMissing' \in SUBSET Items
    /\ artEdits' \in 0 .. MaxArtEdits
    /\ artFaults' \in 0 .. MaxArtFaults

LEMMA ArtInitInv == ArtInit => ArtInv
BY DEF ArtInit, ArtInv, ArtTypeOK, AlertAtDebounce, HeldIsThere, Consumers, Signals,
       ConsumerSignals

LEMMA NextCountIs ==
    ASSUME ArtTypeOK, NEW s \in Signals
    PROVE  /\ NextCount(s) \in 0 .. ArtDebounce + 1
           /\ NextCount(s) >= breachTicks[s]
           /\ Fires(s) => breachTicks[s] < ArtDebounce
BY DEF ArtTypeOK, NextCount, Fires

\* What Note makes of the counters and the alerts, if no condition is noted to be over
\* that still holds.
LEMMA NoteInv ==
    ASSUME ArtTypeOK, AlertAtDebounce, NEW breaching, NEW cleared, Note(breaching, cleared),
           \A s \in cleared \cap ConsumerSignals : s \in Ceased(consumer')
    PROVE  /\ breachTicks' \in [Signals -> 0 .. ArtDebounce + 1]
           /\ told' \in [ConsumerSignals -> 0 .. 2]
           /\ AlertAtDebounce'
<1>1. /\ \A s \in Signals : breachTicks[s] \in 0 .. ArtDebounce + 1
      /\ \A s \in ConsumerSignals : told[s] \in 0 .. 2 /\ s \in Signals
  BY DEF ArtTypeOK, ConsumerSignals
<1>2. breachTicks' \in [Signals -> 0 .. ArtDebounce + 1]
  BY <1>1, NextCountIs DEF Note
<1>3. told' \in [ConsumerSignals -> 0 .. 2]
  BY <1>1 DEF Note
<1>4. ASSUME NEW s \in ConsumerSignals
      PROVE  told'[s] <= 1 /\ (told'[s] = 1 => breachTicks'[s] >= ArtDebounce)
  <2>1. /\ breachTicks'[s] = IF s \in breaching THEN NextCount(s)
                             ELSE IF s \in cleared THEN 0 ELSE breachTicks[s]
        /\ told'[s] = IF s \in Ceased(consumer') THEN 0
                      ELSE IF s \in breaching /\ Fires(s) /\ told[s] < 2 THEN told[s] + 1
                      ELSE told[s]
    BY <1>1 DEF Note
  <2>2. told[s] <= 1 /\ (told[s] = 1 => breachTicks[s] >= ArtDebounce)
    BY DEF AlertAtDebounce
  <2>3. CASE s \in Ceased(consumer')
    BY <2>1, <2>3
  <2>4. CASE s \notin Ceased(consumer') /\ s \in breaching /\ Fires(s)
    <3>1. told[s] = 0 /\ NextCount(s) = ArtDebounce
      BY <1>1, <2>2, <2>4, NextCountIs DEF Fires
    <3>2. QED
      BY <2>1, <2>4, <3>1
  <2>5. CASE s \notin Ceased(consumer') /\ ~(s \in breaching /\ Fires(s))
    <3>1. told'[s] = told[s] /\ s \notin cleared
      BY <2>1, <2>5
    <3>2. breachTicks'[s] >= breachTicks[s]
      BY <1>1, <2>1, <3>1, NextCountIs
    <3>3. QED
      BY <1>1, <1>2, <2>2, <3>1, <3>2, NextCountIs
  <2>6. QED
    BY <2>3, <2>4, <2>5
<1>5. QED
  BY <1>2, <1>3, <1>4 DEF AlertAtDebounce

\* A step that notes and one that does not.
LEMMA NotedInv ==
    ASSUME ArtInv, ArtRestTyped, HeldIsThere', NEW breaching, NEW cleared,
           Note(breaching, cleared),
           \A s \in cleared \cap ConsumerSignals : s \in Ceased(consumer')
    PROVE  ArtInv'
BY NoteInv DEF ArtInv, ArtTypeOK, ArtRestTyped

LEMMA UnnotedInv ==
    ASSUME ArtInv, ArtRestTyped, HeldIsThere', UNCHANGED <<breachTicks, told>>
    PROVE  ArtInv'
BY DEF ArtInv, ArtTypeOK, ArtRestTyped, AlertAtDebounce

LEMMA ArtFaultType == ASSUME ArtInv, ArtFault PROVE artFaults' \in 0 .. MaxArtFaults
BY DEF ArtFault, ArtInv, ArtTypeOK

LEMMA WriteBackIs ==
    ASSUME ArtInv, WriteBack
    PROVE  /\ consumer' \in Consumers
           /\ consumer'.enable /\ consumer'.present = held.present
           /\ consumer'.images = held.images
BY DEF WriteBack, ArtInv, ArtTypeOK, Consumers

LEMMA ReadInv ==
    ASSUME ArtInv, ReadAbsent \/ ReadDisabled \/ ReadEnabled
    PROVE  ArtInv'
<1>1. ArtRestTyped /\ HeldIsThere'
  BY DEF ReadAbsent, ReadDisabled, ReadEnabled, artWorld, artRun, ArtInv, ArtTypeOK,
         ArtRestTyped, HeldIsThere
<1>2. consumer' = consumer
  BY DEF ReadAbsent, ReadDisabled, ReadEnabled, artWorld
<1>3. CASE ReadEnabled
  <2>1. \A s \in ({"consumer_disabled"} \cup ImagesOn(consumer)) \cap ConsumerSignals :
            s \in Ceased(consumer')
    BY <1>2, <1>3 DEF ReadEnabled, ImagesOn, Ceased
  <2>2. QED
    BY <1>1, <1>3, <2>1, NotedInv DEF ReadEnabled
<1>4. CASE ReadAbsent \/ ReadDisabled
  BY <1>1, <1>4, NotedInv DEF ReadAbsent, ReadDisabled
<1>5. QED
  BY <1>3, <1>4

LEMMA PutInv == ASSUME ArtInv, PutConsumer \/ PutFails PROVE ArtInv'
<1>1. ArtRestTyped /\ HeldIsThere'
  BY WriteBackIs, ArtFaultType
     DEF PutConsumer, PutFails, ArtInv, ArtTypeOK, ArtRestTyped, HeldIsThere
<1>2. CASE PutConsumer
  <2>1. held.present
    BY <1>2 DEF PutConsumer, ArtInv, HeldIsThere
  <2>2. \A s \in ({"consumer_disabled"} \cup ImagesOn(held)) \cap ConsumerSignals :
            s \in Ceased(consumer')
    BY <1>2, <2>1, WriteBackIs DEF PutConsumer, ImagesOn, Ceased
  <2>3. QED
    BY <1>1, <1>2, <2>2, NotedInv DEF PutConsumer
<1>3. CASE PutFails
  BY <1>1, <1>3, NotedInv DEF PutFails
<1>4. QED
  BY <1>2, <1>3

LEMMA EndProbeInv == ASSUME ArtInv, EndProbe PROVE ArtInv'
<1>1. ArtRestTyped /\ HeldIsThere'
  BY DEF EndProbe, artWorld, ArtInv, ArtTypeOK, ArtRestTyped, HeldIsThere
<1>2. "artwork_missing" \notin ConsumerSignals
  BY DEF ConsumerSignals
<1>3. CASE foundMissing # {}
  BY <1>1, <1>3, NotedInv DEF EndProbe
<1>4. CASE foundMissing = {}
  BY <1>1, <1>2, <1>4, NotedInv DEF EndProbe
<1>5. QED
  BY <1>3, <1>4

LEMMA ArtEditType == ASSUME ArtInv, ArtEdit PROVE artEdits' \in 0 .. MaxArtEdits
BY DEF ArtEdit, ArtInv, ArtTypeOK

LEMMA EditConsumerInv == ASSUME ArtInv, EditConsumer PROVE ArtInv'
<1>1. ArtRestTyped /\ HeldIsThere'
  BY ArtEditType DEF EditConsumer, artRun, ArtInv, ArtTypeOK, ArtRestTyped, HeldIsThere
<1>2. QED
  BY <1>1, NotedInv DEF EditConsumer

\* The steps that note nothing.
LEMMA ArtQuietInv ==
    ASSUME ArtInv,
           \/ ReadFails \/ ListItems \/ ProbeItem \/ TriggerRefresh
           \/ RefreshRuns \/ LoseArtwork \/ UNCHANGED artVars
    PROVE  ArtInv'
<1>1. UNCHANGED <<breachTicks, told>>
  BY DEF ReadFails, ListItems, ProbeItem, TriggerRefresh, RefreshRuns, LoseArtwork, artVars
<1>2. artFaults' \in 0 .. MaxArtFaults /\ artEdits' \in 0 .. MaxArtEdits
  BY ArtFaultType, ArtEditType
     DEF ReadFails, ListItems, ProbeItem, TriggerRefresh, RefreshRuns, LoseArtwork, artVars,
         ArtInv, ArtTypeOK
<1>3. /\ noArtwork' \in SUBSET Items /\ refreshing' \in SUBSET Items
      /\ toProbe' \in SUBSET Items /\ foundMissing' \in SUBSET Items
  BY DEF ReadFails, ListItems, ProbeItem, TriggerRefresh, RefreshRuns, LoseArtwork, artVars,
         artWorld, artRun, ArtInv, ArtTypeOK
<1>4. /\ consumer' = consumer /\ held' = held
      /\ artPc' = artPc \/ artPc' \in {"idle", "probe"}
  BY DEF ReadFails, ListItems, ProbeItem, TriggerRefresh, RefreshRuns, LoseArtwork, artVars,
         artWorld, artRun
<1>5. ArtRestTyped /\ HeldIsThere'
  BY <1>2, <1>3, <1>4 DEF ArtInv, ArtTypeOK, ArtRestTyped, HeldIsThere
<1>6. QED
  BY <1>1, <1>5, UnnotedInv

LEMMA ArtNextInv == ArtInv /\ [ArtNext]_artVars => ArtInv'
BY ReadInv, PutInv, EndProbeInv, EditConsumerInv, ArtQuietInv DEF ArtNext, ArtTick

LEMMA ArtInvariance == ArtSpec => []ArtInv
BY ArtInitInv, ArtNextInv, PTL DEF ArtSpec

\* Every variable of artwork_health keeps its type, for any items, debounce and bounds.
THEOREM ArtTypeCorrect == ArtSpec => []ArtTypeOK
<1>1. ArtInv => ArtTypeOK
  BY DEF ArtInv
<1>2. QED
  BY <1>1, ArtInvariance, PTL

\* A condition of the consumer is alerted for once for as long as it holds in the
\* service, for any debounce: the counter passes it once, and is cleared only where
\* the service is known not to meet the condition; ArtworkHealthState.note.
THEOREM ConsumerAlertedOnce == ArtSpec => []ConsumerAlertOnce
<1>1. ArtInv => ConsumerAlertOnce
  BY DEF ArtInv, AlertAtDebounce, ConsumerAlertOnce
<1>2. QED
  BY <1>1, ArtInvariance, PTL

-----------------------------------------------------------------------------
(* PidPressure: a restart is followed by debounce reads before the next one. *)

USE PidDebounceAssumption, PidBoundsAssumption

\* A streak counts runs in which the processes were read since the last restart.
StreakWasRead == \A c \in Containers : streak[c] <= reads[c]

\* A restart that is awaited has had its streak.
RestartIsDue ==
    pidPc = "restart" => restarting \in Containers /\ reads[restarting] = PidDebounce

PidInv == PidTypeOK /\ StreakWasRead /\ RestartIsDue

LEMMA PidInitInv == PidInit => PidInv
BY DEF PidInit, PidInv, PidTypeOK, StreakWasRead, RestartIsDue, Loads, NoContainer

LEMMA LongerIs ==
  ASSUME NEW n \in 0 .. PidDebounce, NEW m \in 0 .. PidDebounce, n <= m
  PROVE  /\ Longer(n) \in 0 .. PidDebounce /\ Longer(m) \in 0 .. PidDebounce
         /\ Longer(n) <= Longer(m)
         /\ Longer(n) >= PidDebounce => Longer(m) = PidDebounce
BY DEF Longer

LEMMA ReadTopInv == ASSUME PidInv, NEW c \in Containers, ReadTop(c) PROVE PidInv'
<1>1. /\ streak[c] \in 0 .. PidDebounce /\ reads[c] \in 0 .. PidDebounce
      /\ streak[c] <= reads[c]
  BY DEF PidInv, PidTypeOK, StreakWasRead
<1> DEFINE n == NextStreak(c)
           m == Longer(reads[c])
<1>2. /\ n \in 0 .. PidDebounce /\ m \in 0 .. PidDebounce
      /\ n <= m
      /\ n >= PidDebounce => m = PidDebounce
  BY <1>1, LongerIs DEF NextStreak
<1>3. streak' = [streak EXCEPT ![c] = n] /\ reads' = [reads EXCEPT ![c] = m]
  BY DEF ReadTop
<1>4. UNCHANGED <<load, listed, loads, pidFaults>> /\ unread' = unread \ {c}
  BY DEF ReadTop
<1>5. \/ pidPc' = "restart" /\ restarting' = c /\ m = PidDebounce
      \/ pidPc' = "read" /\ restarting' = restarting
  BY <1>2 DEF ReadTop, RestartDue
<1> HIDE DEF n, m
<1>6. PidTypeOK'
  BY <1>2, <1>3, <1>4, <1>5 DEF PidInv, PidTypeOK
<1>7. StreakWasRead'
  BY <1>2, <1>3 DEF PidInv, PidTypeOK, StreakWasRead
<1>8. RestartIsDue'
  BY <1>3, <1>5 DEF PidInv, PidTypeOK, RestartIsDue
<1>9. QED
  BY <1>6, <1>7, <1>8 DEF PidInv

LEMMA PidFaultInv == ASSUME PidInv, PidFault PROVE pidFaults' \in 0 .. MaxPidFaults
BY DEF PidFault, PidInv, PidTypeOK

LEMMA ListContainersInv == ASSUME PidInv, ListContainers PROVE PidInv'
<1>1. pidFaults' \in 0 .. MaxPidFaults
  BY PidFaultInv DEF ListContainers, PidInv, PidTypeOK
<1>2. /\ listed' \in SUBSET Containers /\ unread' \in SUBSET listed' /\ pidPc' \in {"idle", "read"}
  BY DEF ListContainers, PidInv, PidTypeOK
<1>3. UNCHANGED <<load, restarting, streak, reads, loads>>
  BY DEF ListContainers
<1>4. QED
  BY <1>1, <1>2, <1>3 DEF PidInv, PidTypeOK, StreakWasRead, RestartIsDue

LEMMA TopFailsInv == ASSUME PidInv, NEW c \in Containers, TopFails(c) PROVE PidInv'
<1>1. pidFaults' \in 0 .. MaxPidFaults
  BY PidFaultInv DEF TopFails, PidInv, PidTypeOK
<1>2. QED
  BY <1>1 DEF TopFails, PidInv, PidTypeOK, StreakWasRead, RestartIsDue

LEMMA RestartInv == ASSUME PidInv, NEW c \in Containers, Restart(c) PROVE PidInv'
BY DEF Restart, AfterRestart, NoContainer, Loads, PidInv, PidTypeOK, StreakWasRead, RestartIsDue

LEMMA RestartFailsInv == ASSUME PidInv, NEW c \in Containers, RestartFails(c) PROVE PidInv'
<1>1. pidFaults' \in 0 .. MaxPidFaults
  BY PidFaultInv DEF RestartFails, PidInv, PidTypeOK
<1>2. load' \in [Containers -> Loads]
  BY DEF RestartFails, Loads, PidInv, PidTypeOK
<1>3. QED
  BY <1>1, <1>2 DEF RestartFails, NoContainer, PidInv, PidTypeOK, StreakWasRead, RestartIsDue

LEMMA EndRunInv == ASSUME PidInv, EndRun PROVE PidInv'
BY DEF EndRun, PidInv, PidTypeOK, StreakWasRead, RestartIsDue

LEMMA ChangeInv == ASSUME PidInv, NEW c \in Containers, Change(c) PROVE PidInv'
BY DEF Change, pidRun, Loads, PidInv, PidTypeOK, StreakWasRead, RestartIsDue

LEMMA PidNextInv == PidInv /\ [PidNext]_pidVars => PidInv'
<1> SUFFICES ASSUME PidInv, [PidNext]_pidVars PROVE PidInv'
  OBVIOUS
<1>1. CASE PidNext
  BY <1>1, ListContainersInv, ReadTopInv, TopFailsInv, RestartInv, RestartFailsInv, EndRunInv,
     ChangeInv DEF PidNext, PidTick
<1>2. CASE UNCHANGED pidVars
  BY <1>2 DEF pidVars, pidRun, PidInv, PidTypeOK, StreakWasRead, RestartIsDue
<1>3. QED
  BY <1>1, <1>2

LEMMA PidInvariance == PidSpec => []PidInv
BY PidInitInv, PidNextInv, PTL DEF PidSpec

\* Every variable keeps its type, for any containers, debounce and bounds.
THEOREM PidTypeCorrect == PidSpec => []PidTypeOK
<1>1. PidInv => PidTypeOK
  BY DEF PidInv
<1>2. QED
  BY <1>1, PidInvariance, PTL

\* Only a restart sets reads back, and it is awaited only for a container whose
\* processes have been read in debounce runs since its last one.
LEMMA SpacedStep ==
  ASSUME PidInv, PidNext, NEW c \in Containers, reads[c] > 0, reads'[c] = 0
  PROVE  reads[c] >= PidDebounce
<1>1. reads \in [Containers -> 0 .. PidDebounce]
  BY DEF PidInv, PidTypeOK
<1>2. CASE \E d \in Containers : Restart(d)
  BY <1>1, <1>2 DEF Restart, PidInv, RestartIsDue
<1>3. CASE \E d \in Containers : ReadTop(d)
  BY <1>1, <1>3 DEF ReadTop, Longer
<1>4. CASE UNCHANGED reads
  BY <1>1, <1>4
<1>5. QED
  BY <1>2, <1>3, <1>4
     DEF PidNext, PidTick, ListContainers, TopFails, RestartFails, EndRun, Change

\* After a restart that succeeded a container is not restarted again before its
\* processes have been read in debounce further runs, for any containers, debounce
\* and bounds;
\* _evaluate_container.
THEOREM RestartsAreSpaced == PidSpec => RestartsSpaced
<1>1. PidInv /\ [PidNext]_pidVars =>
        [\A c \in Containers : reads[c] > 0 /\ reads'[c] = 0 => reads[c] >= PidDebounce]_pidVars
  BY SpacedStep DEF pidVars
<1>2. QED
  BY <1>1, PidInvariance, PTL DEF PidSpec, RestartsSpaced

-----------------------------------------------------------------------------
(* PermissionsHealth: the guard of linked files holds while the batches run. *)

USE OwnersAssumption, BatchAssumption, PermBoundsAssumption

\* A file that is still to be repaired and is linked by now was linked after the find.
LinkedSinceFind == toChown \cap linked \subseteq relinked

PermInv == PermTypeOK /\ LinkedSinceFind

LEMMA PermInitInv == PermInit => PermInv
BY DEF PermInit, PermInv, PermTypeOK, LinkedSinceFind

LEMMA SshFaultType == ASSUME PermInv, SshFault PROVE sshFaults' \in 0 .. MaxSshFaults
BY DEF SshFault, PermInv, PermTypeOK

LEMMA ChangedType == ASSUME PermInv, Changed PROVE changes' \in 0 .. MaxChanges
BY DEF Changed, PermInv, PermTypeOK

LEMMA BatchesAre == \A batch \in Batches : batch \subseteq toChown
BY DEF Batches, kSubset

LEMMA RepairableIs == \A S : Repairable(S) \subseteq S \ linked
BY DEF Repairable, SafeFindings

LEMMA ChownedType == \A S : owner \in [Paths -> Owners] => Chowned(S) \in [Paths -> Owners]
BY DEF Chowned

LEMMA ConnectInv == ASSUME PermInv, Connect PROVE PermInv'
BY SshFaultType DEF Connect, PermInv, PermTypeOK, LinkedSinceFind

LEMMA EndRunsInv == ASSUME PermInv, RunRaises \/ ScanFails \/ EndFixes PROVE PermInv'
BY SshFaultType DEF RunRaises, ScanFails, EndFixes, EndPermRun, Reconnect, permBounds, PermInv, PermTypeOK,
   LinkedSinceFind

LEMMA DropsInv == ASSUME PermInv, ConnectionDrops PROVE PermInv'
BY SshFaultType DEF ConnectionDrops, PermInv, PermTypeOK, LinkedSinceFind

LEMMA ScanPathInv == ASSUME PermInv, ScanPath PROVE PermInv'
<1>1. findings' \subseteq Paths /\ toChown' \subseteq findings' \ linked
  BY RepairableIs DEF ScanPath, TallyReport
<1>2. QED
  BY <1>1 DEF ScanPath, permBounds, PermInv, PermTypeOK, LinkedSinceFind

LEMMA ChownBatchInv == ASSUME PermInv, ChownBatch PROVE PermInv'
<1>1. toChown' \subseteq toChown /\ owner' \in [Paths -> Owners]
  BY ChownedType DEF ChownBatch, PermInv, PermTypeOK
<1>2. sshFaults' \in 0 .. MaxSshFaults
  BY SshFaultType DEF ChownBatch, PermInv, PermTypeOK
<1>3. QED
  BY <1>1, <1>2 DEF ChownBatch, PermInv, PermTypeOK, LinkedSinceFind

LEMMA FilesChangeInv ==
    ASSUME PermInv, NEW p \in Paths,
           (\E o \in Owners : GiveAway(p, o)) \/ LinkFile(p) \/ UnlinkFile(p)
    PROVE  PermInv'
<1>1. changes' \in 0 .. MaxChanges
  BY ChangedType DEF GiveAway, LinkFile, UnlinkFile
<1>2. QED
  BY <1>1 DEF GiveAway, LinkFile, UnlinkFile, PermInv, PermTypeOK, LinkedSinceFind

LEMMA RestartPermsInv == ASSUME PermInv, RestartPerms PROVE PermInv'
BY DEF RestartPerms, EndPermRun, PermInv, PermTypeOK, LinkedSinceFind

LEMMA PermNextInv == PermInv /\ [PermNext]_permVars => PermInv'
<1> SUFFICES ASSUME PermInv, [PermNext]_permVars PROVE PermInv'
  OBVIOUS
<1>1. CASE PermNext
  BY <1>1, ConnectInv, EndRunsInv, DropsInv, ScanPathInv, ChownBatchInv, FilesChangeInv,
     RestartPermsInv DEF PermNext, PermTick
<1>2. CASE UNCHANGED permVars
  BY <1>2 DEF permVars, PermInv, PermTypeOK, LinkedSinceFind
<1>3. QED
  BY <1>1, <1>2

LEMMA PermInvariance == PermSpec => []PermInv
BY PermInitInv, PermNextInv, PTL DEF PermSpec

\* Every variable of permissions_health keeps its type, for any paths, owners and
\* bounds.
THEOREM PermTypeCorrect == PermSpec => []PermTypeOK
<1>1. PermInv => PermTypeOK
  BY DEF PermInv
<1>2. QED
  BY <1>1, PermInvariance, PTL

LEMMA LinkedStep ==
    ASSUME PermInv, PermNext, NEW p \in Paths, p \in linked \ relinked, owner'[p] = Expected
    PROVE  owner[p] = Expected
<1>1. CASE ChownBatch
  <2>1. PICK S \in SUBSET toChown : owner' = Chowned(S)
    BY <1>1, BatchesAre DEF ChownBatch
  <2>2. p \notin S
    BY <2>1 DEF PermInv, LinkedSinceFind
  <2>3. QED
    BY <2>1, <2>2 DEF Chowned
<1>2. ASSUME NEW q \in Paths, NEW o \in Owners, GiveAway(q, o) PROVE owner[p] = Expected
  BY <1>2 DEF GiveAway, PermInv, PermTypeOK
<1>3. CASE UNCHANGED owner
  BY <1>3
<1>4. QED
  BY <1>1, <1>2, <1>3
     DEF PermNext, PermTick, Connect, RunRaises, ScanPath, ScanFails, EndFixes,
         ConnectionDrops, LinkFile, UnlinkFile, RestartPerms

\* A file that has had another link since before the find keeps its owner, for any
\* paths, batch size and limit, whatever is linked and unlinked while the batches
\* run; apply_fixes.
THEOREM LinkedIsUntouched == PermSpec => LinkedUntouched
<1>1. PermInv /\ [PermNext]_permVars =>
        [\A p \in Paths :
           p \in linked \ relinked /\ owner'[p] = Expected => owner[p] = Expected]_permVars
  BY LinkedStep
<1>2. QED
  BY <1>1, PermInvariance, PTL DEF PermSpec, LinkedUntouched

-----------------------------------------------------------------------------
(* MountAudit: a report is true of what nobody else touched. *)

USE QbitAssumption, DirsAssumption, MountBoundsAssumption

\* The paths of the service that have been tested by now.
TestedDirs == Dirs \ (untested \cup {path})

Auditing == {"next", "exists", "writable", "mkdir", "recheck"}

\* What has been found so far of the paths nobody else touched is still so.
TrueSoFar ==
    mountPc \in Auditing =>
        /\ auditing \in Services
        /\ \A d \in steady \cap TestedDirs :
              found[d] = "none" \/ (found[d] = "made" /\ auditing = Qbit)
                => dir[auditing][d] = "writable"

MountInv == MountTypeOK /\ TrueSoFar

USE DEF Auditing

LEMMA MountInitInv == MountInit => MountInv
BY DEF MountInit, MountInv, MountTypeOK, TrueSoFar, NoService, Access, Kinds

LEMMA ExecFaultType == ASSUME MountInv, ExecFault PROVE execFaults' \in 0 .. MaxExecFaults
BY DEF ExecFault, MountInv, MountTypeOK

\* The path under test is recorded, and the others are as they were.
LEMMA RecordInv ==
    ASSUME MountInv, mountPc \in {"exists", "writable", "mkdir", "recheck"},
           NEW kind \in Kinds, Record(kind),
           UNCHANGED <<auditing, unaudited, untested, steady>>,
           mountChanges' \in 0 .. MaxMountChanges, execFaults' \in 0 .. MaxExecFaults,
           dir' \in [Services -> [Dirs -> Access]],
           \A d \in Dirs \ {path} : dir'[auditing][d] = dir[auditing][d],
           kind = "none" \/ (kind = "made" /\ auditing = Qbit)
             => dir'[auditing][path] = "writable"
    PROVE  MountInv'
<1>1. path \in Dirs
  BY DEF MountInv, MountTypeOK
<1>2. found' \in [Dirs -> Kinds] /\ found'[path] = kind
  BY <1>1 DEF Record, MountInv, MountTypeOK
<1>3. mountPc' = "next" /\ path' = NoDir
  BY DEF Record
<1>4. MountTypeOK'
  BY <1>2, <1>3 DEF MountInv, MountTypeOK
<1>5. ASSUME NEW d \in steady' \cap TestedDirs',
             found'[d] = "none" \/ (found'[d] = "made" /\ auditing' = Qbit)
      PROVE  dir'[auditing'][d] = "writable"
  <2>1. CASE d = path
    BY <1>2, <1>5, <2>1
  <2>2. CASE d # path
    <3>1. d \in steady \cap TestedDirs /\ found'[d] = found[d]
      BY <1>3, <1>5, <2>2 DEF TestedDirs, Record, MountInv, MountTypeOK
    <3>2. QED
      BY <1>5, <2>2, <3>1 DEF MountInv, TrueSoFar, TestedDirs
  <2>3. QED
    BY <2>1, <2>2
<1>6. auditing' \in Services
  BY DEF MountInv, TrueSoFar
<1>7. QED
  BY <1>4, <1>5, <1>6 DEF MountInv, TrueSoFar

LEMMA TestWritableInv == ASSUME MountInv, TestWritable PROVE MountInv'
<1> DEFINE kind == IF There = "writable" THEN "none" ELSE "not_writable"
<1>1. kind \in Kinds /\ Record(kind) /\ (kind = "none" => There = "writable") /\ kind # "made"
  BY DEF TestWritable, Kinds
<1> HIDE DEF kind
<1>2. QED
  BY <1>1, RecordInv DEF TestWritable, There, mountBounds, MountInv, MountTypeOK

LEMMA RecheckInv == ASSUME MountInv, Recheck PROVE MountInv'
<1> DEFINE kind == IF There = "writable" THEN "made" ELSE "not_writable"
<1>1. kind \in Kinds /\ Record(kind) /\ (kind = "made" => There = "writable") /\ kind # "none"
  BY DEF Recheck, Kinds
<1> HIDE DEF kind
<1>2. QED
  BY <1>1, RecordInv DEF Recheck, There, mountBounds, MountInv, MountTypeOK

LEMMA MakeDirInv == ASSUME MountInv, MakeDir PROVE MountInv'
<1>1. path \in Dirs /\ auditing \in Services
  BY DEF MakeDir, MountInv, MountTypeOK, TrueSoFar
<1>2. PICK access \in Access : Make(access)
  BY DEF MakeDir
<1>3. /\ dir' \in [Services -> [Dirs -> Access]]
      /\ \A d \in Dirs \ {path} : dir'[auditing][d] = dir[auditing][d]
  BY <1>1, <1>2 DEF Make, MountInv, MountTypeOK
<1>4. CASE auditing = Qbit
  <2>1. /\ mountPc' = "recheck" /\ UNCHANGED <<path, found>>
        /\ UNCHANGED <<auditing, unaudited, untested, steady, mountBounds>>
    BY <1>4 DEF MakeDir
  <2>2. MountTypeOK'
    BY <1>1, <1>3, <2>1 DEF mountBounds, MountInv, MountTypeOK
  <2>3. TrueSoFar'
    BY <1>1, <1>3, <2>1 DEF MakeDir, MountInv, TrueSoFar, TestedDirs
  <2>4. QED
    BY <2>2, <2>3 DEF MountInv
<1>5. CASE auditing # Qbit
  <2>1. Record("made") /\ "made" \in Kinds
    BY <1>5 DEF MakeDir, Kinds
  <2>2. QED
    BY <1>3, <1>5, <2>1, RecordInv DEF MakeDir, mountBounds, MountInv, MountTypeOK
<1>6. QED
  BY <1>4, <1>5

LEMMA MakeDirFailsInv == ASSUME MountInv, MakeDirFails PROVE MountInv'
<1>1. "missing" \in Kinds /\ execFaults' \in 0 .. MaxExecFaults
  BY ExecFaultType DEF MakeDirFails, Kinds
<1>2. QED
  BY <1>1, RecordInv DEF MakeDirFails, MountInv, MountTypeOK

LEMMA AskApiInv == ASSUME MountInv, AskApi PROVE MountInv'
<1>1. PICK s \in unaudited :
         /\ unaudited' = unaudited \ {s}
         /\ \/ /\ auditing' = s
               /\ untested' = Dirs /\ steady' = Dirs
               /\ mountPc' = "next"
               /\ UNCHANGED execFaults
            \/ ExecFault /\ UNCHANGED <<auditing, untested, steady, mountPc>>
  BY DEF AskApi
<1>2. s \in Services /\ mountPc = "api"
  BY DEF AskApi, MountInv, MountTypeOK
<1>3. execFaults' \in 0 .. MaxExecFaults
  BY <1>1, ExecFaultType DEF MountInv, MountTypeOK
<1>4. MountTypeOK'
  BY <1>1, <1>2, <1>3 DEF AskApi, Kinds, MountInv, MountTypeOK
<1>5. TrueSoFar'
  BY <1>1, <1>2 DEF TrueSoFar, TestedDirs
<1>6. QED
  BY <1>4, <1>5 DEF MountInv

LEMMA NextPathInv == ASSUME MountInv, NextPath PROVE MountInv'
<1>1. PICK d \in untested : untested' = untested \ {d} /\ path' = d
  BY DEF NextPath
<1>2. MountTypeOK'
  BY <1>1 DEF NextPath, mountBounds, MountInv, MountTypeOK
<1>3. TestedDirs' \subseteq TestedDirs
  BY <1>1 DEF NextPath, TestedDirs, MountInv, MountTypeOK
<1>4. TrueSoFar'
  BY <1>3 DEF NextPath, MountInv, TrueSoFar
<1>5. QED
  BY <1>2, <1>4 DEF MountInv

LEMMA TestExistsInv == ASSUME MountInv, TestExists PROVE MountInv'
BY DEF TestExists, mountBounds, MountInv, MountTypeOK, TrueSoFar, TestedDirs

\* Between two services nothing is claimed.
LEMMA BetweenServicesInv ==
    ASSUME MountInv, BeginAudit \/ ExecRaises \/ EndService \/ EndAudit
    PROVE  MountInv'
<1>1. mountPc' \in {"idle", "api"} /\ path' = NoDir
  BY DEF BeginAudit, ExecRaises, EndService, EndAudit, MountInv, MountTypeOK
<1>2. execFaults' \in 0 .. MaxExecFaults /\ mountChanges' \in 0 .. MaxMountChanges
  BY ExecFaultType
     DEF BeginAudit, ExecRaises, EndService, EndAudit, mountBounds, MountInv, MountTypeOK
<1>3. MountTypeOK'
  BY <1>1, <1>2
     DEF BeginAudit, ExecRaises, EndService, EndAudit, Kinds, NoService, MountInv, MountTypeOK
<1>4. QED
  BY <1>1, <1>3 DEF MountInv, TrueSoFar

LEMMA PathChangesInv ==
    ASSUME MountInv, NEW s \in Services, NEW d \in Dirs, PathChanges(s, d)
    PROVE  MountInv'
<1>1. PICK access \in Access : dir' = [dir EXCEPT ![s][d] = access]
  BY DEF PathChanges
<1>2. /\ mountChanges' \in 0 .. MaxMountChanges
      /\ UNCHANGED <<auditing, unaudited, mountPc, untested, path, found, execFaults>>
      /\ steady' = IF s = auditing THEN steady \ {d} ELSE steady
  BY DEF PathChanges, auditRun, MountInv, MountTypeOK
<1>3. MountTypeOK'
  BY <1>1, <1>2 DEF MountInv, MountTypeOK
<1>4. ASSUME mountPc \in Auditing
      PROVE  \A e \in steady' \cap TestedDirs : dir'[auditing][e] = dir[auditing][e]
  BY <1>1, <1>2, <1>4 DEF MountInv, MountTypeOK, TrueSoFar, TestedDirs
<1>5. TrueSoFar'
  BY <1>2, <1>4 DEF MountInv, TrueSoFar, TestedDirs
<1>6. QED
  BY <1>3, <1>5 DEF MountInv

LEMMA MountNextInv == MountInv /\ [MountNext]_mountVars => MountInv'
<1> SUFFICES ASSUME MountInv, [MountNext]_mountVars PROVE MountInv'
  OBVIOUS
<1>1. CASE MountNext
  BY <1>1, AskApiInv, NextPathInv, TestExistsInv, TestWritableInv, MakeDirInv,
     MakeDirFailsInv, RecheckInv, BetweenServicesInv, PathChangesInv DEF MountNext, MountTick
<1>2. CASE UNCHANGED mountVars
  BY <1>2 DEF mountVars, auditRun, mountBounds, MountInv, MountTypeOK, TrueSoFar, TestedDirs
<1>3. QED
  BY <1>1, <1>2

LEMMA MountInvariance == MountSpec => []MountInv
BY MountInitInv, MountNextInv, PTL DEF MountSpec

\* Every variable of mount_audit keeps its type, for any services, paths and bounds.
THEOREM MountTypeCorrect == MountSpec => []MountTypeOK
<1>1. MountInv => MountTypeOK
  BY DEF MountInv
<1>2. QED
  BY <1>1, MountInvariance, PTL

\* What an audit says of the paths that nobody else touched meanwhile is so at its
\* end, for any services and paths and however mounts come and go; audit_qbit,
\* audit_arr.
THEOREM AuditReportIsTrue == MountSpec => []ReportIsTrue
<1>1. MountInv => ReportIsTrue
  BY DEF MountInv, MountTypeOK, TrueSoFar, TestedDirs, ReportIsTrue
<1>2. QED
  BY <1>1, MountInvariance, PTL

-----------------------------------------------------------------------------
(* The process *)

LEMMA EachInit == Init => LibraryInit /\ ArtInit /\ PidInit /\ PermInit /\ MountInit
BY DEF Init

LEMMA EachNext ==
    [Next]_vars => /\ [LibraryNext]_libraryVars
                   /\ [ArtNext]_artVars
                   /\ [PidNext]_pidVars
                   /\ [PermNext]_permVars
                   /\ [MountNext]_mountVars
BY DEF Next, LibraryTurn, ArtTurn, PidTurn, PermTurn, MountTurn, vars

\* The process does of each job what the job's own specification allows, so that all
\* that is shown of one holds of the process; _build_scheduler_for_test.
THEOREM MonitorsAreIndependent ==
    Spec => LibrarySpec /\ ArtSpec /\ PidSpec /\ PermSpec /\ MountSpec
BY EachInit, EachNext, PTL DEF Spec, LibrarySpec, ArtSpec, PidSpec, PermSpec, MountSpec

\* Every variable of the five jobs keeps its type, however their steps interleave.
THEOREM MonitorsTypeCorrect == Spec => []TypeOK
<1>1. /\ LibraryTypeOK /\ ArtTypeOK /\ PidTypeOK /\ PermTypeOK /\ MountTypeOK => TypeOK
  BY DEF TypeOK
<1>2. QED
  BY <1>1, MonitorsAreIndependent, LibraryTypeCorrect, ArtTypeCorrect, PidTypeCorrect,
     PermTypeCorrect, MountTypeCorrect, PTL

=============================================================================
