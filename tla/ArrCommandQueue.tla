--------------------------- MODULE ArrCommandQueue ---------------------------
(***************************************************************************)
(* The command queue of one Sonarr or Radarr and the job that drains it:   *)
(* run_arr_scheduler_health first, whose wedge forces a drain, then        *)
(* run_arr_command_queue.  The queue is listed once and the commands to    *)
(* cancel are cancelled one by one, while the arr starts and finishes      *)
(* commands and more are posted.  The burst detector compares with the     *)
(* count of the run before, which the StateStore keeps across restarts.    *)
(*                                                                         *)
(* Time is counted in intervals of the job.                                *)
(***************************************************************************)
EXTENDS Integers, Capped, FiniteSets

CONSTANTS
    Commands,     \* identifiers of commands
    Kinds,        \* kinds of commands that are posted
    DrainCount,   \* drain_threshold_count
    DrainAge,     \* drain_age_seconds, in intervals
    BurstCount,   \* burst_threshold
    BurstRate,    \* burst_rate_threshold, per interval
    WedgeAfter,   \* wedge_threshold of a critical task, in intervals
    MaxFaults,    \* bound: requests that fail
    MaxCrashes    \* bound: restarts of docktarr

ASSUME CommandsAssumption == IsFiniteSet(Commands)
ASSUME KindsAssumption == Kinds \subseteq {"search", "research", "other"}
ASSUME ThresholdsAssumption ==
    /\ DrainCount \in Nat \ {0} /\ DrainAge \in Nat
    /\ BurstCount \in Nat \ {0} /\ BurstRate \in Nat \ {0}
    /\ WedgeAfter \in Nat \ {0}
ASSUME BoundsAssumption == MaxFaults \in Nat /\ MaxCrashes \in Nat

VARIABLES
    cmd,       \* the commands the arr knows
    overdue,   \* age of a critical task's last execution, counted up to the wedge
    job,       \* the run of the job: pc, whether a drain is forced, what is to be cancelled
    base,      \* StateStore._arr_burst for the service
    disk,      \* the same in state.json
    faults,
    crashes

vars == <<cmd, overdue, job, base, disk, faults, crashes>>
bounds == <<faults, crashes>>

(* A command of kind "search" is a search posted by some program without a    *)
(* trigger, "research" the search docktarr itself posts for a file it deleted *)
(* (no trigger either), "other" any command with another trigger or name.     *)
Absent == [status |-> "absent", kind |-> "none", age |-> 0]
Started == [status |-> "started", kind |-> "none", age |-> 0]
CommandStates == {Absent, Started} \cup [status : {"queued"}, kind : Kinds, age : 0 .. DrainAge]

\* Elapsed intervals are counted until no growth reaches the rate.
Elapsed == Cardinality(Commands) \div BurstRate + 1
NoBase == [count |-> -1, since |-> 0, posted |-> 0]
Bases == {NoBase} \cup [count : 0 .. Cardinality(Commands), since : 0 .. Elapsed,
                        posted : 0 .. BurstCount]
Due == [pc |-> "due", forced |-> FALSE, ids |-> {}]

TypeOK ==
    /\ cmd \in [Commands -> CommandStates]
    /\ overdue \in 0 .. WedgeAfter
    /\ job \in [pc : {"idle", "due", "list", "drain", "save"}, forced : BOOLEAN,
                ids : SUBSET Commands]
    /\ base \in Bases
    /\ disk \in Bases
    /\ faults \in 0 .. MaxFaults
    /\ crashes \in 0 .. MaxCrashes

Init ==
    /\ cmd = [c \in Commands |-> Absent]
    /\ overdue = 0
    /\ job = Due
    /\ base = NoBase
    /\ disk = NoBase
    /\ faults = 0
    /\ crashes = 0

Faulty == faults < MaxFaults /\ faults' = faults + 1

-----------------------------------------------------------------------------
(* run_arr_scheduler_health *)

IsWedged == overdue >= WedgeAfter

LookAtTasks ==
    /\ job.pc = "due"
    /\ job' = [job EXCEPT !.pc = "list", !.forced = IsWedged]
    /\ UNCHANGED <<cmd, overdue, base, disk, bounds>>

\* Without an answer nothing is forced.
TasksUnknown ==
    /\ job.pc = "due"
    /\ Faulty
    /\ job' = [job EXCEPT !.pc = "list", !.forced = FALSE]
    /\ UNCHANGED <<cmd, overdue, base, disk, crashes>>

-----------------------------------------------------------------------------
(* run_arr_command_queue *)

\* trigger = "unspecified" and a name of drain_command_names.
AnyKind == Kinds
BareSearches == {"search", "research"}

Candidates == {c \in Commands : cmd[c].status = "queued" /\ cmd[c].kind \in BareSearches}

OldestAge(S) == CHOOSE a \in {cmd[c].age : c \in S} : \A c \in S : cmd[c].age <= a

BurstFromZero == Cardinality(Candidates) >= BurstCount
BurstDetected ==
    /\ base # NoBase
    /\ LET delta == Cardinality(Candidates) - base.count
       IN  delta >= BurstCount /\ delta >= BurstRate * base.since

AgeDrainAbove ==
    /\ Cardinality(Candidates) > DrainCount
    /\ OldestAge(Candidates) >= DrainAge
AgeDrain ==
    /\ Cardinality(Candidates) >= DrainCount
    /\ OldestAge(Candidates) >= DrainAge

NeverForced == AgeDrain \/ BurstDetected
ShouldDrain == AgeDrain \/ BurstDetected \/ (job.forced /\ Candidates # {})

\* The history field posted starts anew with every count.
Counted(n) == [count |-> n, since |-> 0, posted |-> 0]

\* The count of this run is kept for the next one, whether or not it drains.
GrowthAsBase == Counted(Cardinality(Candidates) - base.count)
NextBase == Counted(Cardinality(Candidates))

ListCommands ==
    /\ job.pc = "list"
    /\ base' = NextBase
    /\ job' = IF ShouldDrain
              THEN [job EXCEPT !.pc = "drain", !.ids = Candidates]
              ELSE [job EXCEPT !.pc = "save"]
    /\ UNCHANGED <<cmd, overdue, disk, bounds>>

ListFails ==
    /\ job.pc = "list"
    /\ Faulty
    /\ job' = [job EXCEPT !.pc = "save"]
    /\ UNCHANGED <<cmd, overdue, base, disk, crashes>>

Left(c) == [job EXCEPT !.ids = @ \ {c}]

\* One DELETE of a batch, in any order: the arr cancels what is still queued.
CancelCommand(c) ==
    /\ job.pc = "drain" /\ c \in job.ids
    /\ cmd[c].status = "queued"
    /\ cmd' = [cmd EXCEPT ![c] = Absent]
    /\ job' = Left(c)
    /\ UNCHANGED <<overdue, base, disk, bounds>>

\* A command that has started or is gone is refused: counted as an error only.
CancelRefused(c) ==
    /\ job.pc = "drain" /\ c \in job.ids
    /\ cmd[c].status # "queued"
    /\ job' = Left(c)
    /\ UNCHANGED <<cmd, overdue, base, disk, bounds>>

\* The history counts what is left as posted: the next run meets it anew.
CancelFails(c) ==
    /\ job.pc = "drain" /\ c \in job.ids
    /\ Faulty
    /\ job' = Left(c)
    /\ base' = [base EXCEPT !.posted = AtMost(@ + 1, BurstCount)]
    /\ UNCHANGED <<cmd, overdue, disk, crashes>>

\* The count is reset, whatever was left; the time stays that of the listing.
DrainEnds ==
    /\ job.pc = "drain" /\ job.ids = {}
    /\ base' = [base EXCEPT !.count = 0]
    /\ job' = [job EXCEPT !.pc = "save"]
    /\ UNCHANGED <<cmd, overdue, disk, bounds>>

SaveState ==
    /\ job.pc = "save"
    /\ disk' = base
    /\ job' = [Due EXCEPT !.pc = "idle"]
    /\ UNCHANGED <<cmd, overdue, base, bounds>>

-----------------------------------------------------------------------------
(* The other jobs, restarts, the arr and time *)

\* Discovery, tester and pruner save the same store.
OtherSave ==
    /\ disk' = base
    /\ UNCHANGED <<cmd, overdue, job, base, bounds>>

\* A kill in the middle of a save leaves a file that is put aside at startup.
Restart ==
    /\ crashes < MaxCrashes
    /\ crashes' = crashes + 1
    /\ disk' \in {disk, NoBase}
    /\ base' = disk'
    /\ job' = Due
    /\ UNCHANGED <<cmd, overdue, faults>>

\* The arr never uses an identifier again: one the job still holds is not free.
Post(c, kind) ==
    /\ cmd[c] = Absent /\ c \notin job.ids
    /\ cmd' = [cmd EXCEPT ![c] = [status |-> "queued", kind |-> kind, age |-> 0]]
    /\ IF kind \in BareSearches
       THEN /\ base' = IF base = NoBase THEN base
                       ELSE [base EXCEPT !.posted = AtMost(@ + 1, BurstCount)]
            /\ disk' = IF disk = NoBase THEN disk
                       ELSE [disk EXCEPT !.posted = AtMost(@ + 1, BurstCount)]
       ELSE UNCHANGED <<base, disk>>
    /\ UNCHANGED <<overdue, job, bounds>>

Start(c) ==
    /\ cmd[c].status = "queued"
    /\ cmd' = [cmd EXCEPT ![c] = Started]
    /\ UNCHANGED <<overdue, job, base, disk, bounds>>

Finish(c) ==
    /\ cmd[c] = Started
    /\ cmd' = [cmd EXCEPT ![c] = Absent]
    /\ UNCHANGED <<overdue, job, base, disk, bounds>>

TaskRuns ==
    /\ overdue > 0
    /\ overdue' = 0
    /\ UNCHANGED <<cmd, job, base, disk, bounds>>

Later(b) == IF b = NoBase THEN b ELSE [b EXCEPT !.since = AtMost(@ + 1, Elapsed)]

\* The next run is due; while a drain takes its time none is started.
Tick ==
    /\ job.pc \in {"idle", "drain"}
    /\ job' = IF job.pc = "idle" THEN Due ELSE job
    /\ cmd' = [c \in Commands |-> IF c \in Candidates
                                  THEN [cmd[c] EXCEPT !.age = AtMost(@ + 1, DrainAge)]
                                  ELSE cmd[c]]
    /\ overdue' = AtMost(overdue + 1, WedgeAfter)
    /\ base' = Later(base)
    /\ disk' = Later(disk)
    /\ UNCHANGED bounds

JobStep ==
    \/ LookAtTasks
    \/ TasksUnknown
    \/ ListCommands
    \/ ListFails
    \/ \E c \in Commands : CancelCommand(c)
    \/ \E c \in Commands : CancelRefused(c)
    \/ \E c \in Commands : CancelFails(c)
    \/ DrainEnds
    \/ SaveState

Environment ==
    \/ OtherSave
    \/ Restart
    \/ \E c \in Commands, kind \in Kinds : Post(c, kind)
    \/ \E c \in Commands : Start(c)
    \/ \E c \in Commands : Finish(c)
    \/ TaskRuns
    \/ Tick

Next == JobStep \/ Environment

Spec == Init /\ [][Next]_vars

\* Every await of the job ends and time passes; the arr owes nothing.
FairSpec ==
    /\ Spec
    /\ WF_vars(JobStep)
    /\ WF_vars(Tick)

-----------------------------------------------------------------------------
(* Properties *)

\* What docktarr cancels is still queued and was posted as a search without a
\* trigger, although the listing it goes by is older than the DELETE: no user's
\* search, heartbeat or running command is lost to a drain.
OnlyBareSearches ==
    [][\A c \in job.ids \ job'.ids :
         cmd'[c] # cmd[c] => cmd[c].status = "queued" /\ cmd[c].kind # "other"]_vars

\* A burst is found only if BurstCount searches were posted, or left by a drain
\* that failed, since the count it compares with was taken: neither a restart in
\* the middle of a drain, with the older count of state.json, nor the first run of
\* all makes a burst out of a queue that was there before.
BurstIsReal ==
    [][job.pc = "list" /\ job'.pc = "drain" /\ BurstDetected => base.posted >= BurstCount]_vars

\* A queue of DrainCount searches the oldest of which is DrainAge old does not
\* last, although new searches keep being posted and the arr starts none.
NoStalePile ==
    []<>~(Cardinality(Candidates) >= DrainCount /\ \E c \in Candidates : cmd[c].age = DrainAge)

\* While a critical task is overdue no queued search lasts, however few there are.
WedgeRelieved ==
    \A c \in Commands : (IsWedged /\ c \in Candidates) ~> (~IsWedged \/ c \notin Candidates)

\* What docktarr drains are the batches other programs post: the search it posts
\* itself, for a file it has deleted, is not cancelled.
ResearchKept ==
    [][\A c \in job.ids \ job'.ids : cmd'[c] # cmd[c] => cmd[c].kind # "research"]_vars

=============================================================================
