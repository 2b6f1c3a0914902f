------------------------ MODULE ArrCommandQueue_proofs ------------------------
(* Proofs about ArrCommandQueue: a drain, which goes by an old listing,       *)
(* cancels nothing but queued searches without a trigger.                     *)
EXTENDS ArrCommandQueue, FiniteSetTheorems, TLAPS

USE ThresholdsAssumption, BoundsAssumption

Max == Cardinality(Commands)

LEMMA MaxType == Max \in Nat /\ Elapsed \in Nat
<1>1. Max \in Nat
  BY CommandsAssumption, FS_CardinalityType DEF Max
<1>2. QED
  BY <1>1 DEF Elapsed, Max

\* A drain is under way only after this process has taken a count.
DrainHasBase == job.pc = "drain" => base # NoBase

\* What is to be cancelled is a search without a trigger as long as it is queued.
DrainsBare == \A c \in job.ids : cmd[c].status = "queued" => cmd[c].kind \in BareSearches

\* Between two runs nothing is to be cancelled.
NothingHeld == job.pc = "idle" => job.ids = {}

QueueInv == TypeOK /\ DrainHasBase /\ DrainsBare /\ NothingHeld

LEMMA CapIs ==
  ASSUME NEW bound \in Nat, NEW n \in 0 .. bound
  PROVE  AtMost(n + 1, bound) \in 0 .. bound
BY DEF AtMost

Counts == [count : 0 .. Max, since : 0 .. Elapsed, posted : 0 .. BurstCount]

LEMMA BasesAre == Bases = {NoBase} \cup Counts /\ NoBase \notin Counts
BY DEF Bases, Counts, NoBase, Max

LEMMA PostedOne ==
  ASSUME NEW b \in Counts
  PROVE  [b EXCEPT !.posted = AtMost(@ + 1, BurstCount)] \in Counts
<1>1. b.posted \in 0 .. BurstCount
  BY DEF Counts
<1>2. AtMost(b.posted + 1, BurstCount) \in 0 .. BurstCount
  BY <1>1, CapIs
<1>3. QED
  BY <1>2 DEF Counts

LEMMA LaterIs ==
  ASSUME NEW b \in Bases
  PROVE  Later(b) \in Bases /\ (b # NoBase => Later(b) # NoBase)
<1>1. CASE b = NoBase
  BY <1>1 DEF Later
<1>2. CASE b # NoBase
  <2>1. b \in Counts
    BY <1>2, BasesAre
  <2>2. b.since \in 0 .. Elapsed
    BY <2>1 DEF Counts
  <2>3. AtMost(b.since + 1, Elapsed) \in 0 .. Elapsed
    BY <2>2, CapIs, MaxType
  <2>4. Later(b) \in Counts
    BY <1>2, <2>1, <2>3 DEF Later, Counts
  <2>5. QED
    BY <2>4, BasesAre
<1>3. QED
  BY <1>1, <1>2

\* A listing takes a count that can be one.
LEMMA CountedCandidates == Counted(Cardinality(Candidates)) \in Counts
<1>1. Candidates \subseteq Commands
  BY DEF Candidates
<1>2. Cardinality(Candidates) \in 0 .. Max
  BY <1>1, CommandsAssumption, MaxType, FS_Subset, FS_CardinalityType DEF Max
<1>3. QED
  BY <1>2, MaxType DEF Counted, Counts

\* The states of a command, as far as their fields are read.
LEMMA QueuedIs ==
  ASSUME NEW s \in CommandStates, s.status = "queued"
  PROVE  s \in [status : {"queued"}, kind : Kinds, age : 0 .. DrainAge]
BY DEF CommandStates, Absent, Started

LEMMA InitQueueInv == Init => QueueInv
<1> SUFFICES ASSUME Init PROVE QueueInv
  OBVIOUS
<1>1. job = [pc |-> "due", forced |-> FALSE, ids |-> {}]
  BY DEF Init, Due
<1>2. cmd \in [Commands -> CommandStates]
  BY DEF Init, CommandStates
<1>3. base \in Bases /\ disk \in Bases
  BY DEF Init, Bases
<1>4. TypeOK
  BY <1>1, <1>2, <1>3 DEF Init, TypeOK
<1>5. DrainHasBase /\ DrainsBare /\ NothingHeld
  BY <1>1 DEF DrainHasBase, DrainsBare, NothingHeld
<1>6. QED
  BY <1>4, <1>5 DEF QueueInv

\* The run moves on: nothing it holds changes.
LEMMA JobMoves ==
  ASSUME QueueInv, NEW pc \in {"list", "save"}, NEW forced \in BOOLEAN,
         job' = [job EXCEPT !.pc = pc, !.forced = forced],
         UNCHANGED <<cmd, overdue, base, disk, crashes>>, faults' \in 0 .. MaxFaults
  PROVE  QueueInv'
<1>1. job' \in [pc : {"idle", "due", "list", "drain", "save"}, forced : BOOLEAN,
                ids : SUBSET Commands]
      /\ job'.pc = pc /\ job'.ids = job.ids
  BY DEF QueueInv, TypeOK
<1>2. QED
  BY <1>1 DEF QueueInv, TypeOK, DrainHasBase, DrainsBare, NothingHeld

\* A command leaves the run, cancelled or not.
LEMMA OneLeaves ==
  ASSUME QueueInv, NEW c \in Commands, job.pc = "drain", job' = Left(c),
         cmd' = cmd \/ cmd' = [cmd EXCEPT ![c] = Absent],
         base' \in Counts, faults' \in 0 .. MaxFaults,
         UNCHANGED <<overdue, disk, crashes>>
  PROVE  QueueInv'
<1>1. job' \in [pc : {"idle", "due", "list", "drain", "save"}, forced : BOOLEAN,
                ids : SUBSET Commands]
      /\ job'.ids \subseteq job.ids \ {c} /\ job'.pc = "drain"
  BY DEF Left, QueueInv, TypeOK
<1>2. cmd' \in [Commands -> CommandStates]
      /\ \A d \in Commands \ {c} : cmd'[d] = cmd[d]
  BY DEF QueueInv, TypeOK, CommandStates
<1>3. base' \in Bases /\ base' # NoBase
  BY BasesAre
<1>4. TypeOK'
  BY <1>1, <1>2, <1>3 DEF QueueInv, TypeOK
<1>5. DrainsBare'
  BY <1>1, <1>2 DEF QueueInv, TypeOK, DrainsBare
<1>6. QED
  BY <1>1, <1>3, <1>4, <1>5 DEF QueueInv, DrainHasBase, NothingHeld

LEMMA FaultyIs == ASSUME QueueInv, Faulty PROVE faults' \in 0 .. MaxFaults
BY DEF Faulty, QueueInv, TypeOK

LEMMA BaseInDrain == ASSUME QueueInv, job.pc = "drain" PROVE base \in Counts
BY BasesAre DEF QueueInv, TypeOK, DrainHasBase

LEMMA JobStepInv == ASSUME QueueInv, JobStep PROVE QueueInv'
<1>1. CASE LookAtTasks
  <2>1. IsWedged \in BOOLEAN
    BY DEF IsWedged
  <2>2. QED
    BY <1>1, <2>1, JobMoves DEF LookAtTasks, bounds, QueueInv, TypeOK
<1>2. CASE TasksUnknown
  BY <1>2, JobMoves, FaultyIs DEF TasksUnknown
<1>3. CASE ListCommands
  <2>1. base' \in Counts /\ base' \in Bases /\ base' # NoBase
    BY <1>3, CountedCandidates, BasesAre DEF ListCommands, NextBase
  <2>2. UNCHANGED <<cmd, overdue, disk, faults, crashes>>
    BY <1>3 DEF ListCommands, bounds
  <2>3. Candidates \in SUBSET Commands
    BY DEF Candidates
  <2>4. CASE job' = [job EXCEPT !.pc = "drain", !.ids = Candidates]
    <3>1. job' \in [pc : {"idle", "due", "list", "drain", "save"}, forced : BOOLEAN,
                    ids : SUBSET Commands]
          /\ job'.ids = Candidates /\ job'.pc = "drain"
      BY <2>3, <2>4 DEF QueueInv, TypeOK
    <3>2. DrainsBare'
      BY <2>2, <3>1 DEF DrainsBare, Candidates
    <3>3. QED
      BY <2>1, <2>2, <3>1, <3>2 DEF QueueInv, TypeOK, DrainHasBase, NothingHeld
  <2>5. CASE job' = [job EXCEPT !.pc = "save"]
    <3>1. job' \in [pc : {"idle", "due", "list", "drain", "save"}, forced : BOOLEAN,
                    ids : SUBSET Commands]
          /\ job'.ids = job.ids /\ job'.pc = "save"
      BY <2>5 DEF QueueInv, TypeOK
    <3>2. QED
      BY <2>1, <2>2, <3>1 DEF QueueInv, TypeOK, DrainHasBase, DrainsBare, NothingHeld
  <2>6. QED
    BY <1>3, <2>4, <2>5 DEF ListCommands
<1>4. CASE ListFails
  <2>1. job' = [job EXCEPT !.pc = "save", !.forced = job.forced] /\ job.forced \in BOOLEAN
    BY <1>4 DEF ListFails, QueueInv, TypeOK
  <2>2. QED
    BY <1>4, <2>1, JobMoves, FaultyIs DEF ListFails
<1>5. ASSUME NEW c \in Commands, CancelCommand(c) PROVE QueueInv'
  BY <1>5, OneLeaves, BaseInDrain DEF CancelCommand, bounds, QueueInv, TypeOK
<1>6. ASSUME NEW c \in Commands, CancelRefused(c) PROVE QueueInv'
  BY <1>6, OneLeaves, BaseInDrain DEF CancelRefused, bounds, QueueInv, TypeOK
<1>7. ASSUME NEW c \in Commands, CancelFails(c) PROVE QueueInv'
  BY <1>7, OneLeaves, BaseInDrain, PostedOne, FaultyIs DEF CancelFails
<1>8. CASE DrainEnds
  <2>1. base' \in Counts
    BY <1>8, BaseInDrain, MaxType DEF DrainEnds, Counts
  <2>2. job' \in [pc : {"idle", "due", "list", "drain", "save"}, forced : BOOLEAN,
                  ids : SUBSET Commands]
        /\ job'.ids = job.ids /\ job'.pc = "save"
    BY <1>8 DEF DrainEnds, QueueInv, TypeOK
  <2>3. QED
    BY <1>8, <2>1, <2>2, BasesAre
       DEF DrainEnds, bounds, QueueInv, TypeOK, DrainHasBase, DrainsBare, NothingHeld
<1>9. CASE SaveState
  <2>1. job' = [pc |-> "idle", forced |-> FALSE, ids |-> {}]
    BY <1>9 DEF SaveState, Due
  <2>2. job' \in [pc : {"idle", "due", "list", "drain", "save"}, forced : BOOLEAN,
                  ids : SUBSET Commands]
        /\ job'.ids = {} /\ job'.pc = "idle"
    BY <2>1
  <2>3. QED
    BY <1>9, <2>2
       DEF SaveState, bounds, QueueInv, TypeOK, DrainHasBase, DrainsBare, NothingHeld
<1>10. QED
  BY <1>1, <1>2, <1>3, <1>4, <1>5, <1>6, <1>7, <1>8, <1>9 DEF JobStep

LEMMA RestartInv == ASSUME QueueInv, Restart PROVE QueueInv'
<1>1. job' = [pc |-> "due", forced |-> FALSE, ids |-> {}]
  BY DEF Restart, Due
<1>2. base' \in Bases /\ disk' \in Bases
  BY BasesAre DEF Restart, QueueInv, TypeOK
<1>3. QED
  BY <1>1, <1>2 DEF Restart, QueueInv, TypeOK, DrainHasBase, DrainsBare, NothingHeld

\* A command that is not to be cancelled changes.
LEMMA OtherCommand ==
  ASSUME QueueInv, NEW c \in Commands, NEW s \in CommandStates,
         c \notin job.ids \/ s.status # "queued",
         cmd' = [cmd EXCEPT ![c] = s],
         base' \in Bases, base # NoBase => base' # NoBase, disk' \in Bases,
         UNCHANGED <<overdue, job, bounds>>
  PROVE  QueueInv'
<1>1. cmd' \in [Commands -> CommandStates]
      /\ cmd'[c] = s /\ \A d \in Commands \ {c} : cmd'[d] = cmd[d]
  BY DEF QueueInv, TypeOK
<1>2. DrainsBare'
  BY <1>1 DEF QueueInv, TypeOK, DrainsBare
<1>3. QED
  BY <1>1, <1>2 DEF bounds, QueueInv, TypeOK, DrainHasBase, NothingHeld

LEMMA PostInv ==
  ASSUME QueueInv, NEW c \in Commands, NEW kind \in Kinds, Post(c, kind)
  PROVE  QueueInv'
<1> DEFINE s == [status |-> "queued", kind |-> kind, age |-> 0]
<1>1. s \in CommandStates
  BY DEF CommandStates
<1>2. ASSUME NEW b \in Bases
      PROVE  b # NoBase => /\ [b EXCEPT !.posted = AtMost(@ + 1, BurstCount)] \in Bases
                           /\ [b EXCEPT !.posted = AtMost(@ + 1, BurstCount)] # NoBase
  BY <1>2, BasesAre, PostedOne
<1>3. base \in Bases /\ disk \in Bases
  BY DEF QueueInv, TypeOK
<1>4. /\ base' \in Bases /\ disk' \in Bases
      /\ base # NoBase => base' # NoBase
  BY <1>2, <1>3 DEF Post
<1>5. QED
  BY <1>1, <1>4, OtherCommand DEF Post

LEMMA TickInv == ASSUME QueueInv, Tick PROVE QueueInv'
<1>1. job' \in [pc : {"idle", "due", "list", "drain", "save"}, forced : BOOLEAN,
                ids : SUBSET Commands]
      /\ job'.ids \subseteq job.ids /\ (job'.pc = "drain" => job.pc = "drain")
      /\ job'.pc # "idle"
  BY DEF Tick, Due, QueueInv, TypeOK
<1>2. \A c \in Commands : /\ cmd'[c] \in CommandStates
                          /\ cmd'[c].status = cmd[c].status /\ cmd'[c].kind = cmd[c].kind
  <2> SUFFICES ASSUME NEW c \in Commands
               PROVE  /\ cmd'[c] \in CommandStates
                      /\ cmd'[c].status = cmd[c].status /\ cmd'[c].kind = cmd[c].kind
    OBVIOUS
  <2>1. cmd[c] \in CommandStates
    BY DEF QueueInv, TypeOK
  <2>2. CASE c \in Candidates
    <3>1. cmd[c] \in [status : {"queued"}, kind : Kinds, age : 0 .. DrainAge]
      BY <2>1, <2>2, QueuedIs DEF Candidates
    <3>2. cmd[c].age \in 0 .. DrainAge
      BY <3>1
    <3>3. AtMost(cmd[c].age + 1, DrainAge) \in 0 .. DrainAge
      BY <3>2, CapIs
    <3>4. cmd'[c] = [cmd[c] EXCEPT !.age = AtMost(@ + 1, DrainAge)]
      BY <2>2 DEF Tick
    <3>5. QED
      BY <3>1, <3>3, <3>4 DEF CommandStates
  <2>3. CASE c \notin Candidates
    BY <2>1, <2>3 DEF Tick
  <2>4. QED
    BY <2>2, <2>3
<1>3. cmd' \in [Commands -> CommandStates]
  BY <1>2 DEF Tick
<1>4. base' \in Bases /\ disk' \in Bases /\ (base # NoBase => base' # NoBase)
  BY LaterIs DEF Tick, QueueInv, TypeOK
<1>5. overdue' \in 0 .. WedgeAfter
  BY CapIs DEF Tick, QueueInv, TypeOK
<1>6. TypeOK'
  BY <1>1, <1>3, <1>4, <1>5 DEF Tick, bounds, QueueInv, TypeOK
<1>7. DrainHasBase'
  BY <1>1, <1>4 DEF QueueInv, DrainHasBase
<1>8. DrainsBare'
  BY <1>1, <1>2 DEF QueueInv, TypeOK, DrainsBare
<1>9. QED
  BY <1>1, <1>6, <1>7, <1>8 DEF QueueInv, NothingHeld

LEMMA EnvironmentInv == ASSUME QueueInv, Environment PROVE QueueInv'
<1>1. CASE OtherSave
  BY <1>1 DEF OtherSave, bounds, QueueInv, TypeOK, DrainHasBase, DrainsBare, NothingHeld
<1>2. CASE Restart
  BY <1>2, RestartInv
<1>3. ASSUME NEW c \in Commands, NEW kind \in Kinds, Post(c, kind) PROVE QueueInv'
  BY <1>3, PostInv
<1>4. ASSUME NEW c \in Commands, Start(c) PROVE QueueInv'
  <2>1. Started \in CommandStates /\ Started.status # "queued"
    BY DEF CommandStates, Started
  <2>2. QED
    BY <1>4, <2>1, OtherCommand DEF Start, QueueInv, TypeOK
<1>5. ASSUME NEW c \in Commands, Finish(c) PROVE QueueInv'
  <2>1. Absent \in CommandStates /\ Absent.status # "queued"
    BY DEF CommandStates, Absent
  <2>2. QED
    BY <1>5, <2>1, OtherCommand DEF Finish, QueueInv, TypeOK
<1>6. CASE TaskRuns
  BY <1>6 DEF TaskRuns, bounds, QueueInv, TypeOK, DrainHasBase, DrainsBare, NothingHeld
<1>7. CASE Tick
  BY <1>7, TickInv
<1>8. QED
  BY <1>1, <1>2, <1>3, <1>4, <1>5, <1>6, <1>7 DEF Environment

LEMMA NextInv == QueueInv /\ [Next]_vars => QueueInv'
<1> SUFFICES ASSUME QueueInv, [Next]_vars PROVE QueueInv'
  OBVIOUS
<1>1. CASE Next
  BY <1>1, JobStepInv, EnvironmentInv DEF Next
<1>2. CASE UNCHANGED vars
  BY <1>2 DEF vars, bounds, QueueInv, TypeOK, DrainHasBase, DrainsBare, NothingHeld
<1>3. QED
  BY <1>1, <1>2

LEMMA Invariance == Spec => []QueueInv
BY InitQueueInv, NextInv, PTL DEF Spec

\* Every variable keeps its type, for any commands, thresholds and bounds.
THEOREM QueueTypeCorrect == Spec => []TypeOK
<1>1. QueueInv => TypeOK
  BY DEF QueueInv
<1>2. QED
  BY <1>1, Invariance, PTL

\* What leaves the run with a change was cancelled.
LEMMA CancelledIsBare ==
  ASSUME QueueInv, Next, NEW c \in job.ids \ job'.ids, cmd'[c] # cmd[c]
  PROVE  cmd[c].status = "queued" /\ cmd[c].kind # "other"
<1>1. c \in Commands /\ cmd \in [Commands -> CommandStates]
  BY DEF QueueInv, TypeOK
<1>2. CASE UNCHANGED cmd
  BY <1>2
<1>3. CASE UNCHANGED job
  BY <1>3
<1>4. ASSUME NEW d \in Commands, CancelCommand(d)
      PROVE  cmd[c].status = "queued" /\ cmd[c].kind # "other"
  <2>1. c = d
    BY <1>1, <1>4 DEF CancelCommand
  <2>2. cmd[c].status = "queued" /\ c \in job.ids
    BY <1>4, <2>1 DEF CancelCommand
  <2>3. QED
    BY <2>2 DEF QueueInv, DrainsBare, BareSearches
<1>5. CASE Tick
  <2>1. UNCHANGED job \/ job.pc = "idle"
    BY <1>5 DEF Tick
  <2>2. QED
    BY <1>3, <2>1 DEF QueueInv, NothingHeld
<1>6. QED
  BY <1>2, <1>3, <1>4, <1>5
     DEF Next, JobStep, Environment, LookAtTasks, TasksUnknown, ListCommands, ListFails,
         CancelRefused, CancelFails, DrainEnds, SaveState, OtherSave, Restart, Post, Start,
         Finish, TaskRuns

\* A drain cancels only what is still queued and was posted as a search without a
\* trigger, for any commands, thresholds and bounds, however old its listing is;
\* _drain_batch, _classify.
THEOREM DrainsOnlyBareSearches == Spec => OnlyBareSearches
<1>1. QueueInv /\ [Next]_vars =>
        [\A c \in job.ids \ job'.ids :
           cmd'[c] # cmd[c] => cmd[c].status = "queued" /\ cmd[c].kind # "other"]_vars
  BY CancelledIsBare
<1>2. QED
  BY <1>1, Invariance, PTL DEF Spec, OnlyBareSearches

-----------------------------------------------------------------------------
(* The burst detector *)

\* The searches that are queued beyond a count were posted since, or left by a drain.
Explains(b) ==
    b # NoBase /\ b.posted < BurstCount => Cardinality(Candidates) <= b.count + b.posted

\* While a drain lasts the queued searches it does not hold were posted since, or are
\* those it could not cancel: at its end nothing else is left to count from zero.
DrainExplains ==
    job.pc = "drain" /\ base.posted < BurstCount =>
        Cardinality(Candidates \ job.ids) <= base.posted

BurstInv == QueueInv /\ Explains(base) /\ Explains(disk) /\ DrainExplains

LEMMA CandidatesFinite ==
    /\ IsFiniteSet(Candidates) /\ Cardinality(Candidates) \in Nat
    /\ Candidates \subseteq Commands
<1>1. Candidates \subseteq Commands
  BY DEF Candidates
<1>2. QED
  BY <1>1, CommandsAssumption, FS_Subset, FS_CardinalityType

LEMMA FewerAre ==
    ASSUME NEW S, IsFiniteSet(S), NEW T, T \subseteq S
    PROVE  /\ IsFiniteSet(T) /\ Cardinality(T) \in Nat /\ Cardinality(S) \in Nat
           /\ Cardinality(T) <= Cardinality(S)
BY FS_Subset, FS_CardinalityType

LEMMA OneMore ==
    ASSUME NEW S, IsFiniteSet(S), NEW T, NEW c, T \subseteq S \cup {c}
    PROVE  /\ Cardinality(T) \in Nat /\ Cardinality(S) \in Nat
           /\ Cardinality(T) <= Cardinality(S) + 1
<1>1. IsFiniteSet(S \cup {c}) /\ Cardinality(S \cup {c}) <= Cardinality(S) + 1
  <2>1. IsFiniteSet(S \cup {c}) /\ Cardinality(S) \in Nat
    BY FS_AddElement, FS_CardinalityType
  <2>2. CASE c \in S
    <3>1. Cardinality(S \cup {c}) = Cardinality(S)
      BY <2>2, FS_AddElement
    <3>2. QED
      BY <2>1, <3>1
  <2>3. CASE c \notin S
    BY <2>1, <2>3, FS_AddElement
  <2>4. QED
    BY <2>1, <2>2, <2>3
<1>2. Cardinality(S \cup {c}) \in Nat /\ Cardinality(S) \in Nat
  BY <1>1, FS_CardinalityType
<1>3. QED
  BY <1>1, <1>2, FewerAre

Posted(b) == [b EXCEPT !.posted = AtMost(@ + 1, BurstCount)]

LEMMA PostedIs ==
    ASSUME NEW b \in Counts
    PROVE  /\ b.count \in Nat /\ b.posted \in Nat
           /\ Posted(b).count = b.count
           /\ Posted(b).posted < BurstCount =>
                 b.posted < BurstCount /\ Posted(b).posted = b.posted + 1
<1>1. b.count \in Nat /\ b.posted \in 0 .. BurstCount
  BY MaxType DEF Counts
<1>2. Posted(b).count = b.count /\ Posted(b).posted = AtMost(b.posted + 1, BurstCount)
  BY DEF Posted, Counts
<1>3. QED
  BY <1>1, <1>2 DEF AtMost

LEMMA LaterKeeps ==
    ASSUME NEW b \in Bases
    PROVE  /\ Later(b) # NoBase => b # NoBase
           /\ b # NoBase => Later(b).count = b.count /\ Later(b).posted = b.posted
<1>1. b # NoBase => b \in Counts
  BY BasesAre
<1>2. QED
  BY <1>1 DEF Later, Counts

LEMMA BasesTyped == QueueInv => base \in Bases /\ disk \in Bases
BY DEF QueueInv, TypeOK

\* What was explained stays so while no search is posted, and as commands are.
LEMMA StillExplains ==
    ASSUME NEW b \in Bases, Explains(b), Candidates' \subseteq Candidates
    PROVE  b # NoBase /\ b.posted < BurstCount => Cardinality(Candidates') <= b.count + b.posted
<1>1. /\ Cardinality(Candidates') <= Cardinality(Candidates)
      /\ Cardinality(Candidates') \in Nat /\ Cardinality(Candidates) \in Nat
  BY CandidatesFinite, FewerAre
<1>2. b # NoBase => b.count \in Nat /\ b.posted \in Nat
  BY BasesAre, PostedIs
<1>3. QED
  BY <1>1, <1>2 DEF Explains

LEMMA PostExplains ==
    ASSUME NEW b \in Bases, Explains(b), NEW c, Candidates' \subseteq Candidates \cup {c},
           b # NoBase, Posted(b).posted < BurstCount
    PROVE  Cardinality(Candidates') <= Posted(b).count + Posted(b).posted
<1>1. /\ Cardinality(Candidates') <= Cardinality(Candidates) + 1
      /\ Cardinality(Candidates') \in Nat /\ Cardinality(Candidates) \in Nat
  BY CandidatesFinite, OneMore
<1>2. /\ b.count \in Nat /\ b.posted \in Nat /\ b.posted < BurstCount
      /\ Posted(b).count = b.count /\ Posted(b).posted = b.posted + 1
  BY BasesAre, PostedIs
<1>3. QED
  BY <1>1, <1>2 DEF Explains

LEMMA InitBurst == Init => BurstInv
<1> SUFFICES ASSUME Init PROVE BurstInv
  OBVIOUS
<1>1. job.pc = "due"
  BY DEF Init, Due
<1>2. QED
  BY <1>1, InitQueueInv DEF Init, BurstInv, Explains, DrainExplains

\* Steps outside a drain that post nothing and keep the counts.
LEMMA CountsKept ==
    ASSUME BurstInv, Candidates' \subseteq Candidates, base' \in {base, disk, NoBase},
           disk' \in {base, disk, NoBase},
           job'.pc = "drain" => UNCHANGED <<base, job>>
    PROVE  Explains(base)' /\ Explains(disk)' /\ DrainExplains'
<1>1. /\ base \in Bases /\ disk \in Bases /\ Explains(base) /\ Explains(disk)
  BY BasesTyped DEF BurstInv
<1>2. Explains(base)' /\ Explains(disk)'
  <2>1. \A b \in {base, disk, NoBase} :
           b # NoBase /\ b.posted < BurstCount => Cardinality(Candidates') <= b.count + b.posted
    BY <1>1, StillExplains
  <2>2. QED
    BY <2>1 DEF Explains
<1>3. ASSUME job'.pc = "drain", base'.posted < BurstCount
      PROVE  Cardinality(Candidates' \ job'.ids) <= base'.posted
  <2>1. Candidates' \ job'.ids \subseteq Candidates \ job.ids /\ IsFiniteSet(Candidates \ job.ids)
    BY <1>3, CandidatesFinite, FewerAre
  <2>2. /\ Cardinality(Candidates' \ job'.ids) \in Nat /\ Cardinality(Candidates \ job.ids) \in Nat
        /\ Cardinality(Candidates' \ job'.ids) <= Cardinality(Candidates \ job.ids)
    BY <2>1, FewerAre
  <2>3. Cardinality(Candidates \ job.ids) <= base.posted /\ base'.posted = base.posted
    BY <1>3 DEF BurstInv, DrainExplains
  <2>4. base.posted \in Nat
    BY <1>3, BaseInDrain, PostedIs DEF BurstInv
  <2>5. QED
    BY <2>2, <2>3, <2>4
<1>4. QED
  BY <1>2, <1>3 DEF DrainExplains

LEMMA ListBurst == ASSUME BurstInv, ListCommands PROVE Explains(base)' /\ Explains(disk)' /\ DrainExplains'
<1>1. Candidates' = Candidates /\ disk' = disk
  BY DEF ListCommands, Candidates
<1>2. base' = [count |-> Cardinality(Candidates), since |-> 0, posted |-> 0]
  BY DEF ListCommands, NextBase, Counted
<1>3. Explains(base)'
  BY <1>1, <1>2, CandidatesFinite DEF Explains
<1>4. Explains(disk)'
  BY <1>1 DEF BurstInv, Explains
<1>5. DrainExplains'
  <2>1. job'.pc = "drain" => job'.ids = Candidates
    BY DEF ListCommands, BurstInv, QueueInv, TypeOK
  <2>2. QED
    BY <1>1, <1>2, <2>1, FS_EmptySet DEF DrainExplains
<1>6. QED
  BY <1>3, <1>4, <1>5

LEMMA LeftIs ==
    ASSUME QueueInv, NEW c, job' = Left(c)
    PROVE  job'.ids = job.ids \ {c} /\ job'.pc = job.pc
BY DEF Left, QueueInv, TypeOK

\* A command that is cancelled leaves the queue and the drain; one that is refused
\* had left the queue.
LEMMA CancelBurst ==
    ASSUME BurstInv, NEW c \in Commands, CancelCommand(c) \/ CancelRefused(c)
    PROVE  Explains(base)' /\ Explains(disk)' /\ DrainExplains'
<1>1. QueueInv /\ base \in Bases /\ disk \in Bases /\ Explains(base) /\ Explains(disk)
  BY BasesTyped DEF BurstInv
<1>2. /\ job.pc = "drain" /\ UNCHANGED <<base, disk>>
      /\ job'.ids = job.ids \ {c} /\ job'.pc = "drain"
  BY <1>1, LeftIs DEF CancelCommand, CancelRefused
<1>3. Candidates' \subseteq Candidates \ {c}
  <2>1. CASE CancelCommand(c)
    BY <1>1, <2>1 DEF CancelCommand, Candidates, Absent, QueueInv, TypeOK
  <2>2. CASE CancelRefused(c)
    BY <2>2 DEF CancelRefused, Candidates
  <2>3. QED
    BY <2>1, <2>2
<1>4. Explains(base)' /\ Explains(disk)'
  BY <1>1, <1>2, <1>3, StillExplains DEF Explains
<1>5. DrainExplains'
  <2>1. Candidates' \ job'.ids \subseteq Candidates \ job.ids /\ IsFiniteSet(Candidates \ job.ids)
    BY <1>2, <1>3, CandidatesFinite, FewerAre
  <2>2. /\ Cardinality(Candidates' \ job'.ids) \in Nat /\ Cardinality(Candidates \ job.ids) \in Nat
        /\ Cardinality(Candidates' \ job'.ids) <= Cardinality(Candidates \ job.ids)
    BY <2>1, FewerAre
  <2>3. base.posted \in Nat
    BY <1>1, <1>2, BaseInDrain, PostedIs
  <2>4. QED
    BY <1>2, <2>2, <2>3 DEF BurstInv, DrainExplains
<1>6. QED
  BY <1>4, <1>5

\* What could not be cancelled counts as posted.
LEMMA CancelFailsBurst ==
    ASSUME BurstInv, NEW c \in Commands, CancelFails(c)
    PROVE  Explains(base)' /\ Explains(disk)' /\ DrainExplains'
<1>1. QueueInv /\ base \in Bases /\ disk \in Bases /\ Explains(base) /\ Explains(disk)
  BY BasesTyped DEF BurstInv
<1>2. /\ job.pc = "drain" /\ base' = Posted(base) /\ UNCHANGED <<cmd, disk>>
      /\ job'.ids = job.ids \ {c} /\ job'.pc = "drain"
  BY <1>1, LeftIs DEF CancelFails, Posted
<1>3. base \in Counts /\ base # NoBase /\ Candidates' = Candidates
  BY <1>1, <1>2, BaseInDrain, BasesAre DEF Candidates
<1>4. Explains(base)' /\ Explains(disk)'
  BY <1>1, <1>2, <1>3, PostExplains DEF Explains
<1>5. DrainExplains'
  <2>1. Candidates' \ job'.ids \subseteq (Candidates \ job.ids) \cup {c}
        /\ IsFiniteSet(Candidates \ job.ids)
    BY <1>2, <1>3, CandidatesFinite, FewerAre
  <2>2. /\ Cardinality(Candidates' \ job'.ids) \in Nat /\ Cardinality(Candidates \ job.ids) \in Nat
        /\ Cardinality(Candidates' \ job'.ids) <= Cardinality(Candidates \ job.ids) + 1
    BY <2>1, OneMore
  <2>3. base.posted \in Nat /\ (base'.posted < BurstCount =>
          base.posted < BurstCount /\ base'.posted = base.posted + 1)
    BY <1>2, <1>3, PostedIs
  <2>4. QED
    BY <1>2, <2>2, <2>3 DEF BurstInv, DrainExplains
<1>6. QED
  BY <1>4, <1>5

\* All that is left at the end of a drain was posted since its listing.
LEMMA DrainEndsBurst ==
    ASSUME BurstInv, DrainEnds
    PROVE  Explains(base)' /\ Explains(disk)' /\ DrainExplains'
<1>1. Candidates' = Candidates /\ disk' = disk /\ job'.pc = "save"
  BY DEF DrainEnds, Candidates, BurstInv, QueueInv, TypeOK
<1>2. base \in Counts /\ job.pc = "drain" /\ Candidates \ job.ids = Candidates
  BY BaseInDrain DEF DrainEnds, BurstInv
<1>3. base'.count = 0 /\ base'.posted = base.posted /\ base.posted \in Nat
  BY <1>2, PostedIs DEF DrainEnds, Counts
<1>4. Explains(base)'
  <2>1. base.posted < BurstCount => Cardinality(Candidates) <= base.posted
    BY <1>2 DEF BurstInv, DrainExplains
  <2>2. QED
    BY <1>1, <1>3, <2>1, CandidatesFinite DEF Explains
<1>5. QED
  BY <1>1, <1>4 DEF BurstInv, Explains, DrainExplains

LEMMA PostBurst ==
    ASSUME BurstInv, NEW c \in Commands, NEW kind \in Kinds, Post(c, kind)
    PROVE  Explains(base)' /\ Explains(disk)' /\ DrainExplains'
<1>1. QueueInv /\ base \in Bases /\ disk \in Bases /\ Explains(base) /\ Explains(disk)
  BY BasesTyped DEF BurstInv
<1>2. job' = job /\ c \notin job.ids
  BY DEF Post
<1>3. Candidates' \subseteq Candidates \cup {c}
  BY <1>1 DEF Post, Candidates, QueueInv, TypeOK
<1>4. CASE kind \notin BareSearches
  <2>1. Candidates' \subseteq Candidates
    BY <1>1, <1>4 DEF Post, Candidates, QueueInv, TypeOK
  <2>2. UNCHANGED <<base, disk>>
    BY <1>4 DEF Post
  <2>3. QED
    BY <1>2, <2>1, <2>2, CountsKept
<1>5. CASE kind \in BareSearches
  <2>1. /\ base' = IF base = NoBase THEN base ELSE Posted(base)
        /\ disk' = IF disk = NoBase THEN disk ELSE Posted(disk)
    BY <1>5 DEF Post, Posted
  <2>2. Explains(base)' /\ Explains(disk)'
    BY <1>1, <1>3, <2>1, PostExplains DEF Explains
  <2>3. ASSUME job.pc = "drain", base'.posted < BurstCount
        PROVE  Cardinality(Candidates' \ job.ids) <= base'.posted
    <3>1. Candidates' \ job.ids \subseteq (Candidates \ job.ids) \cup {c}
          /\ IsFiniteSet(Candidates \ job.ids)
      BY <1>3, CandidatesFinite, FewerAre
    <3>2. /\ Cardinality(Candidates' \ job.ids) \in Nat /\ Cardinality(Candidates \ job.ids) \in Nat
          /\ Cardinality(Candidates' \ job.ids) <= Cardinality(Candidates \ job.ids) + 1
      BY <3>1, OneMore
    <3>3. base \in Counts /\ base' = Posted(base)
      BY <1>1, <2>1, <2>3, BaseInDrain, BasesAre
    <3>4. base.posted \in Nat /\ base.posted < BurstCount /\ base'.posted = base.posted + 1
      BY <2>3, <3>3, PostedIs
    <3>5. QED
      BY <2>3, <3>2, <3>4 DEF BurstInv, DrainExplains
  <2>4. QED
    BY <1>2, <2>2, <2>3 DEF DrainExplains
<1>6. QED
  BY <1>4, <1>5

LEMMA TickBurst == ASSUME BurstInv, Tick PROVE Explains(base)' /\ Explains(disk)' /\ DrainExplains'
<1>1. QueueInv /\ base \in Bases /\ disk \in Bases /\ Explains(base) /\ Explains(disk)
  BY BasesTyped DEF BurstInv
<1>2. Candidates' \subseteq Candidates
  <2>1. \A c \in Commands : c \notin Candidates => cmd'[c] = cmd[c]
    BY DEF Tick
  <2>2. QED
    BY <2>1 DEF Candidates
<1>3. base' = Later(base) /\ disk' = Later(disk)
  BY DEF Tick
<1>4. Explains(base)' /\ Explains(disk)'
  BY <1>1, <1>2, <1>3, StillExplains, LaterKeeps DEF Explains
<1>5. ASSUME job'.pc = "drain", base'.posted < BurstCount
      PROVE  Cardinality(Candidates' \ job'.ids) <= base'.posted
  <2>1. job' = job /\ job.pc = "drain"
    BY <1>5 DEF Tick, Due
  <2>2. base \in Counts /\ base'.posted = base.posted /\ base.posted \in Nat
    BY <1>1, <1>3, <2>1, BaseInDrain, BasesAre, LaterKeeps, PostedIs
  <2>3. Candidates' \ job'.ids \subseteq Candidates \ job.ids /\ IsFiniteSet(Candidates \ job.ids)
    BY <1>2, <2>1, CandidatesFinite, FewerAre
  <2>4. /\ Cardinality(Candidates' \ job'.ids) \in Nat /\ Cardinality(Candidates \ job.ids) \in Nat
        /\ Cardinality(Candidates' \ job'.ids) <= Cardinality(Candidates \ job.ids)
    BY <2>3, FewerAre
  <2>5. QED
    BY <1>5, <2>1, <2>2, <2>4 DEF BurstInv, DrainExplains
<1>6. QED
  BY <1>4, <1>5 DEF DrainExplains

\* The steps that neither count nor drain.
LEMMA OtherBurst ==
    ASSUME BurstInv,
           \/ LookAtTasks \/ TasksUnknown \/ ListFails \/ SaveState
           \/ OtherSave \/ Restart \/ TaskRuns \/ UNCHANGED vars
           \/ \E c \in Commands : Start(c) \/ Finish(c)
    PROVE  Explains(base)' /\ Explains(disk)' /\ DrainExplains'
<1>1. Candidates' \subseteq Candidates
  <2>1. CASE UNCHANGED cmd
    BY <2>1 DEF Candidates
  <2>2. ASSUME NEW c \in Commands, Start(c) \/ Finish(c) PROVE Candidates' \subseteq Candidates
    BY <2>2 DEF Start, Finish, Candidates, Started, Absent, BurstInv, QueueInv, TypeOK
  <2>3. QED
    BY <2>1, <2>2
       DEF LookAtTasks, TasksUnknown, ListFails, SaveState, OtherSave, Restart, TaskRuns, vars
<1>2. base' \in {base, disk, NoBase} /\ disk' \in {base, disk, NoBase}
  BY DEF LookAtTasks, TasksUnknown, ListFails, SaveState, OtherSave, Restart, TaskRuns, vars,
         Start, Finish
<1>3. job'.pc = "drain" => UNCHANGED <<base, job>>
  <2>1. CASE LookAtTasks \/ TasksUnknown \/ ListFails \/ SaveState \/ Restart
    <3>1. job \in [pc : {"idle", "due", "list", "drain", "save"}, forced : BOOLEAN,
                   ids : SUBSET Commands]
      BY DEF BurstInv, QueueInv, TypeOK
    <3>2. CASE LookAtTasks \/ TasksUnknown \/ ListFails
      BY <3>1, <3>2 DEF LookAtTasks, TasksUnknown, ListFails
    <3>3. CASE SaveState \/ Restart
      BY <3>3 DEF SaveState, Restart, Due
    <3>4. QED
      BY <2>1, <3>2, <3>3
  <2>2. QED
    BY <2>1 DEF OtherSave, TaskRuns, vars, Start, Finish
<1>4. QED
  BY <1>1, <1>2, <1>3, CountsKept

LEMMA NextBurst == BurstInv /\ [Next]_vars => BurstInv'
<1> SUFFICES ASSUME BurstInv, [Next]_vars PROVE BurstInv'
  OBVIOUS
<1>1. QueueInv'
  BY NextInv DEF BurstInv
<1>2. Explains(base)' /\ Explains(disk)' /\ DrainExplains'
  BY ListBurst, CancelBurst, CancelFailsBurst, DrainEndsBurst, PostBurst, TickBurst, OtherBurst
     DEF Next, JobStep, Environment
<1>3. QED
  BY <1>1, <1>2 DEF BurstInv

LEMMA BurstStep ==
    ASSUME BurstInv, BurstDetected
    PROVE  base.posted >= BurstCount
<1>1. base \in Counts /\ base # NoBase
  BY BasesTyped, BasesAre DEF BurstInv, BurstDetected
<1>2. base.count \in Nat /\ base.posted \in Nat /\ Cardinality(Candidates) \in Nat
  BY <1>1, PostedIs, CandidatesFinite
<1>3. Cardinality(Candidates) - base.count >= BurstCount
  BY DEF BurstDetected
<1>4. base.posted < BurstCount => Cardinality(Candidates) <= base.count + base.posted
  BY <1>1 DEF BurstInv, Explains
<1>5. QED
  BY <1>2, <1>3, <1>4

\* A burst is found only if BurstCount searches were posted, or left by a drain that
\* failed, since the count it compares with was taken, for any commands, thresholds
\* and bounds, whatever fails and wherever docktarr is restarted: the count is
\* kept by _load_previous_burst_state and _save_previous_burst_state.
THEOREM BurstsAreReal == Spec => BurstIsReal
<1>1. BurstInv /\ [Next]_vars =>
        [job.pc = "list" /\ job'.pc = "drain" /\ BurstDetected => base.posted >= BurstCount]_vars
  BY BurstStep
<1>2. QED
  BY InitBurst, NextBurst, <1>1, PTL DEF Spec, BurstIsReal

=============================================================================
