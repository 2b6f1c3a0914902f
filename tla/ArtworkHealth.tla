--------------------------- MODULE ArtworkHealth ---------------------------
(***************************************************************************)
(* artwork_health of one service (services share no entry of               *)
(* ArtworkHealthState): the XbmcMetadata consumer is read, enabled again   *)
(* if it is not, its image toggles are looked at, and the artwork files of *)
(* the recent items are probed.  Between two awaits the operator edits the *)
(* consumer, files go and the arr refreshes items.                         *)
(***************************************************************************)
EXTENDS Integers

CONSTANTS
    Items,            \* the recent items
    ArtDebounce,      \* debounce
    AutoRefresh,      \* presence_auto_refresh
    MaxArtEdits,      \* bound: edits of the consumer and losses of artwork
    MaxArtFaults      \* bound: requests and probes that fail

ASSUME ArtConfigAssumption == ArtDebounce \in Nat \ {0} /\ AutoRefresh \in BOOLEAN
ASSUME ArtBoundsAssumption == MaxArtEdits \in Nat /\ MaxArtFaults \in Nat

VARIABLES
    consumer,      \* the XbmcMetadata consumer, as the service has it
    noArtwork,     \* the items without their artwork files
    refreshing,    \* the items of the refresh commands the arr has not run
    artPc,
    held,          \* the consumer as read: what is written back
    toProbe,       \* items still to be probed
    foundMissing,  \* missing_ids
    breachTicks,   \* ArtworkHealthState.breach_ticks
    told,          \* history: alerts since the condition last ceased to hold
    artEdits, artFaults

artWorld == <<consumer, noArtwork, refreshing>>
artRun == <<artPc, held, toProbe, foundMissing>>
artVars == <<artWorld, artRun, breachTicks, told, artEdits, artFaults>>

Consumers == [present : BOOLEAN, enable : BOOLEAN, images : BOOLEAN]
Signals == {"consumer_disabled", "images_disabled", "artwork_missing"}
ConsumerSignals == Signals \ {"artwork_missing"}

ArtTypeOK ==
    /\ consumer \in Consumers
    /\ noArtwork \in SUBSET Items
    /\ refreshing \in SUBSET Items
    /\ artPc \in {"idle", "heal", "list", "probe", "refresh"}
    /\ held \in Consumers
    /\ toProbe \in SUBSET Items
    /\ foundMissing \in SUBSET Items
    /\ breachTicks \in [Signals -> 0 .. ArtDebounce + 1]
    /\ told \in [ConsumerSignals -> 0 .. 2]
    /\ artEdits \in 0 .. MaxArtEdits
    /\ artFaults \in 0 .. MaxArtFaults

ArtInit ==
    /\ consumer = [present |-> TRUE, enable |-> TRUE, images |-> TRUE]
    /\ noArtwork = {}
    /\ refreshing = {}
    /\ artPc = "idle"
    /\ held = consumer
    /\ toProbe = {}
    /\ foundMissing = {}
    /\ breachTicks = [s \in Signals |-> 0]
    /\ told = [s \in ConsumerSignals |-> 0]
    /\ artEdits = 0
    /\ artFaults = 0

ArtFault == artFaults < MaxArtFaults /\ artFaults' = artFaults + 1

-----------------------------------------------------------------------------
(* ArtworkHealthState.note.  Counts past the threshold are alike.              *)

NextCount(s) == IF breachTicks[s] > ArtDebounce THEN breachTicks[s] ELSE breachTicks[s] + 1

FiresOn(s) == NextCount(s) >= ArtDebounce

Fires(s) == NextCount(s) = ArtDebounce

\* A condition that the service does not meet any more can be told of again.
Ceased(c) ==
    (IF c.present /\ c.enable THEN {"consumer_disabled"} ELSE {})
      \cup (IF c.images THEN {"images_disabled"} ELSE {})

\* The counters once the conditions of breaching have been noted to hold and those
\* of cleared not to, and the alerts this makes.
Note(breaching, cleared) ==
    /\ breachTicks' = [s \in Signals |-> IF s \in breaching THEN NextCount(s)
                                         ELSE IF s \in cleared THEN 0 ELSE breachTicks[s]]
    /\ told' = [s \in ConsumerSignals |->
                  IF s \in Ceased(consumer') THEN 0
                  ELSE IF s \in breaching /\ Fires(s) /\ told[s] < 2 THEN told[s] + 1
                  ELSE told[s]]

\* The check of the image toggles of a consumer that is enabled.
ImagesOff(c) == IF c.images THEN {} ELSE {"images_disabled"}
ImagesOn(c) == IF c.images THEN {"images_disabled"} ELSE {}

-----------------------------------------------------------------------------
(* _check_service *)

ReadAbsent ==
    /\ artPc = "idle" /\ ~consumer.present
    /\ UNCHANGED <<artWorld, artRun, artEdits, artFaults>>
    /\ Note({"consumer_disabled"}, {})

HealOnAlert ==
    /\ artPc = "idle" /\ consumer.present /\ ~consumer.enable
    /\ held' = consumer
    /\ artPc' = IF Fires("consumer_disabled") THEN "heal" ELSE "list"
    /\ UNCHANGED <<artWorld, toProbe, foundMissing, artEdits, artFaults>>
    /\ Note({"consumer_disabled"}, {})

ReadDisabled ==
    /\ artPc = "idle" /\ consumer.present /\ ~consumer.enable
    /\ held' = consumer
    /\ artPc' = "heal"
    /\ UNCHANGED <<artWorld, toProbe, foundMissing, artEdits, artFaults>>
    /\ Note({"consumer_disabled"}, {})

ReadEnabled ==
    /\ artPc = "idle" /\ consumer.present /\ consumer.enable
    /\ held' = consumer
    /\ artPc' = "list"
    /\ UNCHANGED <<artWorld, toProbe, foundMissing, artEdits, artFaults>>
    /\ Note(ImagesOff(consumer), {"consumer_disabled"} \cup ImagesOn(consumer))

ReadFails ==
    /\ artPc = "idle"
    /\ ArtFault
    /\ UNCHANGED <<artWorld, artRun, breachTicks, told, artEdits>>

\* What the PUT makes of the service: the whole consumer as it was read, enabled.
WriteBack == consumer' = [held EXCEPT !.enable = TRUE]

PutConsumer ==
    /\ artPc = "heal" /\ consumer.present
    /\ WriteBack
    /\ Note(ImagesOff(held), {"consumer_disabled"} \cup ImagesOn(held))
    /\ artPc' = "list"
    /\ UNCHANGED <<noArtwork, refreshing, held, toProbe, foundMissing, artEdits, artFaults>>

\* Not answered, applied or not; or the consumer is not there any more.  Nothing is
\* noted and the image toggles are not looked at.
PutFails ==
    /\ artPc = "heal"
    /\ \/ ~consumer.present /\ UNCHANGED <<consumer, artFaults>>
       \/ ArtFault /\ UNCHANGED consumer
       \/ consumer.present /\ ArtFault /\ WriteBack
    /\ Note({}, {})
    /\ artPc' = "list"
    /\ UNCHANGED <<noArtwork, refreshing, held, toProbe, foundMissing, artEdits>>

\* A listing that fails is an empty one.
ListItems ==
    /\ artPc = "list"
    /\ \/ toProbe' = Items /\ UNCHANGED artFaults
       \/ toProbe' = {} /\ ArtFault
    /\ foundMissing' = {}
    /\ artPc' = "probe"
    /\ UNCHANGED <<artWorld, held, breachTicks, told, artEdits>>

\* An item whose probe fails is passed over.
ProbeItem ==
    /\ artPc = "probe"
    /\ \E i \in toProbe :
         /\ toProbe' = toProbe \ {i}
         /\ \/ foundMissing' = foundMissing \cup ({i} \cap noArtwork) /\ UNCHANGED artFaults
            \/ ArtFault /\ UNCHANGED foundMissing
    /\ UNCHANGED <<artWorld, artPc, held, breachTicks, told, artEdits>>

RefreshOnAlert == AutoRefresh /\ foundMissing # {} /\ Fires("artwork_missing")

\* The alert is sent once, the refresh asked for on every tick.
RefreshDue == AutoRefresh /\ foundMissing # {}

EndProbe ==
    /\ artPc = "probe" /\ toProbe = {}
    /\ artPc' = IF RefreshDue THEN "refresh" ELSE "idle"
    /\ UNCHANGED <<artWorld, held, toProbe, foundMissing, artEdits, artFaults>>
    /\ IF foundMissing # {} THEN Note({"artwork_missing"}, {}) ELSE Note({}, {"artwork_missing"})

TriggerRefresh ==
    /\ artPc = "refresh"
    /\ \/ refreshing' = refreshing \cup foundMissing /\ UNCHANGED artFaults
       \/ ArtFault /\ UNCHANGED refreshing
    /\ artPc' = "idle"
    /\ UNCHANGED <<consumer, noArtwork, held, toProbe, foundMissing, breachTicks, told, artEdits>>

-----------------------------------------------------------------------------
(* The service and its operator *)

RefreshRuns ==
    /\ refreshing # {}
    /\ refreshing' = {}
    /\ noArtwork' = IF consumer.present /\ consumer.enable /\ consumer.images
                    THEN noArtwork \ refreshing ELSE noArtwork
    /\ UNCHANGED <<consumer, artRun, breachTicks, told, artEdits, artFaults>>

ArtEdit == artEdits < MaxArtEdits /\ artEdits' = artEdits + 1

EditConsumer ==
    /\ ArtEdit
    /\ consumer' \in Consumers \ {consumer}
    /\ Note({}, {})
    /\ UNCHANGED <<noArtwork, refreshing, artRun, artFaults>>

LoseArtwork ==
    /\ ArtEdit
    /\ \E i \in Items \ noArtwork : noArtwork' = noArtwork \cup {i}
    /\ UNCHANGED <<consumer, refreshing, artRun, breachTicks, told, artFaults>>

ArtTick ==
    \/ ReadAbsent
    \/ ReadDisabled
    \/ ReadEnabled
    \/ ReadFails
    \/ PutConsumer
    \/ PutFails
    \/ ListItems
    \/ ProbeItem
    \/ EndProbe
    \/ TriggerRefresh

ArtNext ==
    \/ ArtTick
    \/ RefreshRuns
    \/ EditConsumer
    \/ LoseArtwork

ArtSpec == ArtInit /\ [][ArtNext]_artVars

\* The job runs again and again; the arr runs the commands it is given.
ArtFairSpec == ArtSpec /\ WF_artVars(ArtTick) /\ WF_artVars(RefreshRuns)

-----------------------------------------------------------------------------
(* Properties *)

\* A condition of the consumer is alerted for once for as long as it holds in the
\* service, although enabling it may fail, the answer may be lost and it may go
\* from disabled to absent; _find_xbmc_consumer, note.
ConsumerAlertOnce == \A s \in ConsumerSignals : told[s] <= 1

\* A consumer does not stay disabled, whatever fails for a while (auto_heal).
ConsumerHealed == []<>(consumer.present => consumer.enable)

\* Artwork that is lost is written again: a refresh that fails is asked for again,
\* long after the alert was given (presence_auto_refresh).
ArtworkComesBack ==
    \A i \in Items :
        []<>(i \notin noArtwork \/ ~AutoRefresh \/ ~consumer.present \/ ~consumer.images)

=============================================================================
