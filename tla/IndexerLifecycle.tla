-------------------------- MODULE IndexerLifecycle --------------------------
(***************************************************************************)
(* The life of a Prowlarr indexer under docktarr: discovery adds public    *)
(* definitions as disabled candidates, the tester promotes, degrades and   *)
(* recovers them, the pruner deletes those that stay degraded, and a       *)
(* restart rebuilds the in-memory store from /config/state.json and from   *)
(* Prowlarr.                                                               *)
(*                                                                         *)
(* The three jobs are coroutines of one asyncio loop, each with at most    *)
(* one instance (APScheduler's max_instances = 1), so a step of a job is   *)
(* the code between two awaits.  A request is split where the interleaving *)
(* matters: Prowlarr serves it in one step, the job consumes the reply in  *)
(* a later one, and the other jobs and the user run in between.            *)
(*                                                                         *)
(* StateStore hands out references, not copies: all() and get_by_status()  *)
(* return the stored IndexerState objects, which the jobs mutate in place  *)
(* and may still hold after another job has removed or replaced the entry. *)
(* heap holds the objects, store the references.  An object is one of      *)
(* three slots of its name, enough for the three places that can refer to  *)
(* different objects of one name: the store, the tester and the pruner.    *)
(*                                                                         *)
(* Time is counted in clock units and only ages are kept: age is           *)
(* now - first_failure, capped at the prune threshold.  A unit is shorter  *)
(* than the interval of any job and longer than any request and than a run *)
(* of the pruner (hours against seconds in the default configuration): a   *)
(* job starts at most once in a unit, and the clock does not advance while *)
(* an answer is outstanding.  The order in which a job visits its list is  *)
(* left open.                                                              *)
(***************************************************************************)
EXTENDS Integers

CONSTANTS
    Names,           \* public torrent definitions Prowlarr offers
    NoName,          \* "no indexer in hand"
    PruneThreshold,  \* config.prune_threshold, in clock units
    RepliesLost,     \* whether the reply to a write may be lost on the way
    MaxAdds,         \* bound: times Prowlarr accepts one definition
    MaxUserOps,      \* bound: changes the user makes in Prowlarr
    MaxCrashes       \* bound: kills of the docktarr process

ASSUME NoNameAssumption == NoName \notin Names
ASSUME ThresholdAssumption == PruneThreshold \in Nat \ {0}
ASSUME BoundsAssumption ==
    /\ RepliesLost \in BOOLEAN
    /\ MaxAdds \in Nat
    /\ MaxUserOps \in Nat
    /\ MaxCrashes \in Nat

VARIABLES
    prowlarr,   \* the indexers Prowlarr holds
    adds,       \* per name, indexers accepted so far: the source of fresh ids
    heap,       \* IndexerState objects
    store,      \* StateStore._data: the slot of each tracked name
    disk,       \* /config/state.json
    phase,      \* the docktarr process
    boot,       \* reply to the startup query
    discovery,  \* run_discovery
    tester,     \* run_tester
    pruner,     \* run_pruner
    ran,        \* the jobs the scheduler has started in this clock unit
    sincePass,  \* history: clock units since the indexer last passed a test
    userOps,
    crashes

memory == <<heap, store>>
process == <<phase, boot, ran>>
jobs == <<discovery, tester, pruner>>
budgets == <<userOps, crashes>>
vars == <<prowlarr, adds, memory, disk, process, jobs, sincePass, budgets>>

-----------------------------------------------------------------------------
(* Data *)

NoId == -1                \* no Prowlarr id
NoTimer == -1             \* first_failure is None
Never == -1               \* no test has been passed yet
NoSlot == 0               \* no object

Ids == 0 .. MaxAdds       \* 0: in Prowlarr before docktarr; else docktarr's own
Ages == 0 .. PruneThreshold
Slots == 1 .. 3

Indexer == [id : Ids, tagged : BOOLEAN, enabled : BOOLEAN]
Absent == [id |-> NoId, tagged |-> FALSE, enabled |-> FALSE]

IndexerStatus == {"candidate", "active", "degraded"}
IndexerState == [status : IndexerStatus, age : Ages \cup {NoTimer}, id : Ids]
Blank == [status |-> "none", age |-> NoTimer, id |-> NoId]

NewCandidate(id) == [status |-> "candidate", age |-> NoTimer, id |-> id]

\* Variants of a definition with a plausible mistake, such as the next one,
\* stand before it; no behaviour uses them.

\* What a failing test makes of an entry.
FailedRestartsTimer(e) ==
    IF e.status = "candidate" THEN e ELSE [e EXCEPT !.status = "degraded", !.age = 0]
Failed(e) ==
    IF e.status = "active" THEN [e EXCEPT !.status = "degraded", !.age = 0] ELSE e

\* What a passing test makes of an entry.
PassedKeepsTimer(e) == [e EXCEPT !.status = "active"]
Passed(e) ==
    IF e.status = "degraded"
    THEN [e EXCEPT !.status = "active", !.age = NoTimer]
    ELSE [e EXCEPT !.status = "active"]

\* An entry the pruner deletes.
Overdue(e) == e.age # NoTimer /\ e.age >= PruneThreshold

\* The reply to get_indexers_by_tag: the id of each tagged indexer.
Listed == [n \in Names |-> IF prowlarr[n].tagged THEN prowlarr[n].id ELSE NoId]

\* The first slot of n that neither the tester nor the pruner holds.
FreeSlot(n) ==
    CHOOSE s \in Slots : s \notin {tester.list[n], pruner.list[n]}

\* The heap h after the step, without the objects nothing refers to any more.
Collected(h) ==
    [n \in Names |-> [s \in Slots |->
        IF s \in {store'[n], tester'.list[n], pruner'.list[n]} THEN h[n][s] ELSE Blank]]

\* What StateStore.save writes for the references st into the heap h.
Saved(h, st) ==
    [intact |-> TRUE,
     entries |-> [n \in Names |-> IF st[n] = NoSlot THEN Blank ELSE h[n][st[n]]]]

NoFile == [intact |-> TRUE, entries |-> [n \in Names |-> Blank]]
TornFile == [intact |-> FALSE, entries |-> [n \in Names |-> Blank]]

NoList == [n \in Names |-> NoSlot]
EmptyHeap == [n \in Names |-> [s \in Slots |-> Blank]]

IdleDiscovery == [pc |-> "idle", todo |-> {}, cur |-> NoName, reply |-> NoId]
IdleTester == [pc |-> "idle", map |-> [n \in Names |-> NoId], list |-> NoList,
               cur |-> NoName]
IdlePruner == [pc |-> "idle", list |-> NoList, cur |-> NoName, id |-> NoId]
NoReply == [n \in Names |-> Absent]

TypeOK ==
    /\ prowlarr \in [Names -> Indexer \cup {Absent}]
    /\ adds \in [Names -> 0 .. MaxAdds]
    /\ heap \in [Names -> [Slots -> IndexerState \cup {Blank}]]
    /\ store \in [Names -> Slots \cup {NoSlot}]
    /\ disk \in [intact : BOOLEAN, entries : [Names -> IndexerState \cup {Blank}]]
    /\ phase \in {"down", "reconciling", "up"}
    /\ boot \in [Names -> Indexer \cup {Absent}]
    /\ discovery \in [pc : {"idle", "loop", "posted"}, todo : SUBSET Names,
                      cur : Names \cup {NoName}, reply : Ids \cup {NoId}]
    /\ tester \in [pc : {"idle", "fetched", "loop", "testing", "enabling",
                         "added", "degraded"},
                   map : [Names -> Ids \cup {NoId}],
                   list : [Names -> Slots \cup {NoSlot}],
                   cur : Names \cup {NoName}]
    /\ pruner \in [pc : {"idle", "loop", "deleting", "deleted", "failed"},
                   list : [Names -> Slots \cup {NoSlot}],
                   cur : Names \cup {NoName},
                   id : Ids \cup {NoId}]
    /\ ran \subseteq {"discovery", "tester", "pruner"}
    /\ sincePass \in [Names -> Ages \cup {Never}]
    /\ userOps \in 0 .. MaxUserOps
    /\ crashes \in 0 .. MaxCrashes

\* The process has not been started yet and there is no state file; Prowlarr
\* holds whatever the user (or an earlier installation) left there.
Init ==
    /\ prowlarr \in [Names -> [id : {0}, tagged : BOOLEAN, enabled : BOOLEAN]
                              \cup {Absent}]
    /\ adds = [n \in Names |-> 0]
    /\ heap = EmptyHeap
    /\ store = NoList
    /\ disk = NoFile
    /\ phase = "down"
    /\ boot = NoReply
    /\ discovery = IdleDiscovery
    /\ tester = IdleTester
    /\ pruner = IdlePruner
    /\ ran = {}
    /\ sincePass = [n \in Names |-> Never]
    /\ userOps = 0
    /\ crashes = 0

-----------------------------------------------------------------------------
(* The scheduler starts an idle job, once per clock unit. *)

Scheduled(job) ==
    /\ phase = "up"
    /\ job \notin ran
    /\ ran' = ran \cup {job}

(* run_discovery *)

\* existing_names is built; the definitions that are not in it remain.
DiscoveryFetch ==
    /\ Scheduled("discovery")
    /\ discovery.pc = "idle"
    /\ discovery' = [IdleDiscovery EXCEPT
                        !.pc = "loop",
                        !.todo = {n \in Names : Listed[n] = NoId}]
    /\ UNCHANGED <<prowlarr, adds, memory, disk, phase, boot, tester, pruner, sincePass, budgets>>

\* Prowlarr accepts the POST: a tagged, disabled indexer with a fresh id.
\* Its names are unique.  The reply may be lost.
CandidateIndexer(n) == [id |-> adds[n] + 1, tagged |-> TRUE, enabled |-> FALSE]

DiscoveryPost(n) ==
    /\ discovery.pc = "loop"
    /\ n \in discovery.todo
    /\ prowlarr[n] = Absent
    /\ adds[n] < MaxAdds
    /\ prowlarr' = [prowlarr EXCEPT ![n] = CandidateIndexer(n)]
    /\ adds' = [adds EXCEPT ![n] = @ + 1]
    /\ \E lost \in {FALSE, RepliesLost} :
          discovery' = [pc |-> "posted", todo |-> discovery.todo \ {n}, cur |-> n,
                        reply |-> IF lost THEN NoId ELSE adds[n] + 1]
    /\ sincePass' = [sincePass EXCEPT ![n] = Never]
    /\ UNCHANGED <<memory, disk, process, tester, pruner, budgets>>

\* Prowlarr refuses the POST or cannot be reached: add_indexer raises.
DiscoveryRefused(n) ==
    /\ discovery.pc = "loop"
    /\ n \in discovery.todo
    /\ discovery' = [pc |-> "posted", todo |-> discovery.todo \ {n}, cur |-> n,
                     reply |-> NoId]
    /\ UNCHANGED <<prowlarr, adds, memory, disk, process, tester, pruner, sincePass, budgets>>

\* The reply arrives: a new candidate replaces whatever the store has.
DiscoveryAnswer ==
    LET n == discovery.cur IN
    /\ discovery.pc = "posted"
    /\ discovery' = [discovery EXCEPT !.pc = "loop", !.cur = NoName, !.reply = NoId]
    /\ UNCHANGED <<tester, pruner>>
    /\ IF discovery.reply = NoId
       THEN UNCHANGED <<store, heap>>
       ELSE /\ store' = [store EXCEPT ![n] = FreeSlot(n)]
            /\ heap' = Collected([heap EXCEPT
                          ![n][FreeSlot(n)] = NewCandidate(discovery.reply)])
    /\ UNCHANGED <<prowlarr, adds, disk, process, sincePass, budgets>>

DiscoveryFinish ==
    /\ discovery.pc = "loop"
    /\ discovery.todo = {}
    /\ disk' = Saved(heap, store)
    /\ discovery' = IdleDiscovery
    /\ UNCHANGED <<prowlarr, adds, memory, process, tester, pruner, sincePass, budgets>>

-----------------------------------------------------------------------------
(* run_tester *)

\* Prowlarr answers get_indexers_by_tag ...
TesterFetch ==
    /\ Scheduled("tester")
    /\ tester.pc = "idle"
    /\ tester' = [IdleTester EXCEPT !.pc = "fetched", !.map = Listed]
    /\ UNCHANGED <<prowlarr, adds, memory, disk, phase, boot, discovery, pruner, sincePass, budgets>>

\* ... and the tester reads the store only when the answer arrives.
TesterBegin ==
    /\ tester.pc = "fetched"
    /\ tester' = [tester EXCEPT !.pc = "loop", !.list = store]
    /\ UNCHANGED <<prowlarr, adds, memory, disk, process, discovery, pruner, sincePass, budgets>>

\* Entries of the list that the reply does not mention, and those it does.
UnlistedIgnored == {}
Unlisted == {m \in Names : tester.list[m] # NoSlot /\ tester.map[m] = NoId}
ToTestUnchecked == {m \in Names : tester.list[m] # NoSlot}
ToTest == {m \in Names : tester.list[m] # NoSlot /\ tester.map[m] # NoId}

Drop(f, S) == [m \in Names |-> IF m \in S THEN NoSlot ELSE f[m]]

\* The loop removes the unlisted entries it meets (by name, whichever object
\* the store now has), refreshes the id of the next listed one and posts its
\* test.
WithOldId(e, id) == e
WithId(e, id) == [e EXCEPT !.id = id]

TesterNext(n, dropped) ==
    /\ tester.pc = "loop"
    /\ n \in ToTest
    /\ store' = Drop(store, dropped)
    /\ tester' = [tester EXCEPT !.pc = "testing", !.cur = n,
                                !.list = Drop(@, dropped)]
    /\ UNCHANGED pruner
    /\ heap' = Collected([heap EXCEPT ![n][tester.list[n]] =
                             WithId(@, tester.map[n])])
    /\ UNCHANGED <<prowlarr, adds, disk, process, discovery, sincePass, budgets>>

\* The entry goes back into the store, whatever happened to the store since,
\* and the loop moves on.
StoreEntry(h) ==
    LET n == tester.cur IN
    /\ store' = [store EXCEPT ![n] = tester.list[n]]
    /\ tester' = [tester EXCEPT !.pc = "loop", !.cur = NoName, !.list[n] = NoSlot]
    /\ UNCHANGED pruner
    /\ heap' = Collected(h)

\* The test passed.  A candidate is promoted in place and its enabling PUT
\* goes out; a degraded entry recovers without another await.
TesterPass ==
    LET n == tester.cur
        e == heap[n][tester.list[n]]
        h == [heap EXCEPT ![n][tester.list[n]] = Passed(e)]
    IN
    /\ tester.pc = "testing"
    /\ IF e.status = "candidate"
       THEN /\ heap' = h
            /\ tester' = [tester EXCEPT !.pc = "enabling"]
            /\ UNCHANGED <<store, pruner>>
       ELSE StoreEntry(h)
    /\ sincePass' = [sincePass EXCEPT ![n] = IF prowlarr[n].id = tester.map[n] THEN 0 ELSE @]
    /\ UNCHANGED <<prowlarr, adds, disk, process, discovery, budgets>>

\* The test failed, or Prowlarr could not be asked.  An active entry degrades
\* and the tester awaits the notifier before it stores the entry.
TesterFail ==
    LET n == tester.cur
        e == heap[n][tester.list[n]]
        h == [heap EXCEPT ![n][tester.list[n]] = Failed(e)]
    IN
    /\ tester.pc = "testing"
    /\ IF e.status = "active"
       THEN /\ heap' = h
            /\ tester' = [tester EXCEPT !.pc = "degraded"]
            /\ UNCHANGED <<store, pruner>>
       ELSE StoreEntry(h)
    /\ UNCHANGED <<prowlarr, adds, disk, process, discovery, sincePass, budgets>>

\* Prowlarr serves the PUT of the object fetched at the start of the run, with
\* enable set: everything else in it, the tag included, is as it was then.
EnabledByName(n) ==
    IF prowlarr[n] # Absent THEN [prowlarr[n] EXCEPT !.enabled = TRUE] ELSE Absent
EnabledIndexer(n) ==
    IF prowlarr[n].id = tester.map[n]
    THEN [id |-> tester.map[n], tagged |-> TRUE, enabled |-> TRUE]
    ELSE prowlarr[n]

\* The "added" event is sent whether or not the PUT succeeded.
TesterEnable ==
    /\ tester.pc = "enabling"
    /\ \/ prowlarr' = [prowlarr EXCEPT ![tester.cur] = EnabledIndexer(tester.cur)]
       \/ UNCHANGED prowlarr
    /\ tester' = [tester EXCEPT !.pc = "added"]
    /\ UNCHANGED <<adds, memory, disk, process, discovery, pruner, sincePass, budgets>>

\* The notifier has returned.
TesterStore ==
    /\ tester.pc \in {"added", "degraded"}
    /\ StoreEntry(heap)
    /\ UNCHANGED <<prowlarr, adds, disk, process, discovery, sincePass, budgets>>

\* Only unlisted entries are left: they are removed and the store is saved.
TesterFinish ==
    /\ tester.pc = "loop"
    /\ ToTest = {}
    /\ store' = Drop(store, Unlisted)
    /\ tester' = IdleTester
    /\ UNCHANGED pruner
    /\ heap' = Collected(heap)
    /\ disk' = Saved(heap, store')
    /\ UNCHANGED <<prowlarr, adds, process, discovery, sincePass, budgets>>

-----------------------------------------------------------------------------
(* run_pruner *)

PrunerBegin ==
    /\ Scheduled("pruner")
    /\ pruner.pc = "idle"
    /\ pruner' = [IdlePruner EXCEPT
          !.pc = "loop",
          !.list = [n \in Names |->
              IF store[n] # NoSlot /\ heap[n][store[n]].status = "degraded"
              THEN store[n] ELSE NoSlot]]
    /\ UNCHANGED <<prowlarr, adds, memory, disk, phase, boot, discovery, tester, sincePass, budgets>>

\* Entries of the list whose timer, read now, is past the threshold.
ToPrune == {n \in Names : pruner.list[n] # NoSlot /\ Overdue(heap[n][pruner.list[n]])}

PrunerNext(n) ==
    /\ pruner.pc = "loop"
    /\ n \in ToPrune
    /\ pruner' = [pruner EXCEPT !.pc = "deleting", !.cur = n,
                                !.id = heap[n][pruner.list[n]].id]
    /\ UNCHANGED <<prowlarr, adds, memory, disk, process, discovery, tester, sincePass, budgets>>

\* Prowlarr serves the DELETE of the entry's id; the reply may be lost.
PrunerDelete ==
    LET n == pruner.cur IN
    /\ pruner.pc = "deleting"
    /\ prowlarr[n] # Absent
    /\ prowlarr[n].id = pruner.id
    /\ prowlarr' = [prowlarr EXCEPT ![n] = Absent]
    /\ \E lost \in {FALSE, RepliesLost} :
          pruner' = [pruner EXCEPT !.pc = IF lost THEN "failed" ELSE "deleted"]
    /\ sincePass' = [sincePass EXCEPT ![n] = Never]
    /\ UNCHANGED <<adds, memory, disk, process, discovery, tester, budgets>>

\* Prowlarr does not know the id (404), refuses or cannot be reached.
PrunerRefused ==
    /\ pruner.pc = "deleting"
    /\ pruner' = [pruner EXCEPT !.pc = "failed"]
    /\ UNCHANGED <<prowlarr, adds, memory, disk, process, discovery, tester, sincePass, budgets>>

\* The reply arrives: after a success the name leaves the store, whichever
\* object the store now has for it.
PrunerAnswer ==
    LET n == pruner.cur IN
    /\ pruner.pc \in {"deleted", "failed"}
    /\ store' = IF pruner.pc = "deleted" THEN [store EXCEPT ![n] = NoSlot] ELSE store
    /\ pruner' = [pruner EXCEPT !.pc = "loop", !.cur = NoName, !.id = NoId,
                                !.list[n] = NoSlot]
    /\ UNCHANGED tester
    /\ heap' = Collected(heap)
    /\ UNCHANGED <<prowlarr, adds, disk, process, discovery, sincePass, budgets>>

PrunerFinish ==
    /\ pruner.pc = "loop"
    /\ ToPrune = {}
    /\ disk' = Saved(heap, store)
    /\ pruner' = IdlePruner
    /\ UNCHANGED <<store, tester>>
    /\ heap' = Collected(heap)
    /\ UNCHANGED <<prowlarr, adds, process, discovery, sincePass, budgets>>

-----------------------------------------------------------------------------
(* Saves by the queue monitor, crashes and restarts *)

\* The arr command queue job saves the shared store after each of its sweeps.
QueueMonitorSave ==
    /\ phase = "up"
    /\ disk' = Saved(heap, store)
    /\ UNCHANGED <<prowlarr, adds, memory, process, jobs, sincePass, budgets>>

\* The process is killed.  save() truncates and rewrites the file in place, so
\* a kill in the middle of a save leaves a file that does not parse.
Crash ==
    /\ phase # "down"
    /\ crashes < MaxCrashes
    /\ crashes' = crashes + 1
    /\ phase' = "down"
    /\ disk' \in {disk, TornFile}
    /\ heap' = EmptyHeap
    /\ store' = NoList
    /\ boot' = NoReply
    /\ discovery' = IdleDiscovery
    /\ tester' = IdleTester
    /\ pruner' = IdlePruner
    /\ ran' = {}
    /\ UNCHANGED <<prowlarr, adds, sincePass, userOps>>

\* StateStore.load (a torn file is moved aside), then the startup query.
BootLoad ==
    /\ phase = "down"
    /\ phase' = "reconciling"
    /\ store' = [n \in Names |-> IF disk.entries[n] = Blank THEN NoSlot ELSE 1]
    /\ heap' = [n \in Names |-> [EmptyHeap[n] EXCEPT ![1] = disk.entries[n]]]
    /\ disk' = IF disk.intact THEN disk ELSE NoFile
    /\ boot' = prowlarr
    /\ UNCHANGED <<prowlarr, adds, ran, jobs, sincePass, budgets>>

\* What _reconcile makes of n: untagged names are dropped, tagged ones that
\* the store has are kept as they are, the others are adopted.
Adopted(n) ==
    [status |-> IF boot[n].enabled THEN "active" ELSE "candidate",
     age |-> NoTimer, id |-> boot[n].id]

Reconciled(n) ==
    IF ~boot[n].tagged THEN Blank
    ELSE IF store[n] # NoSlot THEN heap[n][store[n]]
    ELSE Adopted(n)

BootReconcile ==
    /\ phase = "reconciling"
    /\ phase' = "up"
    /\ store' = [n \in Names |-> IF boot[n].tagged THEN 1 ELSE NoSlot]
    /\ heap' = [n \in Names |-> [EmptyHeap[n] EXCEPT ![1] = Reconciled(n)]]
    /\ disk' = [intact |-> TRUE, entries |-> [n \in Names |-> Reconciled(n)]]
    /\ boot' = NoReply
    /\ UNCHANGED <<prowlarr, adds, ran, jobs, sincePass, budgets>>

-----------------------------------------------------------------------------
(* The user and the clock *)

\* The user sets or clears the docktarr tag, disables or deletes an indexer.
UserChange(n) ==
    /\ userOps < MaxUserOps
    /\ prowlarr[n] # Absent
    /\ \/ prowlarr' = [prowlarr EXCEPT ![n].tagged = ~@]
       \/ prowlarr' = [prowlarr EXCEPT ![n].enabled = FALSE]
       \/ prowlarr' = [prowlarr EXCEPT ![n] = Absent]
    /\ userOps' = userOps + 1
    /\ UNCHANGED <<adds, memory, disk, process, jobs, sincePass, crashes>>

Older(t) == IF t = NoTimer \/ t = PruneThreshold THEN t ELSE t + 1
OlderEntry(e) == [e EXCEPT !.age = Older(@)]

\* Time passes, never while a job waits for an answer or the pruner runs (it
\* compares with the time at which its run began).
Tick ==
    /\ discovery.pc # "posted"
    /\ tester.pc \in {"idle", "loop"}
    /\ pruner.pc = "idle"
    /\ ran' = {}
    /\ heap' = [n \in Names |-> [s \in Slots |-> OlderEntry(heap[n][s])]]
    /\ disk' = [disk EXCEPT !.entries = [n \in Names |-> OlderEntry(disk.entries[n])]]
    /\ sincePass' = [n \in Names |-> Older(sincePass[n])]
    /\ UNCHANGED <<prowlarr, adds, store, phase, boot, jobs, budgets>>

-----------------------------------------------------------------------------

DiscoveryStep ==
    \/ DiscoveryFetch
    \/ \E n \in Names : DiscoveryPost(n)
    \/ \E n \in Names : DiscoveryRefused(n)
    \/ DiscoveryAnswer
    \/ DiscoveryFinish

TesterStep ==
    \/ TesterFetch
    \/ TesterBegin
    \/ \E n \in Names, dropped \in SUBSET Unlisted : TesterNext(n, dropped)
    \/ TesterPass
    \/ TesterFail
    \/ TesterEnable
    \/ TesterStore
    \/ TesterFinish

PrunerStep ==
    \/ PrunerBegin
    \/ \E n \in Names : PrunerNext(n)
    \/ PrunerDelete
    \/ PrunerRefused
    \/ PrunerAnswer
    \/ PrunerFinish

Restart == BootLoad \/ BootReconcile

Next ==
    \/ DiscoveryStep
    \/ TesterStep
    \/ PrunerStep
    \/ QueueMonitorSave
    \/ Crash
    \/ Restart
    \/ \E n \in Names : UserChange(n)
    \/ Tick

Spec == Init /\ [][Next]_vars

\* The scheduler keeps starting every job and every HTTP request ends, by an
\* answer or by its timeout; the supervisor restarts a dead process; a DELETE
\* repeated again and again is served in the end; time passes.
Fairness ==
    /\ WF_vars(DiscoveryStep)
    /\ WF_vars(TesterStep)
    /\ WF_vars(PrunerStep)
    /\ SF_vars(PrunerDelete)
    /\ WF_vars(Restart)
    /\ WF_vars(Tick)

FairSpec == Spec /\ Fairness

-----------------------------------------------------------------------------
(* Safety *)

\* A degraded entry, in memory or on disk, always has the first_failure that
\* starts its prune window, and no other entry has one.  _handle_pass and
\* _handle_fail write status and timer in separate assignments, the pruner
\* skips an entry without a timer, and _reconcile builds entries of its own.
HasTimerIffDegraded(e) == e.status = "degraded" <=> e.age # NoTimer

DegradedHasTimer ==
    \A n \in Names :
        /\ \A s \in Slots : HasTimerIffDegraded(heap[n][s])
        /\ HasTimerIffDegraded(disk.entries[n])

\* An indexer docktarr added is enabled only after it has passed a test.  The
\* enabling PUT carries the object fetched at the start of the run, and by the
\* time it is served the indexer may have been deleted and added anew.
EnabledOnlyAfterPass ==
    \A n \in Names :
        prowlarr[n].enabled /\ prowlarr[n].id > 0 => sincePass[n] # Never

\* While the process runs, the prune window of an entry that stays degraded is
\* measured from its first failure: later failures, saves and the other jobs
\* never restart it.
TimerNeverRestarts ==
    [][\A n \in Names, s \in Slots :
          /\ phase = "up" /\ phase' = "up"
          /\ heap[n][s].status = "degraded"
          /\ heap'[n][s].status = "degraded"
          => heap'[n][s].age >= heap[n][s].age]_vars

\* The pruner's request for the indexer that Prowlarr now has under the name.
PruneIssued(n) ==
    /\ pruner.pc = "loop"
    /\ pruner'.pc = "deleting"
    /\ pruner'.cur = n
    /\ pruner'.id = prowlarr[n].id

\* As long as the process is not killed, the pruner never asks to delete an
\* indexer that passed a test within the prune window, however the tester's
\* verdicts fall between the pruner's snapshot and its deletions.
RecentPassNeverPruned ==
    [][\A n \in Names :
          PruneIssued(n) => sincePass[n] \in {Never, PruneThreshold}]_vars

-----------------------------------------------------------------------------
(* Liveness *)

\* An entry whose indexer is gone, or has lost its tag, does not stay in the
\* store: this covers the entries that the tester puts back after the pruner
\* has removed them.
StaleEntriesDropped ==
    \A n \in Names :
        store[n] # NoSlot /\ ~prowlarr[n].tagged
            ~> store[n] = NoSlot \/ prowlarr[n].tagged

\* No indexer stays degraded forever: it recovers, is deleted or is dropped.
\* The entry's id may be stale after a restart or a replacement, and then
\* every DELETE fails until the tester has refreshed it.
NeverStuckDegraded ==
    \A n \in Names :
        []<>~(store[n] # NoSlot /\ heap[n][store[n]].status = "degraded")

-----------------------------------------------------------------------------
(* What the documentation says and the code does not keep *)

\* README: docktarr health-checks all managed indexers.  Once its jobs are
\* idle, every tagged indexer it added is in the store the tester works from.
ManagedIsTracked ==
    phase = "up" /\ discovery.pc = "idle" /\ tester.pc = "idle" /\ pruner.pc = "idle"
        => \A n \in Names : prowlarr[n].tagged /\ prowlarr[n].id > 0 => store[n] # NoSlot

=============================================================================
