----------------------- MODULE IndexerLifecycle_proofs -----------------------
(***************************************************************************)
(* Theorems about IndexerLifecycle, for every set of names, every          *)
(* threshold and every bound: type correctness, that exactly the degraded  *)
(* entries have a prune window and that no step restarts one, that only    *)
(* what has passed a test is enabled, and that the pruner leaves alone     *)
(* what has passed a test within the window.  IInv is the invariant of the *)
(* objects and the references to them; PassInv and PruneInv are            *)
(* strengthenings for the last two theorems and build on it.               *)
(***************************************************************************)
EXTENDS IndexerLifecycle, TLAPS

-----------------------------------------------------------------------------
(* The inductive invariant *)

\* Entries whose timer agrees with their status.
SoundEntry == {e \in IndexerState \cup {Blank} : HasTimerIffDegraded(e)}
SoundHeap == [Names -> [Slots -> SoundEntry]]

\* The references refs lead to objects, not to free slots.
Live(refs) ==
    \A n \in Names : refs[n] # NoSlot => heap[n][refs[n]] \in IndexerState

\* A job in the middle of an iteration has an entry in hand.
InHand ==
    /\ discovery.pc = "posted" => discovery.cur \in Names
    /\ tester.pc \in {"testing", "enabling", "added", "degraded"} =>
          /\ tester.cur \in Names
          /\ tester.list[tester.cur] # NoSlot
          /\ tester.map[tester.cur] # NoId
    /\ pruner.pc \in {"deleting", "deleted", "failed"} => pruner.cur \in Names

\* No job runs before the startup reconciliation is over.
JobsOnlyWhenUp ==
    phase # "up" => /\ discovery = IdleDiscovery
                    /\ tester = IdleTester
                    /\ pruner = IdlePruner

IInv ==
    /\ TypeOK
    /\ heap \in SoundHeap
    /\ disk.entries \in [Names -> SoundEntry]
    /\ Live(store)
    /\ Live(tester.list)
    /\ Live(pruner.list)
    /\ InHand
    /\ JobsOnlyWhenUp

-----------------------------------------------------------------------------
(* Facts about the operators the actions are built from *)

LEMMA BlankSound == Blank \in SoundEntry
  BY DEF SoundEntry, Blank, HasTimerIffDegraded, NoTimer

LEMMA LiveIsSound ==
  ASSUME NEW e \in SoundEntry, e # Blank
  PROVE  e \in IndexerState /\ HasTimerIffDegraded(e)
  BY DEF SoundEntry

\* The verdict of a test turns a sound entry into a sound entry.
LEMMA VerdictSound ==
  ASSUME NEW e \in IndexerState, HasTimerIffDegraded(e)
  PROVE  /\ Failed(e) \in IndexerState
         /\ Failed(e) \in SoundEntry
         /\ Passed(e) \in IndexerState
         /\ Passed(e) \in SoundEntry
<1>1. /\ 0 \in Ages \cup {NoTimer}
      /\ NoTimer \in Ages \cup {NoTimer}
      /\ 0 # NoTimer
      /\ "active" # "degraded" /\ "candidate" # "degraded"
  BY ThresholdAssumption DEF Ages, NoTimer
<1>2. Failed(e) \in IndexerState /\ Passed(e) \in IndexerState
  BY <1>1 DEF Failed, Passed, IndexerState, IndexerStatus
<1>3. HasTimerIffDegraded(Failed(e))
  BY <1>1 DEF Failed, IndexerState, HasTimerIffDegraded
<1>4. HasTimerIffDegraded(Passed(e))
  BY <1>1 DEF Passed, IndexerState, HasTimerIffDegraded
<1>5. QED
  BY <1>2, <1>3, <1>4 DEF SoundEntry

\* Refreshing the id, ageing and creation keep entries sound.
LEMMA EntrySound ==
  /\ \A e \in IndexerState, id \in Ids :
        HasTimerIffDegraded(e) =>
            WithId(e, id) \in IndexerState /\ WithId(e, id) \in SoundEntry
  /\ \A e \in SoundEntry : OlderEntry(e) \in SoundEntry
  /\ \A e \in IndexerState : OlderEntry(e) \in IndexerState
  /\ \A id \in Ids :
        NewCandidate(id) \in IndexerState /\ NewCandidate(id) \in SoundEntry
  BY ThresholdAssumption
     DEF WithId, OlderEntry, Older, NewCandidate, SoundEntry, IndexerState,
         IndexerStatus, Ages, HasTimerIffDegraded, NoTimer, Blank

\* Whatever the tester and the pruner hold, one of the three slots is free.
LEMMA FreeSlotFree ==
  ASSUME NEW n
  PROVE  /\ FreeSlot(n) \in Slots
         /\ FreeSlot(n) # tester.list[n]
         /\ FreeSlot(n) # pruner.list[n]
<1>1. \E s \in Slots : s \notin {tester.list[n], pruner.list[n]}
  <2>1. 1 \in Slots /\ 2 \in Slots /\ 3 \in Slots
    BY DEF Slots
  <2>2. QED
    BY <2>1
<1>2. QED
  BY <1>1 DEF FreeSlot

\* Collecting garbage keeps a heap sound and what is referenced alive.
LEMMA CollectedSound ==
  ASSUME NEW h \in SoundHeap
  PROVE  Collected(h) \in SoundHeap
  BY BlankSound DEF Collected, SoundHeap

LEMMA CollectedLive ==
  ASSUME NEW h \in SoundHeap, heap' = Collected(h),
         store' \in [Names -> Slots \cup {NoSlot}],
         tester'.list \in [Names -> Slots \cup {NoSlot}],
         pruner'.list \in [Names -> Slots \cup {NoSlot}],
         \A n \in Names : store'[n] # NoSlot => h[n][store'[n]] \in IndexerState,
         \A n \in Names : tester'.list[n] # NoSlot => h[n][tester'.list[n]] \in IndexerState,
         \A n \in Names : pruner'.list[n] # NoSlot => h[n][pruner'.list[n]] \in IndexerState
  PROVE  Live(store)' /\ Live(tester.list)' /\ Live(pruner.list)'
  BY DEF Live, Collected, SoundHeap

-----------------------------------------------------------------------------
(* The invariant holds initially and each action preserves it *)

LEMMA ReplySound == ASSUME TypeOK PROVE Listed \in [Names -> Ids \cup {NoId}]
  BY DEF TypeOK, Listed, Indexer, Absent

LEMMA SavedSound ==
  ASSUME NEW h \in SoundHeap, NEW st \in [Names -> Slots \cup {NoSlot}]
  PROVE  /\ Saved(h, st) \in [intact : BOOLEAN,
                               entries : [Names -> IndexerState \cup {Blank}]]
         /\ Saved(h, st).entries \in [Names -> SoundEntry]
  BY BlankSound DEF Saved, SoundHeap, SoundEntry

LEMMA InitInv == Init => IInv
<1> SUFFICES ASSUME Init PROVE IInv
  OBVIOUS
<1>1. TypeOK
  BY ThresholdAssumption, BoundsAssumption
     DEF Init, TypeOK, Indexer, Absent, EmptyHeap, NoList, NoFile, NoReply, Ids, Ages,
         Slots, IdleDiscovery, IdleTester, IdlePruner, NoId, Never, NoSlot
<1>2. heap \in SoundHeap /\ disk.entries \in [Names -> SoundEntry]
  BY BlankSound DEF Init, EmptyHeap, NoFile, SoundHeap
<1>3. Live(store) /\ Live(tester.list) /\ Live(pruner.list)
  BY DEF Init, Live, NoList, IdleTester, IdlePruner
<1>4. InHand /\ JobsOnlyWhenUp
  BY DEF Init, InHand, JobsOnlyWhenUp, IdleDiscovery, IdleTester, IdlePruner
<1>5. QED
  BY <1>1, <1>2, <1>3, <1>4 DEF IInv

\* The steps of discovery that leave the objects alone.
LEMMA DiscoveryQuietInv ==
  ASSUME IInv,
         \/ DiscoveryFetch
         \/ \E n \in Names : DiscoveryPost(n) \/ DiscoveryRefused(n)
         \/ DiscoveryFinish
  PROVE  IInv'
<1> USE DEF IInv, memory, process, budgets
<1>1. CASE DiscoveryFetch
  <2>1. TypeOK'
    BY <1>1 DEF DiscoveryFetch, Scheduled, TypeOK, IdleDiscovery
  <2>2. QED
    BY <1>1, <2>1 DEF DiscoveryFetch, Scheduled, Live, InHand, JobsOnlyWhenUp, IdleDiscovery
<1>2. ASSUME NEW n \in Names, DiscoveryPost(n) PROVE IInv'
  <2>1. adds[n] + 1 \in Ids /\ adds[n] + 1 \in 0 .. MaxAdds
    BY <1>2, BoundsAssumption DEF DiscoveryPost, TypeOK, Ids
  <2>2. TypeOK'
    <3>1. CandidateIndexer(n) \in Indexer
      BY <2>1 DEF CandidateIndexer, Indexer
    <3>2. prowlarr' \in [Names -> Indexer \cup {Absent}] /\ adds' \in [Names -> 0 .. MaxAdds]
      BY <1>2, <2>1, <3>1 DEF DiscoveryPost, TypeOK
    <3>3. discovery' \in [pc : {"idle", "loop", "posted"}, todo : SUBSET Names,
                          cur : Names \cup {NoName}, reply : Ids \cup {NoId}]
      BY <1>2, <2>1 DEF DiscoveryPost, TypeOK
    <3>4. sincePass' \in [Names -> Ages \cup {Never}]
      BY <1>2, ThresholdAssumption DEF DiscoveryPost, TypeOK, Ages
    <3>5. QED
      BY <1>2, <3>2, <3>3, <3>4 DEF DiscoveryPost, TypeOK
  <2>3. discovery'.cur \in Names /\ phase' = phase /\ phase = "up"
    BY <1>2 DEF DiscoveryPost, JobsOnlyWhenUp, IdleDiscovery, TypeOK
  <2>4. QED
    BY <1>2, <2>2, <2>3 DEF DiscoveryPost, Live, InHand, JobsOnlyWhenUp
<1>3. ASSUME NEW n \in Names, DiscoveryRefused(n) PROVE IInv'
  <2>1. TypeOK'
    BY <1>3 DEF DiscoveryRefused, TypeOK
  <2>2. discovery'.cur \in Names /\ phase' = phase /\ phase = "up"
    BY <1>3 DEF DiscoveryRefused, JobsOnlyWhenUp, IdleDiscovery, TypeOK
  <2>3. QED
    BY <1>3, <2>1, <2>2 DEF DiscoveryRefused, Live, InHand, JobsOnlyWhenUp
<1>4. CASE DiscoveryFinish
  <2>1. /\ disk' \in [intact : BOOLEAN, entries : [Names -> IndexerState \cup {Blank}]]
        /\ disk'.entries \in [Names -> SoundEntry]
    BY <1>4, SavedSound DEF DiscoveryFinish, TypeOK
  <2>2. TypeOK'
    BY <1>4, <2>1 DEF DiscoveryFinish, TypeOK, IdleDiscovery
  <2>3. QED
    BY <1>4, <2>1, <2>2 DEF DiscoveryFinish, Live, InHand, JobsOnlyWhenUp, IdleDiscovery
<1>5. QED
  BY <1>1, <1>2, <1>3, <1>4

\* The candidate goes into a free slot: what the other jobs hold stays alive.
LEMMA DiscoveryAnswerInv == ASSUME IInv, DiscoveryAnswer PROVE IInv'
<1> DEFINE n == discovery.cur
           h == [heap EXCEPT ![n][FreeSlot(n)] = NewCandidate(discovery.reply)]
<1> USE DEF IInv, memory, process, budgets
<1>1. n \in Names
  BY DEF DiscoveryAnswer, InHand
<1>2. discovery' \in [pc : {"idle", "loop", "posted"}, todo : SUBSET Names,
                      cur : Names \cup {NoName}, reply : Ids \cup {NoId}]
  BY DEF DiscoveryAnswer, TypeOK
<1>3. phase = "up"
  BY DEF DiscoveryAnswer, JobsOnlyWhenUp, IdleDiscovery
<1>4. CASE discovery.reply = NoId
  <2>1. UNCHANGED <<store, heap>>
    BY <1>4 DEF DiscoveryAnswer
  <2>2. TypeOK'
    BY <1>2, <2>1 DEF DiscoveryAnswer, TypeOK
  <2>3. QED
    BY <1>3, <2>1, <2>2 DEF DiscoveryAnswer, Live, InHand, JobsOnlyWhenUp
<1>5. CASE discovery.reply # NoId
  <2>1. FreeSlot(n) \in Slots /\ FreeSlot(n) # tester.list[n] /\ FreeSlot(n) # pruner.list[n]
    BY FreeSlotFree
  <2>2. discovery.reply \in Ids
    BY <1>5 DEF TypeOK
  <2>3. /\ NewCandidate(discovery.reply) \in IndexerState
        /\ NewCandidate(discovery.reply) \in SoundEntry
    BY <2>2, EntrySound
  <2>4. h \in SoundHeap
    BY <1>1, <2>1, <2>3 DEF SoundHeap
  <2>5. store' = [store EXCEPT ![n] = FreeSlot(n)] /\ heap' = Collected(h)
    BY <1>5 DEF DiscoveryAnswer
  <2>6. store' \in [Names -> Slots \cup {NoSlot}]
    BY <1>1, <2>1, <2>5 DEF TypeOK
  <2>7. heap' \in SoundHeap
    BY <2>4, <2>5, CollectedSound
  <2>8. Live(store)' /\ Live(tester.list)' /\ Live(pruner.list)'
    <3>1. \A m \in Names : store'[m] # NoSlot => h[m][store'[m]] \in IndexerState
      BY <1>1, <2>1, <2>3, <2>5 DEF Live, TypeOK
    <3>2. \A m \in Names :
             /\ tester.list[m] # NoSlot => h[m][tester.list[m]] \in IndexerState
             /\ pruner.list[m] # NoSlot => h[m][pruner.list[m]] \in IndexerState
      BY <1>1, <2>1 DEF Live, TypeOK
    <3>3. tester' = tester /\ pruner' = pruner
      BY DEF DiscoveryAnswer
    <3>4. QED
      BY <2>4, <2>5, <2>6, <3>1, <3>2, <3>3, CollectedLive DEF TypeOK
  <2>9. TypeOK'
    BY <1>2, <2>6, <2>7 DEF DiscoveryAnswer, TypeOK, SoundHeap, SoundEntry
  <2>10. QED
    BY <1>3, <2>7, <2>8, <2>9 DEF DiscoveryAnswer, InHand, JobsOnlyWhenUp
<1>6. QED
  BY <1>4, <1>5

TesterType == [pc : {"idle", "fetched", "loop", "testing", "enabling", "added", "degraded"},
               map : [Names -> Ids \cup {NoId}],
               list : [Names -> Slots \cup {NoSlot}],
               cur : Names \cup {NoName}]
PrunerType == [pc : {"idle", "loop", "deleting", "deleted", "failed"},
               list : [Names -> Slots \cup {NoSlot}],
               cur : Names \cup {NoName},
               id : Ids \cup {NoId}]
RefsType == [Names -> Slots \cup {NoSlot}]

\* Everything the store, the tester or the pruner refers to is alive in h.
AliveIn(h) ==
    \A m \in Names :
        /\ store[m] # NoSlot => h[m][store[m]] \in IndexerState
        /\ tester.list[m] # NoSlot => h[m][tester.list[m]] \in IndexerState
        /\ pruner.list[m] # NoSlot => h[m][pruner.list[m]] \in IndexerState

\* An object may be replaced by any other sound one.
LEMMA ReplaceSound ==
  ASSUME IInv, NEW n \in Names, NEW s \in Slots,
         NEW e \in IndexerState, e \in SoundEntry
  PROVE  LET h == [heap EXCEPT ![n][s] = e] IN h \in SoundHeap /\ AliveIn(h)
  BY DEF IInv, SoundHeap, AliveIn, Live, TypeOK

LEMMA EntryInHand ==
  ASSUME IInv, tester.pc \in {"testing", "enabling", "added", "degraded"}
  PROVE  /\ tester.cur \in Names
         /\ tester.list[tester.cur] \in Slots
         /\ heap[tester.cur][tester.list[tester.cur]] \in IndexerState
         /\ HasTimerIffDegraded(heap[tester.cur][tester.list[tester.cur]])
         /\ phase = "up"
<1>1. tester.cur \in Names /\ tester.list[tester.cur] # NoSlot
  BY DEF IInv, InHand
<1>2. tester.list[tester.cur] \in Slots
  BY <1>1 DEF IInv, TypeOK
<1>3. heap[tester.cur][tester.list[tester.cur]] \in IndexerState
  BY <1>1 DEF IInv, Live
<1>4. heap[tester.cur][tester.list[tester.cur]] \in SoundEntry
  BY <1>1, <1>2 DEF IInv, SoundHeap
<1>5. phase = "up"
  BY DEF IInv, JobsOnlyWhenUp, IdleTester
<1>6. QED
  BY <1>1, <1>2, <1>3, <1>4, <1>5 DEF SoundEntry

\* Putting the entry in hand back into the store.
LEMMA StoreEntryInv ==
  ASSUME IInv, tester.pc \in {"testing", "enabling", "added", "degraded"},
         NEW h \in SoundHeap, AliveIn(h), StoreEntry(h)
  PROVE  /\ store' \in RefsType
         /\ tester' \in TesterType
         /\ tester'.pc = "loop"
         /\ UNCHANGED pruner
         /\ heap' \in SoundHeap
         /\ Live(store)' /\ Live(tester.list)' /\ Live(pruner.list)'
<1> USE EntryInHand DEF IInv
<1>1. store' \in RefsType /\ tester' \in TesterType /\ tester'.pc = "loop"
  BY DEF StoreEntry, TypeOK, RefsType, TesterType
<1>2. heap' \in SoundHeap
  BY CollectedSound DEF StoreEntry
<1>3. /\ \A m \in Names : store'[m] # NoSlot => h[m][store'[m]] \in IndexerState
      /\ \A m \in Names : tester'.list[m] # NoSlot => h[m][tester'.list[m]] \in IndexerState
  BY DEF StoreEntry, AliveIn, TypeOK
<1>4. UNCHANGED pruner
  BY DEF StoreEntry
<1>5. /\ pruner'.list \in RefsType
      /\ \A m \in Names : pruner'.list[m] # NoSlot => h[m][pruner'.list[m]] \in IndexerState
  BY <1>4 DEF AliveIn, TypeOK, RefsType
<1>6. tester'.list \in RefsType
  BY <1>1 DEF TesterType, RefsType
<1>7. heap' = Collected(h)
  BY DEF StoreEntry
<1>8. Live(store)' /\ Live(tester.list)' /\ Live(pruner.list)'
  BY <1>1, <1>3, <1>5, <1>6, <1>7, CollectedLive DEF RefsType
<1>9. QED
  BY <1>1, <1>2, <1>4, <1>8

\* A verdict changes the entry in hand; in two cases the tester then waits.
LEMMA TesterVerdictInv == ASSUME IInv, TesterPass \/ TesterFail PROVE IInv'
<1> DEFINE n == tester.cur
           e == heap[n][tester.list[n]]
           hp == [heap EXCEPT ![n][tester.list[n]] = Passed(e)]
           hf == [heap EXCEPT ![n][tester.list[n]] = Failed(e)]
<1> USE DEF IInv, memory, process, budgets
<1>1. tester.pc = "testing"
  BY DEF TesterPass, TesterFail
<1>2. /\ n \in Names
      /\ tester.list[n] \in Slots
      /\ e \in IndexerState
      /\ HasTimerIffDegraded(e)
      /\ phase = "up"
  BY <1>1, EntryInHand
<1>3. /\ Passed(e) \in IndexerState /\ Passed(e) \in SoundEntry
      /\ Failed(e) \in IndexerState /\ Failed(e) \in SoundEntry
  BY <1>2, VerdictSound
<1>4. hp \in SoundHeap /\ AliveIn(hp) /\ hf \in SoundHeap /\ AliveIn(hf)
  BY <1>2, <1>3, ReplaceSound
<1>5. /\ UNCHANGED <<prowlarr, adds, disk, phase, boot, ran, discovery, budgets>>
      /\ sincePass' \in [Names -> Ages \cup {Never}]
  <2>1. 0 \in Ages /\ sincePass \in [Names -> Ages \cup {Never}]
    BY ThresholdAssumption DEF Ages, TypeOK
  <2>2. CASE TesterPass
    <3>1. sincePass' \in {sincePass, [sincePass EXCEPT ![n] = 0]}
      BY <1>2, <2>1, <2>2 DEF TesterPass
    <3>2. QED
      BY <2>1, <2>2, <3>1 DEF TesterPass
  <2>3. CASE TesterFail
    BY <2>1, <2>3 DEF TesterFail
  <2>4. QED
    BY <2>2, <2>3
<1>6. CASE \/ StoreEntry(hp)
           \/ StoreEntry(hf)
  <2>1. /\ store' \in RefsType
        /\ tester' \in TesterType
        /\ tester'.pc = "loop"
        /\ UNCHANGED pruner
        /\ heap' \in SoundHeap
        /\ Live(store)' /\ Live(tester.list)' /\ Live(pruner.list)'
    BY <1>1, <1>4, <1>6, StoreEntryInv
  <2>2. TypeOK'
    BY <1>5, <2>1 DEF TypeOK, RefsType, TesterType, SoundHeap, SoundEntry
  <2>3. QED
    BY <1>2, <1>5, <2>1, <2>2 DEF InHand, JobsOnlyWhenUp
<1>7. CASE /\ heap' = hp \/ heap' = hf
           /\ \E pc \in {"enabling", "degraded"} : tester' = [tester EXCEPT !.pc = pc]
           /\ UNCHANGED <<store, pruner>>
  <2>1. heap' \in SoundHeap /\ AliveIn(heap')
    BY <1>4, <1>7
  <2>2. /\ tester' \in TesterType
        /\ tester'.list = tester.list
        /\ tester'.cur = tester.cur
        /\ tester'.map = tester.map
    BY <1>7 DEF TypeOK, TesterType
  <2>3. TypeOK'
    <3>1. UNCHANGED <<store, pruner>>
      BY <1>7
    <3>2. heap' \in [Names -> [Slots -> IndexerState \cup {Blank}]]
      BY <2>1 DEF SoundHeap, SoundEntry
    <3>3. QED
      BY <1>5, <2>2, <3>1, <3>2 DEF TypeOK, TesterType
  <2>4. Live(store)' /\ Live(tester.list)' /\ Live(pruner.list)'
    BY <1>7, <2>1, <2>2 DEF Live, AliveIn
  <2>5. InHand'
    BY <1>1, <1>5, <1>7, <2>2 DEF InHand
  <2>6. QED
    BY <1>2, <1>5, <2>1, <2>3, <2>4, <2>5 DEF JobsOnlyWhenUp
<1>8. CASE TesterPass
  <2>1. CASE e.status = "candidate"
    <3>1. /\ heap' = hp
          /\ tester' = [tester EXCEPT !.pc = "enabling"]
          /\ UNCHANGED <<store, pruner>>
      BY <1>8, <2>1 DEF TesterPass
    <3>2. QED
      BY <1>7, <3>1
  <2>2. CASE e.status # "candidate"
    BY <1>6, <1>8, <2>2 DEF TesterPass
  <2>3. QED
    BY <2>1, <2>2
<1>9. CASE TesterFail
  <2>1. CASE e.status = "active"
    <3>1. /\ heap' = hf
          /\ tester' = [tester EXCEPT !.pc = "degraded"]
          /\ UNCHANGED <<store, pruner>>
      BY <1>9, <2>1 DEF TesterFail
    <3>2. QED
      BY <1>7, <3>1
  <2>2. CASE e.status # "active"
    BY <1>6, <1>9, <2>2 DEF TesterFail
  <2>3. QED
    BY <2>1, <2>2
<1>10. QED
  BY <1>8, <1>9

\* The steps of the tester that leave the objects alone.
LEMMA TesterQuietInv ==
  ASSUME IInv, TesterFetch \/ TesterBegin \/ TesterEnable
  PROVE  IInv'
<1> USE DEF IInv, memory, process, budgets
<1>1. CASE TesterFetch
  <2>1. tester' \in TesterType /\ tester'.pc = "fetched" /\ tester'.list = NoList
    BY <1>1, ReplySound DEF TesterFetch, IdleTester, TesterType, NoList, TypeOK
  <2>2. phase = "up" /\ ran' \subseteq {"discovery", "tester", "pruner"}
    BY <1>1 DEF TesterFetch, Scheduled, TypeOK
  <2>3. TypeOK'
    BY <1>1, <2>1, <2>2 DEF TesterFetch, TypeOK, TesterType
  <2>4. QED
    BY <1>1, <2>1, <2>2, <2>3 DEF TesterFetch, Live, InHand, JobsOnlyWhenUp, NoList
<1>2. CASE TesterBegin
  <2>1. tester' \in TesterType /\ tester'.pc = "loop" /\ tester'.list = store
    BY <1>2 DEF TesterBegin, TesterType, TypeOK
  <2>2. phase = "up"
    BY <1>2 DEF TesterBegin, JobsOnlyWhenUp, IdleTester
  <2>3. TypeOK'
    BY <1>2, <2>1 DEF TesterBegin, TypeOK, TesterType
  <2>4. QED
    BY <1>2, <2>1, <2>2, <2>3 DEF TesterBegin, Live, InHand, JobsOnlyWhenUp
<1>3. CASE TesterEnable
  <2>1. /\ tester.cur \in Names
        /\ tester.map[tester.cur] \in Ids
        /\ phase = "up"
    BY <1>3, EntryInHand DEF TesterEnable, InHand, TypeOK
  <2>2. EnabledIndexer(tester.cur) \in Indexer \cup {Absent}
    BY <2>1 DEF EnabledIndexer, Indexer, TypeOK
  <2>3. prowlarr' \in [Names -> Indexer \cup {Absent}]
    BY <1>3, <2>1, <2>2 DEF TesterEnable, TypeOK
  <2>4. /\ tester' \in TesterType
        /\ tester'.list = tester.list
        /\ tester'.cur = tester.cur
        /\ tester'.map = tester.map
    BY <1>3 DEF TesterEnable, TesterType, TypeOK
  <2>5. UNCHANGED <<adds, heap, store, disk, phase, boot, ran, discovery, pruner,
                    sincePass, userOps, crashes>>
    BY <1>3 DEF TesterEnable
  <2>6. TypeOK'
    BY <2>3, <2>4, <2>5 DEF TypeOK, TesterType
  <2>7. Live(store)' /\ Live(tester.list)' /\ Live(pruner.list)'
    BY <2>4, <2>5 DEF Live
  <2>8. InHand'
    BY <1>3, <2>1, <2>4, <2>5 DEF TesterEnable, InHand
  <2>9. QED
    BY <2>1, <2>5, <2>6, <2>7, <2>8 DEF JobsOnlyWhenUp
<1>4. QED
  BY <1>1, <1>2, <1>3

\* Dropping names from a list of references.
LEMMA DropRefs ==
  ASSUME NEW f \in RefsType, NEW S
  PROVE  /\ Drop(f, S) \in RefsType
         /\ \A m \in Names : Drop(f, S)[m] # NoSlot => Drop(f, S)[m] = f[m]
  BY DEF Drop, RefsType

\* A step that only drops references keeps the others alive.
LEMMA ShrinkLive ==
  ASSUME NEW h \in SoundHeap, AliveIn(h), heap' = Collected(h),
         store' \in RefsType, tester'.list \in RefsType, pruner'.list \in RefsType,
         \A m \in Names : store'[m] # NoSlot => store'[m] = store[m],
         \A m \in Names : tester'.list[m] # NoSlot => tester'.list[m] = tester.list[m],
         \A m \in Names : pruner'.list[m] # NoSlot => pruner'.list[m] = pruner.list[m]
  PROVE  Live(store)' /\ Live(tester.list)' /\ Live(pruner.list)'
<1>1. /\ \A m \in Names : store'[m] # NoSlot => h[m][store'[m]] \in IndexerState
      /\ \A m \in Names : tester'.list[m] # NoSlot => h[m][tester'.list[m]] \in IndexerState
      /\ \A m \in Names : pruner'.list[m] # NoSlot => h[m][pruner'.list[m]] \in IndexerState
  BY DEF AliveIn
<1>2. QED
  BY <1>1, CollectedLive DEF RefsType

LEMMA TesterNextInv ==
  ASSUME IInv, NEW n \in Names, NEW dropped \in SUBSET Unlisted, TesterNext(n, dropped)
  PROVE  IInv'
<1> DEFINE s == tester.list[n]
           e == heap[n][s]
           h == [heap EXCEPT ![n][s] = WithId(e, tester.map[n])]
<1> USE DEF IInv, memory, process, budgets
<1>1. s \in Slots /\ tester.map[n] \in Ids
  BY DEF TesterNext, ToTest, TypeOK
<1>2. e \in IndexerState /\ HasTimerIffDegraded(e)
  BY <1>1 DEF Live, SoundHeap, SoundEntry, NoSlot, Slots
<1>3. WithId(e, tester.map[n]) \in IndexerState /\ WithId(e, tester.map[n]) \in SoundEntry
  BY <1>1, <1>2, EntrySound
<1>4. h \in SoundHeap /\ AliveIn(h)
  BY <1>1, <1>3, ReplaceSound
<1>5. heap' = Collected(h)
  BY DEF TesterNext
<1>6. /\ store' = Drop(store, dropped)
      /\ tester'.list = Drop(tester.list, dropped)
      /\ tester'.map = tester.map
      /\ tester'.cur = n
      /\ tester'.pc = "testing"
      /\ pruner' = pruner
  BY DEF TesterNext, TypeOK
<1>7. /\ store' \in RefsType /\ tester'.list \in RefsType /\ pruner'.list \in RefsType
      /\ \A m \in Names : store'[m] # NoSlot => store'[m] = store[m]
      /\ \A m \in Names : tester'.list[m] # NoSlot => tester'.list[m] = tester.list[m]
  <2>1. store \in RefsType /\ tester.list \in RefsType /\ pruner.list \in RefsType
    BY DEF TypeOK, RefsType
  <2>2. QED
    BY <1>6, <2>1, DropRefs
<1>8. heap' \in SoundHeap
  BY <1>4, <1>5, CollectedSound
<1>9. Live(store)' /\ Live(tester.list)' /\ Live(pruner.list)'
  <2> HIDE DEF h
  <2>1. QED
    BY <1>4, <1>5, <1>6, <1>7, ShrinkLive
<1>10. tester' \in TesterType
  BY <1>7 DEF TesterNext, TypeOK, TesterType, RefsType
<1>11. TypeOK'
  <2>1. heap' \in [Names -> [Slots -> IndexerState \cup {Blank}]]
    BY <1>8 DEF SoundHeap, SoundEntry
  <2>2. UNCHANGED <<prowlarr, adds, disk, phase, boot, ran, discovery, sincePass, budgets>>
    BY DEF TesterNext
  <2>3. QED
    BY <1>6, <1>7, <1>10, <2>1, <2>2 DEF TypeOK, TesterType, RefsType
<1>12. InHand'
  <2>1. n \notin dropped
    BY <1>1 DEF Unlisted, Ids, NoId
  <2>2. tester'.list[n] # NoSlot
    BY <1>1, <1>6, <2>1 DEF Drop, NoSlot, Slots
  <2>3. tester'.map[n] # NoId
    BY <1>1, <1>6 DEF Ids, NoId
  <2>4. QED
    BY <1>6, <2>2, <2>3 DEF InHand, TesterNext
<1>13. phase = "up" /\ phase' = phase
  BY DEF TesterNext, JobsOnlyWhenUp, IdleTester
<1>14. QED
  BY <1>8, <1>9, <1>11, <1>12, <1>13 DEF TesterNext, JobsOnlyWhenUp

LEMMA TesterStoreInv == ASSUME IInv, TesterStore PROVE IInv'
<1> USE DEF IInv, memory, process, budgets
<1>1. heap \in SoundHeap /\ AliveIn(heap)
  BY DEF AliveIn, Live
<1>2. phase = "up" /\ phase' = phase
  BY EntryInHand DEF TesterStore
<1>3. /\ store' \in RefsType
      /\ tester' \in TesterType
      /\ tester'.pc = "loop"
      /\ UNCHANGED pruner
      /\ heap' \in SoundHeap
      /\ Live(store)' /\ Live(tester.list)' /\ Live(pruner.list)'
  BY <1>1, StoreEntryInv DEF TesterStore
<1>4. TypeOK'
  BY <1>3 DEF TesterStore, TypeOK, RefsType, TesterType, SoundHeap, SoundEntry
<1>5. QED
  BY <1>2, <1>3, <1>4 DEF TesterStore, InHand, JobsOnlyWhenUp

LEMMA TesterFinishInv == ASSUME IInv, TesterFinish PROVE IInv'
<1> USE DEF IInv, memory, process, budgets
<1>1. /\ store' = Drop(store, Unlisted)
      /\ tester' = IdleTester
      /\ pruner' = pruner
      /\ heap' = Collected(heap)
      /\ phase = "up" /\ phase' = phase
  BY DEF TesterFinish, JobsOnlyWhenUp, IdleTester
<1>2. /\ store' \in RefsType /\ tester'.list \in RefsType /\ pruner'.list \in RefsType
      /\ \A m \in Names : store'[m] # NoSlot => store'[m] = store[m]
      /\ \A m \in Names : tester'.list[m] = NoSlot
  BY <1>1, DropRefs DEF TypeOK, RefsType, IdleTester, NoList
<1>3. heap' \in SoundHeap
  BY <1>1, CollectedSound
<1>4. Live(store)' /\ Live(tester.list)' /\ Live(pruner.list)'
  BY <1>1, <1>2, CollectedLive DEF Live, RefsType
<1>5. /\ disk' \in [intact : BOOLEAN, entries : [Names -> IndexerState \cup {Blank}]]
      /\ disk'.entries \in [Names -> SoundEntry]
  BY <1>2, SavedSound DEF TesterFinish, RefsType
<1>6. tester' \in TesterType
  BY <1>1 DEF IdleTester, TesterType, NoList
<1>7. TypeOK'
  <2>1. heap' \in [Names -> [Slots -> IndexerState \cup {Blank}]]
    BY <1>3 DEF SoundHeap, SoundEntry
  <2>2. UNCHANGED <<prowlarr, adds, phase, boot, ran, discovery, sincePass, budgets>>
    BY DEF TesterFinish
  <2>3. QED
    BY <1>1, <1>2, <1>5, <1>6, <2>1, <2>2 DEF TypeOK, TesterType, RefsType
<1>8. QED
  BY <1>1, <1>3, <1>4, <1>5, <1>7 DEF TesterFinish, InHand, JobsOnlyWhenUp, IdleTester

\* The pruner up to Prowlarr's answer leaves the objects alone.
LEMMA PrunerQuietInv ==
  ASSUME IInv,
         \/ PrunerBegin
         \/ \E n \in Names : PrunerNext(n)
         \/ PrunerDelete
         \/ PrunerRefused
  PROVE  IInv'
<1> USE DEF IInv, memory, process, budgets
<1>1. CASE PrunerBegin
  <2>1. /\ pruner' \in PrunerType
        /\ pruner'.pc = "loop"
        /\ \A m \in Names : pruner'.list[m] # NoSlot => pruner'.list[m] = store[m]
    BY <1>1 DEF PrunerBegin, IdlePruner, NoList, PrunerType, TypeOK
  <2>2. phase = "up" /\ ran' \subseteq {"discovery", "tester", "pruner"}
    BY <1>1 DEF PrunerBegin, Scheduled, TypeOK
  <2>3. TypeOK'
    BY <1>1, <2>1, <2>2 DEF PrunerBegin, TypeOK, PrunerType
  <2>4. QED
    BY <1>1, <2>1, <2>2, <2>3 DEF PrunerBegin, Live, InHand, JobsOnlyWhenUp
<1>2. ASSUME NEW n \in Names, PrunerNext(n) PROVE IInv'
  <2>1. pruner.list[n] # NoSlot
    BY <1>2 DEF PrunerNext, ToPrune
  <2>2. heap[n][pruner.list[n]].id \in Ids
    BY <2>1 DEF Live, IndexerState
  <2>3. /\ pruner' \in PrunerType
        /\ pruner'.cur = n
        /\ pruner'.list = pruner.list
    BY <1>2, <2>2 DEF PrunerNext, PrunerType, TypeOK
  <2>4. phase = "up"
    <3>1. pruner.pc = "loop"
      BY <1>2 DEF PrunerNext
    <3>2. QED
      BY <3>1 DEF JobsOnlyWhenUp, IdlePruner
  <2>5. TypeOK'
    BY <1>2, <2>3 DEF PrunerNext, TypeOK, PrunerType
  <2>6. QED
    BY <1>2, <2>3, <2>4, <2>5 DEF PrunerNext, Live, InHand, JobsOnlyWhenUp
<1>3. CASE PrunerDelete
  <2>1. pruner.cur \in Names /\ phase = "up"
    BY <1>3 DEF PrunerDelete, InHand, JobsOnlyWhenUp, IdlePruner
  <2>2. /\ pruner' \in PrunerType
        /\ pruner'.cur = pruner.cur
        /\ pruner'.list = pruner.list
    BY <1>3 DEF PrunerDelete, PrunerType, TypeOK
  <2>3. /\ prowlarr' \in [Names -> Indexer \cup {Absent}]
        /\ sincePass' \in [Names -> Ages \cup {Never}]
       
    <3>1. /\ prowlarr' = [prowlarr EXCEPT ![pruner.cur] = Absent]
          /\ sincePass' = [sincePass EXCEPT ![pruner.cur] = Never]
      BY <1>3 DEF PrunerDelete
    <3>2. PruneThreshold \in Ages
      BY ThresholdAssumption DEF Ages
    <3>3. QED
      BY <2>1, <3>1, <3>2 DEF TypeOK
  <2>4. TypeOK'
    BY <1>3, <2>2, <2>3 DEF PrunerDelete, TypeOK, PrunerType
  <2>5. QED
    BY <1>3, <2>1, <2>2, <2>4 DEF PrunerDelete, Live, InHand, JobsOnlyWhenUp
<1>4. CASE PrunerRefused
  <2>1. pruner.cur \in Names /\ phase = "up"
    BY <1>4 DEF PrunerRefused, InHand, JobsOnlyWhenUp, IdlePruner
  <2>2. /\ pruner' \in PrunerType
        /\ pruner'.cur = pruner.cur
        /\ pruner'.list = pruner.list
    BY <1>4 DEF PrunerRefused, PrunerType, TypeOK
  <2>3. TypeOK'
    BY <1>4, <2>2 DEF PrunerRefused, TypeOK, PrunerType
  <2>4. QED
    BY <1>4, <2>1, <2>2, <2>3 DEF PrunerRefused, Live, InHand, JobsOnlyWhenUp
<1>5. QED
  BY <1>1, <1>2, <1>3, <1>4

\* Its other steps drop references.
LEMMA PrunerReleaseInv == ASSUME IInv, PrunerAnswer \/ PrunerFinish PROVE IInv'
<1> USE DEF IInv, memory, process, budgets
<1>1. heap \in SoundHeap /\ AliveIn(heap)
  BY DEF AliveIn, Live
<1>2. heap' = Collected(heap) /\ tester' = tester /\ phase = "up" /\ phase' = phase
  BY DEF PrunerAnswer, PrunerFinish, JobsOnlyWhenUp, IdlePruner
<1>3. /\ store' \in RefsType
      /\ \A m \in Names : store'[m] # NoSlot => store'[m] = store[m]
  BY DEF PrunerAnswer, PrunerFinish, TypeOK, RefsType
<1>4. /\ pruner' \in PrunerType
      /\ pruner'.pc \in {"loop", "idle"}
      /\ \A m \in Names : pruner'.list[m] # NoSlot => pruner'.list[m] = pruner.list[m]
  <2>1. CASE PrunerAnswer
    BY <2>1 DEF PrunerAnswer, TypeOK, PrunerType
  <2>2. CASE PrunerFinish
    BY <2>2 DEF PrunerFinish, IdlePruner, NoList, PrunerType
  <2>3. QED
    BY <2>1, <2>2
<1>5. tester'.list \in RefsType /\ pruner'.list \in RefsType
  BY <1>2, <1>4 DEF TypeOK, RefsType, PrunerType
<1>6. heap' \in SoundHeap
  BY <1>1, <1>2, CollectedSound
<1>7. Live(store)' /\ Live(tester.list)' /\ Live(pruner.list)'
  BY <1>1, <1>2, <1>3, <1>4, <1>5, ShrinkLive
<1>8. /\ disk' \in [intact : BOOLEAN, entries : [Names -> IndexerState \cup {Blank}]]
      /\ disk'.entries \in [Names -> SoundEntry]
  BY SavedSound DEF PrunerAnswer, PrunerFinish, TypeOK
<1>9. TypeOK'
  <2>1. heap' \in [Names -> [Slots -> IndexerState \cup {Blank}]]
    BY <1>6 DEF SoundHeap, SoundEntry
  <2>2. UNCHANGED <<prowlarr, adds, phase, boot, ran, discovery, sincePass, budgets>>
    BY DEF PrunerAnswer, PrunerFinish
  <2>3. QED
    BY <1>2, <1>3, <1>4, <1>8, <2>1, <2>2 DEF TypeOK, PrunerType, RefsType
<1>10. UNCHANGED discovery
  BY DEF PrunerAnswer, PrunerFinish
<1>11. QED
  BY <1>2, <1>4, <1>6, <1>7, <1>8, <1>9, <1>10 DEF InHand, JobsOnlyWhenUp

\* A save, a kill and a restart.
LEMMA SaveInv == ASSUME IInv, QueueMonitorSave PROVE IInv'
<1> USE DEF IInv, memory, process, budgets, jobs
<1>1. /\ disk' \in [intact : BOOLEAN, entries : [Names -> IndexerState \cup {Blank}]]
      /\ disk'.entries \in [Names -> SoundEntry]
  BY SavedSound DEF QueueMonitorSave, TypeOK
<1>2. TypeOK'
  BY <1>1 DEF QueueMonitorSave, TypeOK
<1>3. QED
  BY <1>1, <1>2 DEF QueueMonitorSave, Live, InHand, JobsOnlyWhenUp

LEMMA CrashInv == ASSUME IInv, Crash PROVE IInv'
<1> USE DEF IInv
<1>1. /\ EmptyHeap \in SoundHeap
      /\ TornFile \in [intact : BOOLEAN, entries : [Names -> SoundEntry]]
  BY BlankSound DEF EmptyHeap, SoundHeap, TornFile
<1>2. heap' \in SoundHeap /\ disk'.entries \in [Names -> SoundEntry]
  BY <1>1 DEF Crash
<1>3. TypeOK'
  <2>1. heap' \in [Names -> [Slots -> IndexerState \cup {Blank}]]
    BY <1>2 DEF SoundHeap, SoundEntry
  <2>2. disk' \in [intact : BOOLEAN, entries : [Names -> IndexerState \cup {Blank}]]
    BY <1>1 DEF Crash, TypeOK, SoundEntry
  <2>3. /\ tester' \in TesterType /\ pruner' \in PrunerType /\ store' \in RefsType
        /\ discovery' \in [pc : {"idle", "loop", "posted"}, todo : SUBSET Names,
                            cur : Names \cup {NoName}, reply : Ids \cup {NoId}]
    BY DEF Crash, IdleTester, IdlePruner, IdleDiscovery, NoList, TesterType,
           PrunerType, RefsType
  <2>4. crashes' \in 0 .. MaxCrashes
    BY BoundsAssumption DEF Crash, TypeOK
  <2>5. /\ boot' \in [Names -> Indexer \cup {Absent}]
        /\ phase' = "down" /\ ran' = {}
        /\ UNCHANGED <<prowlarr, adds, sincePass, userOps>>
    BY DEF Crash, NoReply
  <2>6. QED
    BY <2>1, <2>2, <2>3, <2>4, <2>5 DEF TypeOK, TesterType, PrunerType, RefsType
<1>4. QED
  BY <1>2, <1>3
     DEF Crash, Live, InHand, JobsOnlyWhenUp, NoList, IdleTester, IdlePruner, IdleDiscovery

LEMMA BootLoadInv == ASSUME IInv, BootLoad PROVE IInv'
<1> USE DEF IInv, budgets, jobs
<1>1. /\ heap' \in SoundHeap
      /\ \A m \in Names : store'[m] # NoSlot =>
            /\ store'[m] = 1
            /\ heap'[m][1] \in IndexerState
  BY BlankSound DEF BootLoad, EmptyHeap, SoundHeap, SoundEntry, Slots, NoSlot
<1>2. /\ disk' \in [intact : BOOLEAN, entries : [Names -> IndexerState \cup {Blank}]]
      /\ disk'.entries \in [Names -> SoundEntry]
  BY BlankSound DEF BootLoad, NoFile, TypeOK
<1>3. TypeOK'
  <2>1. heap' \in [Names -> [Slots -> IndexerState \cup {Blank}]]
    BY <1>1 DEF SoundHeap, SoundEntry
  <2>2. store' \in RefsType
    BY DEF BootLoad, RefsType, Slots
  <2>3. QED
    BY <1>2, <2>1, <2>2 DEF BootLoad, TypeOK, RefsType
<1>4. Live(store)' /\ Live(tester.list)' /\ Live(pruner.list)'
  BY <1>1 DEF BootLoad, Live, JobsOnlyWhenUp, IdleTester, IdlePruner, NoList
<1>5. QED
  BY <1>1, <1>2, <1>3, <1>4 DEF BootLoad, InHand, JobsOnlyWhenUp

LEMMA BootReconcileInv == ASSUME IInv, BootReconcile PROVE IInv'
<1> USE DEF IInv, budgets, jobs
<1>1. ASSUME NEW m \in Names
      PROVE  /\ Reconciled(m) \in SoundEntry
             /\ boot[m].tagged => Reconciled(m) \in IndexerState
  <2>1. boot[m].tagged => Adopted(m) \in IndexerState /\ Adopted(m) \in SoundEntry
    BY DEF Adopted, TypeOK, Indexer, Absent, IndexerState, IndexerStatus, SoundEntry,
           HasTimerIffDegraded
  <2>2. store[m] # NoSlot => /\ heap[m][store[m]] \in IndexerState
                             /\ heap[m][store[m]] \in SoundEntry
    BY DEF Live, SoundHeap, TypeOK
  <2>3. QED
    BY <2>1, <2>2, BlankSound DEF Reconciled
<1>2. /\ heap' \in SoundHeap
      /\ \A m \in Names : store'[m] # NoSlot =>
            /\ store'[m] = 1
            /\ heap'[m][1] \in IndexerState
  BY <1>1, BlankSound DEF BootReconcile, EmptyHeap, SoundHeap, Slots, NoSlot
<1>3. /\ disk' \in [intact : BOOLEAN, entries : [Names -> IndexerState \cup {Blank}]]
      /\ disk'.entries \in [Names -> SoundEntry]
  BY <1>1 DEF BootReconcile, SoundEntry
<1>4. TypeOK'
  <2>1. heap' \in [Names -> [Slots -> IndexerState \cup {Blank}]]
    BY <1>2 DEF SoundHeap, SoundEntry
  <2>2. store' \in RefsType
    BY DEF BootReconcile, RefsType, Slots
  <2>3. QED
    BY <1>3, <2>1, <2>2 DEF BootReconcile, TypeOK, RefsType, NoReply
<1>5. Live(store)' /\ Live(tester.list)' /\ Live(pruner.list)'
  BY <1>2 DEF BootReconcile, Live, JobsOnlyWhenUp, IdleTester, IdlePruner, NoList
<1>6. QED
  BY <1>2, <1>3, <1>4, <1>5 DEF BootReconcile, InHand, JobsOnlyWhenUp

LEMMA UserChangeInv == ASSUME IInv, NEW n \in Names, UserChange(n) PROVE IInv'
<1> USE DEF IInv, memory, process, jobs
<1>1. prowlarr' \in [Names -> Indexer \cup {Absent}] /\ userOps' \in 0 .. MaxUserOps
  <2>1. prowlarr[n] \in Indexer
    BY DEF UserChange, TypeOK
  <2>2. [prowlarr[n] EXCEPT !.tagged = ~@] \in Indexer
    BY <2>1 DEF Indexer
  <2>3. [prowlarr[n] EXCEPT !.enabled = FALSE] \in Indexer
    BY <2>1 DEF Indexer
  <2>4. \E r \in Indexer \cup {Absent} : prowlarr' = [prowlarr EXCEPT ![n] = r]
    BY <2>2, <2>3 DEF UserChange
  <2>5. prowlarr' \in [Names -> Indexer \cup {Absent}]
    BY <2>4 DEF TypeOK
  <2>6. userOps' \in 0 .. MaxUserOps
    BY BoundsAssumption DEF UserChange, TypeOK
  <2>7. QED
    BY <2>5, <2>6
<1>2. TypeOK'
  BY <1>1 DEF UserChange, TypeOK
<1>3. QED
  BY <1>2 DEF UserChange, Live, InHand, JobsOnlyWhenUp

\* Time ages the entries but keeps them what they are.
LEMMA TickInv == ASSUME IInv, Tick PROVE IInv'
<1> USE DEF IInv, process, jobs, budgets
<1>1. heap' \in SoundHeap
  BY EntrySound DEF Tick, SoundHeap
<1>2. /\ disk' \in [intact : BOOLEAN, entries : [Names -> IndexerState \cup {Blank}]]
      /\ disk'.entries \in [Names -> SoundEntry]
  BY EntrySound DEF Tick, TypeOK, SoundEntry
<1>3. sincePass' \in [Names -> Ages \cup {Never}]
  <2>1. \A t \in Ages : Older(t) \in Ages
    BY ThresholdAssumption DEF Older, Ages, NoTimer
  <2>2. Older(Never) = Never
    BY DEF Older, NoTimer, Never
  <2>3. QED
    BY <2>1, <2>2 DEF Tick, TypeOK
<1>4. TypeOK'
  <2>1. heap' \in [Names -> [Slots -> IndexerState \cup {Blank}]]
    BY <1>1 DEF SoundHeap, SoundEntry
  <2>2. QED
    BY <1>2, <1>3, <2>1 DEF Tick, TypeOK
<1>5. Live(store)' /\ Live(tester.list)' /\ Live(pruner.list)'
  BY EntrySound DEF Tick, Live, TypeOK
<1>6. QED
  BY <1>1, <1>2, <1>4, <1>5 DEF Tick, InHand, JobsOnlyWhenUp

LEMMA NextInv == IInv /\ [Next]_vars => IInv'
<1> SUFFICES ASSUME IInv, [Next]_vars PROVE IInv'
  OBVIOUS
<1>1. CASE DiscoveryStep
  BY <1>1, DiscoveryQuietInv, DiscoveryAnswerInv DEF DiscoveryStep
<1>2. CASE TesterStep
  BY <1>2, TesterQuietInv, TesterNextInv, TesterVerdictInv, TesterStoreInv, TesterFinishInv
     DEF TesterStep
<1>3. CASE PrunerStep
  BY <1>3, PrunerQuietInv, PrunerReleaseInv DEF PrunerStep
<1>4. CASE QueueMonitorSave \/ Crash \/ Restart \/ Tick
  BY <1>4, SaveInv, CrashInv, BootLoadInv, BootReconcileInv, TickInv DEF Restart
<1>5. ASSUME NEW n \in Names, UserChange(n) PROVE IInv'
  BY <1>5, UserChangeInv
<1>6. CASE UNCHANGED vars
  BY <1>6 DEF vars, memory, process, jobs, budgets, IInv, TypeOK, Live, InHand,
              JobsOnlyWhenUp
<1>7. QED
  BY <1>1, <1>2, <1>3, <1>4, <1>5, <1>6 DEF Next

-----------------------------------------------------------------------------
(* Steps never restart a prune window *)

NotYounger(h) ==
    \A n \in Names, s \in Slots :
        heap[n][s].status = "degraded" /\ h[n][s].status = "degraded"
            => h[n][s].age >= heap[n][s].age

LEMMA CollectedNotYounger ==
  ASSUME NEW h, NotYounger(h)
  PROVE  NotYounger(Collected(h))
<1>1. Blank.status # "degraded"
  BY DEF Blank
<1>2. \A n \in Names, s \in Slots :
         Collected(h)[n][s] = h[n][s] \/ Collected(h)[n][s] = Blank
  BY DEF Collected
<1>3. QED
  BY <1>1, <1>2 DEF NotYounger

LEMMA AgesComparable ==
  ASSUME IInv, NEW n \in Names, NEW s \in Slots
  PROVE  heap[n][s].age \in Int
<1>1. heap[n][s] \in IndexerState \cup {Blank}
  BY DEF IInv, TypeOK
<1>2. CASE heap[n][s] \in IndexerState
  <2>1. heap[n][s].age \in Ages \cup {NoTimer}
    BY <1>2 DEF IndexerState
  <2>2. QED
    BY <2>1, ThresholdAssumption DEF Ages, NoTimer
<1>3. CASE heap[n][s] = Blank
  BY <1>3 DEF Blank, NoTimer
<1>4. QED
  BY <1>1, <1>2, <1>3

LEMMA SameNotYounger == ASSUME IInv PROVE NotYounger(heap)
  BY AgesComparable DEF NotYounger

\* Replacing one object by one that is not a younger degraded entry.
LEMMA ReplaceNotYounger ==
  ASSUME IInv, NEW n \in Names, NEW s \in Slots, NEW e,
         heap[n][s].status = "degraded" /\ e.status = "degraded" => e.age = heap[n][s].age
  PROVE  NotYounger([heap EXCEPT ![n][s] = e])
<1> DEFINE h == [heap EXCEPT ![n][s] = e]
<1> SUFFICES ASSUME NEW m \in Names, NEW t \in Slots,
                    heap[m][t].status = "degraded", h[m][t].status = "degraded"
             PROVE  h[m][t].age >= heap[m][t].age
  BY DEF NotYounger
<1>1. heap[m][t].age \in Int
  BY AgesComparable
<1>2. CASE m = n /\ t = s
  <2>1. h[m][t] = e
    BY <1>2 DEF IInv, TypeOK
  <2>2. QED
    BY <1>1, <1>2, <2>1
<1>3. CASE ~(m = n /\ t = s)
  <2>1. h[m][t] = heap[m][t]
    BY <1>3 DEF IInv, TypeOK
  <2>2. QED
    BY <1>1, <2>1
<1>4. QED
  BY <1>2, <1>3

LEMMA VerdictNotYounger ==
  ASSUME IInv, TesterPass \/ TesterFail PROVE NotYounger(heap')
<1> DEFINE n == tester.cur
           s == tester.list[n]
           e == heap[n][s]
           hp == [heap EXCEPT ![n][s] = Passed(e)]
           hf == [heap EXCEPT ![n][s] = Failed(e)]
<1>1. n \in Names /\ s \in Slots /\ e \in IndexerState
  BY EntryInHand DEF TesterPass, TesterFail
<1>2. Passed(e).status # "degraded"
  BY <1>1 DEF Passed, IndexerState
<1>3. e.status = "degraded" => Failed(e).age = e.age
  BY DEF Failed
<1>4. NotYounger(hp) /\ NotYounger(hf)
  BY <1>1, <1>2, <1>3, ReplaceNotYounger
<1>5. heap' \in {hp, hf, Collected(hp), Collected(hf)}
  <2>1. CASE TesterPass
    BY <2>1 DEF TesterPass, StoreEntry
  <2>2. CASE TesterFail
    BY <2>2 DEF TesterFail, StoreEntry
  <2>3. QED
    BY <2>1, <2>2
<1> HIDE DEF hp, hf
<1>6. QED
  BY <1>4, <1>5, CollectedNotYounger

LEMMA StepNotYounger ==
  ASSUME IInv, Next, phase = "up", phase' = "up" PROVE NotYounger(heap')
<1> USE DEF memory
<1>1. CASE DiscoveryAnswer
  <2> DEFINE n == discovery.cur
             h == [heap EXCEPT ![n][FreeSlot(n)] = NewCandidate(discovery.reply)]
  <2>1. n \in Names /\ FreeSlot(n) \in Slots
    BY <1>1, FreeSlotFree DEF DiscoveryAnswer, IInv, InHand
  <2>2. NotYounger(h)
    BY <2>1, ReplaceNotYounger DEF NewCandidate
  <2>3. heap' = heap \/ heap' = Collected(h)
    BY <1>1 DEF DiscoveryAnswer
  <2> HIDE DEF h
  <2>4. QED
    BY <2>2, <2>3, SameNotYounger, CollectedNotYounger
<1>2. ASSUME NEW n \in Names, NEW dropped \in SUBSET Unlisted, TesterNext(n, dropped)
      PROVE  NotYounger(heap')
  <2> DEFINE s == tester.list[n]
             h == [heap EXCEPT ![n][s] = WithId(heap[n][s], tester.map[n])]
  <2>1. s \in Slots
    BY <1>2 DEF TesterNext, ToTest, IInv, TypeOK
  <2>2. WithId(heap[n][s], tester.map[n]).age = heap[n][s].age
    BY DEF WithId
  <2>3. NotYounger(h)
    BY <2>1, <2>2, ReplaceNotYounger
  <2>4. heap' = Collected(h)
    BY <1>2 DEF TesterNext
  <2> HIDE DEF h
  <2>5. QED
    BY <2>3, <2>4, CollectedNotYounger
<1>3. CASE TesterPass \/ TesterFail
  BY <1>3, VerdictNotYounger
<1>4. CASE TesterStore \/ TesterFinish \/ PrunerAnswer \/ PrunerFinish
  <2>1. heap' = Collected(heap)
    BY <1>4 DEF TesterStore, StoreEntry, TesterFinish, PrunerAnswer, PrunerFinish
  <2>2. QED
    BY <2>1, SameNotYounger, CollectedNotYounger
<1>5. CASE Tick
  <2>1. \A n \in Names, s \in Slots :
           heap'[n][s].age = Older(heap[n][s].age) /\ heap[n][s].age \in Int
    <3>1. \A n \in Names, s \in Slots : heap'[n][s] = OlderEntry(heap[n][s])
      BY <1>5 DEF Tick
    <3>2. \A n \in Names, s \in Slots :
             OlderEntry(heap[n][s]).age = Older(heap[n][s].age)
      BY DEF OlderEntry, IInv, TypeOK, IndexerState, Blank
    <3>3. QED
      BY <3>1, <3>2, AgesComparable
  <2>2. \A t \in Int : Older(t) >= t
    BY DEF Older
  <2>3. QED
    BY <2>1, <2>2 DEF NotYounger
<1>6. CASE \/ DiscoveryFetch
           \/ \E n \in Names : DiscoveryPost(n) \/ DiscoveryRefused(n)
           \/ DiscoveryFinish
           \/ TesterFetch \/ TesterBegin \/ TesterEnable
           \/ PrunerBegin \/ PrunerDelete \/ PrunerRefused
           \/ \E n \in Names : PrunerNext(n) \/ UserChange(n)
           \/ QueueMonitorSave
  <2>1. heap' = heap
    BY <1>6 DEF DiscoveryFetch, DiscoveryPost, DiscoveryRefused, DiscoveryFinish,
                TesterFetch, TesterBegin, TesterEnable, PrunerBegin, PrunerDelete,
                PrunerRefused, PrunerNext, UserChange, QueueMonitorSave
  <2>2. QED
    BY <2>1, SameNotYounger
<1>7. CASE Crash \/ Restart
  BY <1>7 DEF Crash, Restart, BootLoad, BootReconcile
<1>8. QED
  BY <1>1, <1>2, <1>3, <1>4, <1>5, <1>6, <1>7
     DEF Next, DiscoveryStep, TesterStep, PrunerStep

-----------------------------------------------------------------------------
(* Only what has passed a test is enabled *)

\* No id is known before Prowlarr has given it out: an indexer added later has
\* an id that the reply the tester works from cannot mention.
IdsKnown ==
    \A n \in Names : prowlarr[n].id <= adds[n] /\ tester.map[n] <= adds[n]

\* The indexer the enabling PUT is about, if Prowlarr still has it, has passed.
EnableIsEarned ==
    tester.pc = "enabling" /\ prowlarr[tester.cur].id = tester.map[tester.cur]
        => sincePass[tester.cur] # Never

PassInv == IdsKnown /\ EnableIsEarned /\ EnabledOnlyAfterPass

LEMMA InitPass == Init => PassInv
<1> SUFFICES ASSUME Init PROVE PassInv
  OBVIOUS
<1>1. ASSUME NEW n \in Names PROVE prowlarr[n].id \in {0, NoId}
  <2>1. prowlarr[n] \in [id : {0}, tagged : BOOLEAN, enabled : BOOLEAN] \cup {Absent}
    BY DEF Init
  <2>2. QED
    BY <2>1 DEF Absent
<1>2. /\ tester.pc = "idle"
      /\ \A n \in Names : adds[n] = 0 /\ tester.map[n] = NoId
  BY DEF Init, IdleTester
<1>3. ASSUME NEW n \in Names PROVE prowlarr[n].id <= adds[n] /\ tester.map[n] <= adds[n]
  <2>1. adds[n] = 0 /\ tester.map[n] = NoId /\ prowlarr[n].id \in {0, NoId}
    BY <1>1, <1>2
  <2>2. 0 <= 0 /\ NoId <= 0
    BY DEF NoId
  <2>3. QED
    BY <2>1, <2>2
<1>4. EnableIsEarned
  BY <1>2 DEF EnableIsEarned
<1>5. EnabledOnlyAfterPass
  BY <1>1 DEF EnabledOnlyAfterPass, NoId
<1>6. QED
  BY <1>3, <1>4, <1>5 DEF PassInv, IdsKnown

LEMMA NoIdIsLeast == ASSUME IInv, NEW n \in Names PROVE NoId <= adds[n]
<1>1. adds \in [Names -> 0 .. MaxAdds]
  BY DEF IInv, TypeOK
<1>2. QED
  BY <1>1, BoundsAssumption DEF NoId

LEMMA IdsAreNumbers ==
  ASSUME IInv, NEW n \in Names
  PROVE  prowlarr[n].id \in Int /\ tester.map[n] \in Int /\ adds[n] \in Int
  BY BoundsAssumption DEF IInv, TypeOK, Indexer, Absent, Ids, NoId

\* Steps that touch neither Prowlarr nor its history, and start no PUT.
QuietForPass ==
    /\ UNCHANGED <<prowlarr, adds, sincePass>>
    /\ tester'.map = tester.map
    /\ tester'.pc = "enabling" => tester.pc = "enabling" /\ tester'.cur = tester.cur

LEMMA QuietPass == ASSUME PassInv, QuietForPass PROVE PassInv'
  BY DEF PassInv, QuietForPass, IdsKnown, EnableIsEarned, EnabledOnlyAfterPass

LEMMA PostPass == ASSUME IInv, PassInv, NEW n \in Names, DiscoveryPost(n) PROVE PassInv'
<1> USE DEF memory, process, budgets
<1>1. /\ prowlarr' = [prowlarr EXCEPT ![n] = CandidateIndexer(n)]
      /\ adds' = [adds EXCEPT ![n] = @ + 1]
      /\ sincePass' = [sincePass EXCEPT ![n] = Never]
      /\ tester' = tester
  BY DEF DiscoveryPost
<1>2. /\ prowlarr'[n] = CandidateIndexer(n)
      /\ \A m \in Names \ {n} : prowlarr'[m] = prowlarr[m] /\ sincePass'[m] = sincePass[m]
      /\ adds'[n] = adds[n] + 1
      /\ \A m \in Names \ {n} : adds'[m] = adds[m]
  BY <1>1 DEF IInv, TypeOK
<1>3. CandidateIndexer(n).id = adds[n] + 1 /\ ~CandidateIndexer(n).enabled
  BY DEF CandidateIndexer
<1>4. IdsKnown'
  BY <1>1, <1>2, <1>3, IdsAreNumbers DEF PassInv, IdsKnown
<1>5. EnableIsEarned'
  <2>1. prowlarr'[n].id # tester'.map[n]
    BY <1>1, <1>2, <1>3, IdsAreNumbers DEF PassInv, IdsKnown
  <2>2. tester.pc = "enabling" => tester.cur \in Names
    BY DEF IInv, InHand
  <2>3. QED
    BY <1>1, <1>2, <2>1, <2>2 DEF PassInv, EnableIsEarned
<1>6. EnabledOnlyAfterPass'
  BY <1>2, <1>3 DEF PassInv, EnabledOnlyAfterPass
<1>7. QED
  BY <1>4, <1>5, <1>6 DEF PassInv

LEMMA FetchPass == ASSUME IInv, PassInv, TesterFetch PROVE PassInv'
<1> USE DEF memory, budgets
<1>1. /\ UNCHANGED <<prowlarr, adds, sincePass>>
      /\ tester'.pc = "fetched" /\ tester'.map = Listed
  BY DEF TesterFetch, IdleTester
<1>2. \A n \in Names : Listed[n] <= adds[n]
  <2> SUFFICES ASSUME NEW n \in Names PROVE Listed[n] <= adds[n]
    OBVIOUS
  <2>1. Listed[n] \in {prowlarr[n].id, NoId}
    BY DEF Listed
  <2>2. prowlarr[n].id <= adds[n] /\ NoId <= adds[n]
    BY NoIdIsLeast DEF PassInv, IdsKnown
  <2>3. QED
    BY <2>1, <2>2
<1>3. IdsKnown'
  BY <1>1, <1>2 DEF PassInv, IdsKnown
<1>4. EnableIsEarned'
  BY <1>1 DEF EnableIsEarned
<1>5. EnabledOnlyAfterPass'
  BY <1>1 DEF PassInv, EnabledOnlyAfterPass
<1>6. QED
  BY <1>3, <1>4, <1>5 DEF PassInv

\* A kill or the end of a run forgets the reply.
LEMMA ForgetPass ==
  ASSUME IInv, PassInv, TesterFinish \/ Crash PROVE PassInv'
<1> USE DEF budgets
<1>1. UNCHANGED <<prowlarr, adds, sincePass>> /\ tester' = IdleTester
  BY DEF TesterFinish, Crash
<1>2. \A n \in Names : tester'.map[n] = NoId /\ NoId <= adds[n]
  BY <1>1, BoundsAssumption DEF IdleTester, NoId, IInv, TypeOK
<1>3. tester'.pc = "idle"
  BY <1>1 DEF IdleTester
<1>4. QED
  BY <1>1, <1>2, <1>3 DEF PassInv, IdsKnown, EnableIsEarned, EnabledOnlyAfterPass

LEMMA VerdictPass == ASSUME IInv, PassInv, TesterPass PROVE PassInv'
<1> DEFINE n == tester.cur
<1> USE DEF budgets
<1>1. n \in Names
  BY EntryInHand DEF TesterPass
<1>2. /\ UNCHANGED <<prowlarr, adds>>
      /\ sincePass' = [sincePass EXCEPT
                         ![n] = IF prowlarr[n].id = tester.map[n] THEN 0 ELSE @]
      /\ tester'.map = tester.map
      /\ tester'.pc = "enabling" => tester'.cur = n
  <2>1. tester \in TesterType
    BY DEF IInv, TypeOK, TesterType
  <2>2. \/ tester' = [tester EXCEPT !.pc = "enabling"]
        \/ tester' = [tester EXCEPT !.pc = "loop", !.cur = NoName, !.list[n] = NoSlot]
    BY DEF TesterPass, StoreEntry
  <2>3. QED
    BY <2>1, <2>2 DEF TesterPass, TesterType
<1> DEFINE since == IF prowlarr[n].id = tester.map[n] THEN 0 ELSE sincePass[n]
<1>3. /\ sincePass \in [Names -> Ages \cup {Never}]
      /\ sincePass' = [sincePass EXCEPT ![n] = since]
  BY <1>2 DEF IInv, TypeOK
<1>4. sincePass[n] # Never => since # Never
  BY DEF Never
<1>5. \A m \in Names : sincePass[m] # Never => sincePass'[m] # Never
  <2> HIDE DEF since
  <2> QED
    BY <1>3, <1>4
<1>6. prowlarr[n].id = tester.map[n] => sincePass'[n] # Never
  BY <1>1, <1>3 DEF Never
<1>7. QED
  BY <1>2, <1>5, <1>6 DEF PassInv, IdsKnown, EnableIsEarned, EnabledOnlyAfterPass

LEMMA EnableKeepsIds ==
  ASSUME IInv, TesterEnable
  PROVE  \A m \in Names :
            /\ prowlarr'[m].id = prowlarr[m].id
            /\ \/ prowlarr'[m] = prowlarr[m]
               \/ m = tester.cur /\ prowlarr[m].id = tester.map[m]
  BY EntryInHand DEF TesterEnable, EnabledIndexer, IInv, TypeOK

LEMMA EnablePass == ASSUME IInv, PassInv, TesterEnable PROVE PassInv'
<1> DEFINE n == tester.cur
<1> USE DEF memory, process, budgets
<1>1. n \in Names /\ tester.pc = "enabling"
  BY EntryInHand DEF TesterEnable
<1>2. /\ UNCHANGED <<adds, sincePass>>
      /\ tester'.map = tester.map
      /\ tester'.pc = "added"
  BY DEF TesterEnable, IInv, TypeOK
<1>3. \A m \in Names :
         /\ prowlarr'[m].id = prowlarr[m].id
         /\ \/ prowlarr'[m] = prowlarr[m]
            \/ m = n /\ prowlarr[m].id = tester.map[m]
  BY EnableKeepsIds
<1>4. QED
  BY <1>1, <1>2, <1>3 DEF PassInv, IdsKnown, EnableIsEarned, EnabledOnlyAfterPass

LEMMA DeletePass == ASSUME IInv, PassInv, PrunerDelete PROVE PassInv'
<1> DEFINE n == pruner.cur
<1> USE DEF memory, process, budgets
<1>1. n \in Names
  BY DEF PrunerDelete, IInv, InHand
<1>2. /\ prowlarr' = [prowlarr EXCEPT ![n] = Absent]
      /\ sincePass' = [sincePass EXCEPT ![n] = Never]
      /\ UNCHANGED <<adds, tester>>
  BY DEF PrunerDelete
<1>3. prowlarr'[n].id = NoId /\ \A m \in Names \ {n} : prowlarr'[m] = prowlarr[m]
  BY <1>1, <1>2 DEF IInv, TypeOK, Absent
<1>4. \A m \in Names \ {n} : sincePass'[m] = sincePass[m]
  BY <1>2 DEF IInv, TypeOK
<1>5. NoId <= adds[n] /\ ~(NoId > 0)
  BY <1>1, BoundsAssumption DEF IInv, TypeOK, NoId
<1>6. tester.pc = "enabling" => tester.cur \in Names /\ tester.map[tester.cur] # NoId
  BY DEF IInv, InHand
<1>7. QED
  BY <1>2, <1>3, <1>4, <1>5, <1>6
     DEF PassInv, IdsKnown, EnableIsEarned, EnabledOnlyAfterPass

LEMMA UserKeepsIds ==
  ASSUME IInv, NEW n \in Names, UserChange(n)
  PROVE  \A m \in Names :
            \/ /\ prowlarr'[m].id = prowlarr[m].id
               /\ prowlarr'[m].enabled \in {prowlarr[m].enabled, FALSE}
            \/ prowlarr'[m] = Absent
<1>1. prowlarr \in [Names -> Indexer \cup {Absent}] /\ prowlarr[n] \in Indexer
  BY DEF UserChange, IInv, TypeOK
<1>2. \E r \in {[prowlarr[n] EXCEPT !.tagged = ~@],
               [prowlarr[n] EXCEPT !.enabled = FALSE], Absent} :
         prowlarr' = [prowlarr EXCEPT ![n] = r]
  BY DEF UserChange
<1>3. \A r \in {[prowlarr[n] EXCEPT !.tagged = ~@],
               [prowlarr[n] EXCEPT !.enabled = FALSE]} :
         r.id = prowlarr[n].id /\ r.enabled \in {prowlarr[n].enabled, FALSE}
  BY <1>1 DEF Indexer
<1>4. QED
  BY <1>1, <1>2, <1>3

LEMMA UserPass == ASSUME IInv, PassInv, NEW n \in Names, UserChange(n) PROVE PassInv'
<1> USE DEF memory, process, jobs
<1>1. UNCHANGED <<adds, sincePass, tester>>
  BY DEF UserChange
<1>2. \A m \in Names : \/ /\ prowlarr'[m].id = prowlarr[m].id
                          /\ prowlarr'[m].enabled \in {prowlarr[m].enabled, FALSE}
                       \/ prowlarr'[m] = Absent
  BY UserKeepsIds
<1>3. \A m \in Names : NoId <= adds[m]
  BY NoIdIsLeast
<1>4. tester.pc = "enabling" => tester.cur \in Names /\ tester.map[tester.cur] # NoId
  BY DEF IInv, InHand
<1>5. Absent.id = NoId /\ ~Absent.enabled
  BY DEF Absent
<1>6. QED
  BY <1>1, <1>2, <1>3, <1>4, <1>5
     DEF PassInv, IdsKnown, EnableIsEarned, EnabledOnlyAfterPass

LEMMA TickPass == ASSUME IInv, PassInv, Tick PROVE PassInv'
<1> USE DEF jobs, budgets
<1>1. UNCHANGED <<prowlarr, adds, tester>> /\ tester.pc # "enabling"
  BY DEF Tick
<1>2. \A m \in Names : sincePass[m] # Never => sincePass'[m] # Never
  BY ThresholdAssumption DEF Tick, IInv, TypeOK, Older, Ages, Never, NoTimer
<1>3. QED
  BY <1>1, <1>2 DEF PassInv, IdsKnown, EnableIsEarned, EnabledOnlyAfterPass

LEMMA NextPass == IInv /\ PassInv /\ [Next]_vars => PassInv'
<1> SUFFICES ASSUME IInv, PassInv, [Next]_vars PROVE PassInv'
  OBVIOUS
<1> USE DEF memory, process, jobs, budgets
<1>1. CASE \E n \in Names : DiscoveryPost(n) \/ UserChange(n)
  BY <1>1, PostPass, UserPass
<1>2. CASE TesterFetch \/ TesterPass \/ TesterEnable \/ TesterFinish \/ Crash
  BY <1>2, FetchPass, VerdictPass, EnablePass, ForgetPass
<1>3. CASE PrunerDelete \/ Tick
  BY <1>3, DeletePass, TickPass
<1>4. CASE \/ DiscoveryFetch \/ DiscoveryAnswer \/ DiscoveryFinish
           \/ \E n \in Names : DiscoveryRefused(n) \/ PrunerNext(n)
           \/ PrunerBegin \/ PrunerRefused \/ PrunerAnswer \/ PrunerFinish
           \/ QueueMonitorSave \/ Restart
           \/ UNCHANGED vars
  <2>1. UNCHANGED <<prowlarr, adds, sincePass, tester>>
    BY <1>4 DEF DiscoveryFetch, DiscoveryAnswer, DiscoveryFinish, DiscoveryRefused,
                PrunerNext, PrunerBegin, PrunerRefused, PrunerAnswer, PrunerFinish,
                QueueMonitorSave, Restart, BootLoad, BootReconcile, vars
  <2>2. QED
    BY <2>1, QuietPass DEF QuietForPass
<1>5. CASE \/ TesterBegin \/ TesterFail \/ TesterStore
           \/ \E n \in Names, dropped \in SUBSET Unlisted : TesterNext(n, dropped)
  <2>1. UNCHANGED <<prowlarr, adds, sincePass>>
    BY <1>5 DEF TesterBegin, TesterFail, TesterStore, TesterNext
  <2>2. tester'.map = tester.map /\ tester'.pc # "enabling"
    BY <1>5 DEF TesterBegin, TesterFail, TesterStore, TesterNext, StoreEntry, IInv, TypeOK
  <2>3. QED
    BY <2>1, <2>2, QuietPass DEF QuietForPass
<1>6. QED
  BY <1>1, <1>2, <1>3, <1>4, <1>5
     DEF Next, DiscoveryStep, TesterStep, PrunerStep

-----------------------------------------------------------------------------
(* What passed within the window is not pruned *)

\* While the process has not been killed: there is no state file before the
\* first start, and reconciliation adopts every indexer anew.
FirstBoot ==
    /\ phase = "down" => disk = NoFile
    /\ phase # "up" => store = NoList

\* A list is empty before its job has read the store.
ListsBelongToRuns ==
    /\ tester.pc \in {"idle", "fetched"} => tester.list = NoList
    /\ pruner.pc = "idle" => pruner.list = NoList

\* The ids in entries and in the startup reply are ids Prowlarr has given out.
IdsGivenOut(n) ==
    /\ boot[n].id <= adds[n]
    /\ \A s \in Slots : heap[n][s].id <= adds[n]

\* The timer of the object in slot s is not older than the last passed test.
Covered(n, s) ==
    heap[n][s].age # NoTimer =>
        sincePass[n] = Never \/ sincePass[n] >= heap[n][s].age

\* The pruner may hold an object that the tester no longer knows; then it must
\* not carry the id of the indexer that Prowlarr has.
AgesCovered(n) ==
    /\ store[n] # NoSlot => Covered(n, store[n])
    /\ tester.list[n] # NoSlot => Covered(n, tester.list[n])
    /\ pruner.list[n] # NoSlot /\ heap[n][pruner.list[n]].id = prowlarr[n].id
          => Covered(n, pruner.list[n])

\* Only discovery replaces an entry the tester holds, by a new candidate.
ReplacedIsCandidate(n) ==
    tester.list[n] # NoSlot /\ store[n] \notin {NoSlot, tester.list[n]}
        => heap[n][store[n]].status = "candidate"

\* An object that the pruner holds beside the tester's is of another indexer.
PrunersIsGone(n) ==
    tester.list[n] # NoSlot /\ pruner.list[n] \notin {NoSlot, tester.list[n]}
        => heap[n][pruner.list[n]].id # prowlarr[n].id

\* The tester has read the store in this clock unit and will not do so again
\* while the pruner runs.
TestedThisUnit == "tester" \in ran /\ tester.pc # "fetched"

\* If the pruner's object has been replaced in the store and nevertheless has
\* the current id, the tester wrote the id into it in this clock unit.
ReplacedIsTested(n) ==
    /\ pruner.list[n] # NoSlot
    /\ store[n] \notin {NoSlot, pruner.list[n]}
    /\ heap[n][pruner.list[n]].id = prowlarr[n].id
    => TestedThisUnit

\* The same of the object into which the tester is about to write the id.
RelistedIsTested(n) ==
    /\ pruner.list[n] # NoSlot
    /\ tester.list[n] # NoSlot
    /\ store[n] \notin {NoSlot, tester.list[n]}
    /\ tester.map[n] = prowlarr[n].id /\ tester.map[n] # NoId
    => "tester" \in ran

\* Until discovery consumes the reply to its POST, only a tester that began
\* after the POST, in this clock unit, can know the new id.
ReplyIsNews ==
    discovery.pc = "posted" /\ discovery.reply # NoId =>
        LET n == discovery.cur IN
        /\ discovery.reply <= adds[n]
        /\ prowlarr[n].id \in {discovery.reply, NoId}
        /\ tester.map[n] = discovery.reply => "tester" \in ran
        /\ \A s \in Slots : heap[n][s].id = discovery.reply => TestedThisUnit

NameInv(n) ==
    /\ IdsGivenOut(n)
    /\ AgesCovered(n)
    /\ ReplacedIsCandidate(n)
    /\ PrunersIsGone(n)
    /\ ReplacedIsTested(n)
    /\ RelistedIsTested(n)

PruneInv ==
    /\ FirstBoot
    /\ ListsBelongToRuns
    /\ ReplyIsNews
    /\ \A n \in Names : NameInv(n)

LEMMA RefFacts ==
  ASSUME IInv, NEW n \in Names
  PROVE  /\ \A s \in {store[n], tester.list[n], pruner.list[n]} :
               /\ s \in Slots \cup {NoSlot}
               /\ s # NoSlot => /\ s \in Slots
                                /\ heap[n][s] \in IndexerState
                                /\ heap[n][s].id # NoId
                                /\ HasTimerIffDegraded(heap[n][s])
         /\ \A s \in Slots : heap[n][s].id \in Int /\ heap[n][s].age \in Int
         /\ adds[n] \in Int
         /\ NoSlot \notin Slots
<1>1. ASSUME NEW s \in {store[n], tester.list[n], pruner.list[n]}, s # NoSlot
      PROVE  /\ s \in Slots
             /\ heap[n][s] \in IndexerState
             /\ heap[n][s].id # NoId
             /\ HasTimerIffDegraded(heap[n][s])
  <2>1. s \in Slots /\ heap[n][s] \in IndexerState
    BY <1>1 DEF IInv, TypeOK, Live
  <2>2. heap[n][s] \in SoundEntry
    BY <2>1 DEF IInv, SoundHeap
  <2>3. heap[n][s].id \in Ids
    BY <2>1 DEF IndexerState
  <2>4. QED
    BY <2>1, <2>2, <2>3, BoundsAssumption DEF SoundEntry, Ids, NoId
<1>2. ASSUME NEW s \in Slots PROVE heap[n][s].id \in Int
  <2>1. heap[n][s] \in IndexerState \cup {Blank}
    BY DEF IInv, TypeOK
  <2>2. QED
    BY <2>1, BoundsAssumption DEF IndexerState, Blank, Ids, NoId
<1>3. \A s \in {store[n], tester.list[n], pruner.list[n]} : s \in Slots \cup {NoSlot}
  BY DEF IInv, TypeOK
<1>4. NoSlot \notin Slots
  BY DEF NoSlot, Slots
<1>5. QED
  BY <1>1, <1>2, <1>3, <1>4, AgesComparable, IdsAreNumbers

\* What collecting garbage leaves of an object.
LEMMA CollectedKeeps ==
  ASSUME NEW h, heap' = Collected(h), NEW n \in Names, NEW s \in Slots
  PROVE  \/ heap'[n][s] = h[n][s]
         \/ heap'[n][s] = Blank /\ s \notin {store'[n], tester'.list[n], pruner'.list[n]}
  BY DEF Collected

\* Seen from one name: references and objects are kept or forgotten, and
\* Prowlarr keeps or forgets the indexer.
Forgets(n) ==
    /\ store'[n] \in {store[n], NoSlot}
    /\ tester'.list[n] \in {tester.list[n], NoSlot}
    /\ pruner'.list[n] \in {pruner.list[n], NoSlot}
    /\ \A s \in Slots :
          \/ heap'[n][s] = heap[n][s]
          \/ heap'[n][s] = Blank /\ s \notin {store'[n], tester'.list[n], pruner'.list[n]}
    /\ prowlarr'[n].id \in {prowlarr[n].id, NoId}
    /\ tester'.map[n] \in {tester.map[n], NoId}
    /\ sincePass'[n] \in {sincePass[n], Never}
    /\ adds'[n] = adds[n]
    /\ boot'[n] = boot[n]

\* What the tester has done in this clock unit stays done.
UnitGoesOn ==
    /\ "tester" \in ran => "tester" \in ran'
    /\ tester'.pc = "fetched" => tester.pc = "fetched"

LEMMA ForgetName ==
  ASSUME IInv, NEW n \in Names, NameInv(n), Forgets(n), UnitGoesOn
  PROVE  NameInv(n)'
<1> DEFINE s == store[n]
           t == tester.list[n]
           p == pruner.list[n]
<1> USE RefFacts
<1>1. /\ s # NoSlot => s \in Slots /\ heap[n][s].id # NoId
      /\ t # NoSlot => t \in Slots /\ heap[n][t].id # NoId
      /\ p # NoSlot => p \in Slots /\ heap[n][p].id # NoId
  OBVIOUS
<1>2. /\ store'[n] # NoSlot => store'[n] = s /\ heap'[n][s] = heap[n][s]
      /\ tester'.list[n] # NoSlot => tester'.list[n] = t /\ heap'[n][t] = heap[n][t]
      /\ pruner'.list[n] # NoSlot => pruner'.list[n] = p /\ heap'[n][p] = heap[n][p]
  BY <1>1 DEF Forgets
<1>3. IdsGivenOut(n)'
  <2>1. Blank.id <= adds[n]
    BY NoIdIsLeast DEF Blank
  <2>2. QED
    BY <2>1 DEF NameInv, IdsGivenOut, Forgets
<1>4. AgesCovered(n)'
  <2>1. sincePass'[n] \in {sincePass[n], Never}
    BY DEF Forgets
  <2>2. \A r \in Slots : Covered(n, r) /\ heap'[n][r] = heap[n][r] => Covered(n, r)'
    BY <2>1 DEF Covered
  <2>3. pruner'.list[n] # NoSlot /\ heap'[n][p].id = prowlarr'[n].id
           => heap[n][p].id = prowlarr[n].id
    BY <1>1, <1>2 DEF Forgets
  <2>4. /\ store'[n] # NoSlot => Covered(n, s)'
        /\ tester'.list[n] # NoSlot => Covered(n, t)'
        /\ pruner'.list[n] # NoSlot /\ heap'[n][p].id = prowlarr'[n].id => Covered(n, p)'
    BY <1>1, <1>2, <2>2, <2>3 DEF NameInv, AgesCovered
  <2>5. QED
    BY <1>2, <2>4 DEF AgesCovered, Covered
<1>5. ReplacedIsCandidate(n)'
  BY <1>2 DEF NameInv, ReplacedIsCandidate
<1>6. PrunersIsGone(n)'
  BY <1>1, <1>2 DEF NameInv, PrunersIsGone, Forgets
<1>7. ReplacedIsTested(n)'
  <2>1. TestedThisUnit => TestedThisUnit'
    BY DEF TestedThisUnit, UnitGoesOn
  <2>2. QED
    BY <1>1, <1>2, <2>1 DEF NameInv, ReplacedIsTested, Forgets
<1>8. RelistedIsTested(n)'
  BY <1>2 DEF NameInv, RelistedIsTested, Forgets, UnitGoesOn
<1>9. QED
  BY <1>3, <1>4, <1>5, <1>6, <1>7, <1>8 DEF NameInv

\* A step that gives no entry the id of the outstanding reply.
LEMMA ReplyStays ==
  ASSUME IInv, ReplyIsNews, UnitGoesOn,
         discovery'.pc = "posted" /\ discovery'.reply # NoId => discovery' = discovery,
         \A n \in Names :
            /\ adds'[n] = adds[n]
            /\ prowlarr'[n].id \in {prowlarr[n].id, NoId}
            /\ tester'.map[n] \in {tester.map[n], NoId}
            /\ \A s \in Slots : heap'[n][s].id \in {heap[n][s].id, NoId}
  PROVE  ReplyIsNews'
<1> SUFFICES ASSUME discovery'.pc = "posted", discovery'.reply # NoId,
                    discovery' = discovery
             PROVE  ReplyIsNews'
  BY DEF ReplyIsNews
<1> DEFINE n == discovery.cur
<1>1. n \in Names
  BY DEF IInv, InHand
<1>2. TestedThisUnit => TestedThisUnit'
  BY DEF TestedThisUnit, UnitGoesOn
<1>3. QED
  BY <1>1, <1>2 DEF ReplyIsNews, UnitGoesOn

\* The steps that only forget.
LEMMA ForgettingStep ==
  ASSUME IInv, PruneInv, UnitGoesOn, \A n \in Names : Forgets(n),
         discovery'.pc = "posted" /\ discovery'.reply # NoId => discovery' = discovery
  PROVE  ReplyIsNews' /\ \A n \in Names : NameInv(n)'
<1>1. \A n \in Names : NameInv(n)'
  BY ForgetName DEF PruneInv
<1>2. \A n \in Names :
         /\ adds'[n] = adds[n]
         /\ prowlarr'[n].id \in {prowlarr[n].id, NoId}
         /\ tester'.map[n] \in {tester.map[n], NoId}
         /\ \A s \in Slots : heap'[n][s].id \in {heap[n][s].id, NoId}
  BY DEF Forgets, Blank
<1>3. ReplyIsNews'
  BY <1>2, ReplyStays DEF PruneInv
<1>4. QED
  BY <1>1, <1>3

LEMMA ForgetsAll ==
  ASSUME IInv, PruneInv,
         \/ DiscoveryFetch \/ DiscoveryFinish
         \/ \E n \in Names : DiscoveryRefused(n) \/ PrunerNext(n) \/ UserChange(n)
         \/ TesterEnable \/ TesterFinish
         \/ PrunerDelete \/ PrunerRefused \/ PrunerAnswer \/ PrunerFinish
         \/ QueueMonitorSave
         \/ UNCHANGED vars
  PROVE  ReplyIsNews' /\ \A n \in Names : NameInv(n)'
<1> USE DEF memory, process, jobs, budgets
<1>1. CASE \/ DiscoveryFetch \/ DiscoveryFinish
           \/ \E n \in Names : DiscoveryRefused(n)
           \/ QueueMonitorSave
           \/ UNCHANGED vars
  <2>1. /\ UNCHANGED <<prowlarr, adds, heap, store, boot, tester, pruner, sincePass>>
        /\ ran \subseteq ran'
        /\ discovery'.pc = "posted" /\ discovery'.reply # NoId => discovery' = discovery
    <3>1. CASE DiscoveryFetch
      BY <3>1 DEF DiscoveryFetch, Scheduled, IdleDiscovery
    <3>2. CASE DiscoveryFinish
      BY <3>2 DEF DiscoveryFinish, IdleDiscovery
    <3>3. CASE \E n \in Names : DiscoveryRefused(n)
      BY <3>3 DEF DiscoveryRefused
    <3>4. CASE QueueMonitorSave \/ UNCHANGED vars
      BY <3>4 DEF QueueMonitorSave, vars
    <3>5. QED
      BY <1>1, <3>1, <3>2, <3>3, <3>4
  <2>2. UnitGoesOn /\ \A n \in Names : Forgets(n)
    BY <2>1 DEF UnitGoesOn, Forgets
  <2>3. QED
    BY <2>1, <2>2, ForgettingStep
<1>2. CASE \E n \in Names : UserChange(n) \/ PrunerNext(n)
  <2>1. /\ UNCHANGED <<adds, heap, store, boot, ran, discovery, tester, sincePass>>
        /\ pruner'.list = pruner.list
    BY <1>2 DEF UserChange, PrunerNext, IInv, TypeOK
  <2>2. \A m \in Names : prowlarr'[m].id \in {prowlarr[m].id, NoId}
    <3>1. CASE \E n \in Names : PrunerNext(n)
      BY <3>1 DEF PrunerNext
    <3>2. ASSUME NEW n \in Names, UserChange(n)
          PROVE  \A m \in Names : prowlarr'[m].id \in {prowlarr[m].id, NoId}
      <4>1. \A m \in Names : prowlarr'[m].id = prowlarr[m].id \/ prowlarr'[m] = Absent
        BY <3>2, UserKeepsIds
      <4>2. Absent.id = NoId
        BY DEF Absent
      <4>3. QED
        BY <4>1, <4>2
    <3>3. QED
      BY <1>2, <3>1, <3>2
  <2>3. UnitGoesOn /\ \A n \in Names : Forgets(n)
    BY <2>1, <2>2 DEF UnitGoesOn, Forgets
  <2>4. QED
    BY <2>1, <2>3, ForgettingStep
<1>3. CASE TesterEnable
  <2>1. /\ UNCHANGED <<adds, heap, store, boot, ran, discovery, pruner, sincePass>>
        /\ tester'.list = tester.list /\ tester'.map = tester.map /\ tester'.pc = "added"
    BY <1>3 DEF TesterEnable, IInv, TypeOK
  <2>2. \A m \in Names : prowlarr'[m].id = prowlarr[m].id
    BY <1>3, EnableKeepsIds
  <2>3. UnitGoesOn /\ \A n \in Names : Forgets(n)
    BY <2>1, <2>2 DEF UnitGoesOn, Forgets
  <2>4. QED
    BY <2>1, <2>3, ForgettingStep
<1>4. CASE TesterFinish
  <2>1. /\ UNCHANGED <<prowlarr, adds, boot, ran, discovery, pruner, sincePass>>
        /\ tester' = IdleTester
        /\ store' = Drop(store, Unlisted)
        /\ heap' = Collected(heap)
    BY <1>4 DEF TesterFinish
  <2>2. UnitGoesOn /\ \A n \in Names : Forgets(n)
    BY <2>1, CollectedKeeps DEF UnitGoesOn, Forgets, IdleTester, NoList, Drop
  <2>3. QED
    BY <2>1, <2>2, ForgettingStep
<1>5. CASE PrunerDelete \/ PrunerRefused
  <2>1. /\ UNCHANGED <<adds, heap, store, boot, ran, discovery, tester>>
        /\ pruner'.list = pruner.list
    BY <1>5 DEF PrunerDelete, PrunerRefused, IInv, TypeOK
  <2>2. \A m \in Names :
           /\ prowlarr'[m].id \in {prowlarr[m].id, NoId}
           /\ sincePass'[m] \in {sincePass[m], Never}
    <3>1. /\ prowlarr \in [Names -> Indexer \cup {Absent}]
          /\ sincePass \in [Names -> Ages \cup {Never}]
      BY DEF IInv, TypeOK
    <3>2. \/ UNCHANGED <<prowlarr, sincePass>>
          \/ /\ prowlarr' = [prowlarr EXCEPT ![pruner.cur] = Absent]
             /\ sincePass' = [sincePass EXCEPT ![pruner.cur] = Never]
      BY <1>5 DEF PrunerDelete, PrunerRefused
    <3>3. Absent.id = NoId
      BY DEF Absent
    <3>4. QED
      BY <3>1, <3>2, <3>3
  <2>3. UnitGoesOn /\ \A n \in Names : Forgets(n)
    BY <2>1, <2>2 DEF UnitGoesOn, Forgets
  <2>4. QED
    BY <2>1, <2>3, ForgettingStep
<1>6. CASE PrunerAnswer \/ PrunerFinish
  <2>1. /\ UNCHANGED <<prowlarr, adds, boot, ran, discovery, tester, sincePass>>
        /\ heap' = Collected(heap)
    BY <1>6 DEF PrunerAnswer, PrunerFinish
  <2>2. \A m \in Names :
           /\ store'[m] \in {store[m], NoSlot}
           /\ pruner'.list[m] \in {pruner.list[m], NoSlot}
    <3>1. store \in RefsType /\ pruner \in PrunerType
      BY DEF IInv, TypeOK, RefsType, PrunerType
    <3>2. CASE PrunerAnswer
      BY <3>1, <3>2 DEF PrunerAnswer, RefsType, PrunerType
    <3>3. CASE PrunerFinish
      BY <3>1, <3>3 DEF PrunerFinish, IdlePruner, NoList
    <3>4. QED
      BY <1>6, <3>2, <3>3
  <2>3. UnitGoesOn /\ \A n \in Names : Forgets(n)
    BY <2>1, <2>2, CollectedKeeps DEF UnitGoesOn, Forgets
  <2>4. QED
    BY <2>1, <2>3, ForgettingStep
<1>7. QED
  BY <1>1, <1>2, <1>3, <1>4, <1>5, <1>6

\* A new indexer has an id that no entry and no reply carries yet.
LEMMA PostPrune ==
  ASSUME IInv, PassInv, PruneInv, NEW n \in Names, DiscoveryPost(n)
  PROVE  ReplyIsNews' /\ \A m \in Names : NameInv(m)'
<1> USE DEF memory, process, budgets
<1> DEFINE new == adds[n] + 1
<1>1. /\ UNCHANGED <<heap, store, boot, ran, tester, pruner>>
      /\ prowlarr'[n].id = new
      /\ adds'[n] = new
      /\ sincePass'[n] = Never
      /\ discovery'.cur = n /\ discovery'.reply \in {new, NoId}
      /\ \A m \in Names \ {n} : /\ prowlarr'[m] = prowlarr[m]
                                /\ adds'[m] = adds[m]
                                /\ sincePass'[m] = sincePass[m]
  BY DEF DiscoveryPost, CandidateIndexer, IInv, TypeOK
<1>2. /\ \A s \in Slots : heap[n][s].id < new /\ heap[n][s].id <= new
      /\ tester.map[n] < new
      /\ boot[n].id <= new
  <2>1. boot[n].id \in Int
    BY BoundsAssumption DEF IInv, TypeOK, Indexer, Absent, Ids, NoId
  <2>2. boot[n].id <= adds[n] /\ \A s \in Slots : heap[n][s].id <= adds[n]
    BY DEF PruneInv, NameInv, IdsGivenOut
  <2>3. tester.map[n] <= adds[n]
    BY DEF PassInv, IdsKnown
  <2>4. adds[n] \in Int /\ \A s \in Slots : heap[n][s].id \in Int
    BY RefFacts
  <2>5. tester.map[n] \in Int
    BY IdsAreNumbers
  <2>6. QED
    BY <2>1, <2>2, <2>3, <2>4, <2>5
<1>3. /\ \A s \in Slots : heap[n][s].id # new
      /\ tester.map[n] # new
      /\ new \in Int
  BY <1>2, RefFacts, IdsAreNumbers
<1>4. NameInv(n)'
  <2>1. IdsGivenOut(n)'
    BY <1>1, <1>2 DEF IdsGivenOut
  <2>2. \A s \in Slots : Covered(n, s)'
    BY <1>1 DEF Covered
  <2>3. AgesCovered(n)'
    BY <1>1, <2>2, RefFacts DEF AgesCovered, Covered
  <2>4. ReplacedIsCandidate(n)'
    BY <1>1 DEF PruneInv, NameInv, ReplacedIsCandidate
  <2>5. PrunersIsGone(n)' /\ ReplacedIsTested(n)'
    BY <1>1, <1>3, RefFacts DEF PrunersIsGone, ReplacedIsTested
  <2>6. RelistedIsTested(n)'
    BY <1>1, <1>3 DEF RelistedIsTested
  <2>7. QED
    BY <2>1, <2>3, <2>4, <2>5, <2>6 DEF NameInv
<1>5. ASSUME NEW m \in Names \ {n} PROVE NameInv(m)'
  BY <1>1, ForgetName DEF Forgets, UnitGoesOn, PruneInv
<1>6. ReplyIsNews'
  BY <1>1, <1>3 DEF ReplyIsNews
<1>7. QED
  BY <1>4, <1>5, <1>6

\* The candidate replaces the entry: whoever held that one holds an object of
\* another indexer, unless the tester has seen the new one already.
LEMMA AnswerPrune ==
  ASSUME IInv, PruneInv, DiscoveryAnswer
  PROVE  ReplyIsNews' /\ \A m \in Names : NameInv(m)'
<1> USE DEF process, budgets
<1>1. PICK n \in Names : n = discovery.cur
  BY DEF DiscoveryAnswer, IInv, InHand
<1>2. PICK new \in Ids \cup {NoId} : new = discovery.reply
  BY DEF IInv, TypeOK
<1>3. PICK f \in Slots : f = FreeSlot(n)
  BY FreeSlotFree
<1>4. PICK t \in Slots \cup {NoSlot}, p \in Slots \cup {NoSlot} :
         t = tester.list[n] /\ p = pruner.list[n]
  BY DEF IInv, TypeOK
<1> DEFINE h == [heap EXCEPT ![n][f] = NewCandidate(new)]
<1>5. /\ UNCHANGED <<prowlarr, adds, boot, ran, tester, pruner, sincePass>>
      /\ discovery'.pc = "loop" /\ discovery.pc = "posted"
  BY DEF DiscoveryAnswer, IInv, TypeOK
<1>6. UnitGoesOn
  BY <1>5 DEF UnitGoesOn
<1>7. CASE new = NoId
  <2>1. UNCHANGED <<store, heap>>
    BY <1>2, <1>7 DEF DiscoveryAnswer
  <2>2. \A m \in Names : Forgets(m)
    BY <1>5, <2>1 DEF Forgets
  <2>3. QED
    BY <1>5, <1>6, <2>2, ForgettingStep
<1>8. CASE new # NoId
  <2>1. f \in Slots /\ f # t /\ f # p /\ f # NoSlot
    BY <1>3, <1>4, FreeSlotFree DEF Slots, NoSlot
  <2>2. store' = [store EXCEPT ![n] = f] /\ heap' = Collected(h)
    BY <1>1, <1>2, <1>3, <1>8 DEF DiscoveryAnswer
  <2>3. /\ store'[n] = f
        /\ \A m \in Names \ {n} : store'[m] = store[m]
    BY <2>2 DEF IInv, TypeOK
  <2>4. /\ h[n][f] = NewCandidate(new)
        /\ \A s \in Slots \ {f} : h[n][s] = heap[n][s]
        /\ \A m \in Names \ {n}, s \in Slots : h[m][s] = heap[m][s]
    BY <2>1 DEF IInv, TypeOK
  <2> HIDE DEF h
  <2>5. /\ heap'[n][f] = NewCandidate(new)
        /\ t # NoSlot => heap'[n][t] = heap[n][t]
        /\ p # NoSlot => heap'[n][p] = heap[n][p]
        /\ \A s \in Slots \ {f} : heap'[n][s] \in {heap[n][s], Blank}
    BY <1>4, <1>5, <2>1, <2>2, <2>3, <2>4, CollectedKeeps
  <2>6. ASSUME NEW m \in Names \ {n} PROVE NameInv(m)'
    <3>1. Forgets(m)
      BY <1>5, <2>2, <2>3, <2>4, CollectedKeeps DEF Forgets
    <3>2. QED
      BY <1>6, <3>1, ForgetName DEF PruneInv
  <2>7. /\ new <= adds[n]
        /\ prowlarr[n].id \in {new, NoId}
        /\ tester.map[n] = new => "tester" \in ran
        /\ \A s \in Slots : heap[n][s].id = new => TestedThisUnit
    BY <1>1, <1>2, <1>5, <1>8 DEF PruneInv, ReplyIsNews
  <2>8. /\ NewCandidate(new).id = new
        /\ NewCandidate(new).age = NoTimer
        /\ NewCandidate(new).status = "candidate"
    BY DEF NewCandidate
  <2>9. NameInv(n)
    BY DEF PruneInv
  <2>10. IdsGivenOut(n)'
    <3>1. Blank.id <= adds[n]
      BY NoIdIsLeast DEF Blank
    <3>2. ASSUME NEW s \in Slots PROVE heap'[n][s].id <= adds'[n]
      BY <1>5, <2>1, <2>5, <2>7, <2>8, <2>9, <3>1 DEF NameInv, IdsGivenOut
    <3>3. QED
      BY <1>5, <2>9, <3>2 DEF NameInv, IdsGivenOut
  <2>11. AgesCovered(n)'
    <3>1. Covered(n, f)'
      BY <2>5, <2>8 DEF Covered
    <3>2. /\ t # NoSlot => Covered(n, t)'
          /\ p # NoSlot /\ heap'[n][p].id = prowlarr'[n].id => Covered(n, p)'
      BY <1>4, <1>5, <2>5, <2>9 DEF NameInv, AgesCovered, Covered
    <3>3. QED
      BY <1>4, <1>5, <2>3, <3>1, <3>2 DEF AgesCovered, Covered
  <2>12. ReplacedIsCandidate(n)'
    BY <2>3, <2>5, <2>8 DEF ReplacedIsCandidate
  <2>13. PrunersIsGone(n)'
    BY <1>4, <1>5, <2>5, <2>9 DEF NameInv, PrunersIsGone
  <2>14. ReplacedIsTested(n)'
    <3>1. SUFFICES ASSUME p # NoSlot, heap[n][p].id = prowlarr[n].id
                   PROVE  TestedThisUnit
      BY <1>4, <1>5, <2>5 DEF ReplacedIsTested, TestedThisUnit
    <3>2. p \in Slots /\ heap[n][p].id # NoId
      BY <1>4, <3>1, RefFacts
    <3>3. QED
      BY <2>7, <3>1, <3>2
  <2>15. RelistedIsTested(n)'
    BY <1>5, <2>7 DEF RelistedIsTested
  <2>16. ReplyIsNews'
    BY <1>5 DEF ReplyIsNews
  <2>17. QED
    BY <2>6, <2>10, <2>11, <2>12, <2>13, <2>14, <2>15, <2>16 DEF NameInv
<1>9. QED
  BY <1>7, <1>8

\* The tester asks for the list: by now no entry can be of an indexer whose
\* POST has not been answered yet.
LEMMA FetchPrune ==
  ASSUME IInv, PruneInv, TesterFetch
  PROVE  ReplyIsNews' /\ \A m \in Names : NameInv(m)'
<1> USE DEF memory, budgets
<1>1. /\ UNCHANGED <<prowlarr, adds, heap, store, boot, discovery, pruner, sincePass>>
      /\ "tester" \notin ran /\ "tester" \in ran'
      /\ tester'.list = NoList
      /\ \A m \in Names : tester.list[m] = NoSlot
  BY DEF TesterFetch, Scheduled, IdleTester, NoList, PruneInv, ListsBelongToRuns
<1>2. ~TestedThisUnit
  BY <1>1 DEF TestedThisUnit
<1>3. ASSUME NEW m \in Names PROVE NameInv(m)'
  <2>1. NameInv(m) /\ tester'.list[m] = NoSlot
    BY <1>1 DEF PruneInv, NoList
  <2>2. IdsGivenOut(m)'
    BY <1>1, <2>1 DEF NameInv, IdsGivenOut
  <2>3. AgesCovered(m)'
    BY <1>1, <2>1 DEF NameInv, AgesCovered, Covered
  <2>4. ReplacedIsCandidate(m)' /\ PrunersIsGone(m)'
    BY <2>1 DEF ReplacedIsCandidate, PrunersIsGone
  <2>5. ReplacedIsTested(m)'
    BY <1>1, <1>2, <2>1 DEF NameInv, ReplacedIsTested
  <2>6. RelistedIsTested(m)'
    BY <1>1 DEF RelistedIsTested
  <2>7. QED
    BY <2>2, <2>3, <2>4, <2>5, <2>6 DEF NameInv
<1>4. ReplyIsNews'
  BY <1>1, <1>2 DEF PruneInv, ReplyIsNews
<1>5. QED
  BY <1>3, <1>4

\* The tester reads the store: a pruner that holds another object of a name
\* holds one of an indexer that is gone.
LEMMA BeginPrune ==
  ASSUME IInv, PruneInv, TesterBegin
  PROVE  ReplyIsNews' /\ \A m \in Names : NameInv(m)'
<1> USE DEF memory, process, budgets
<1>1. /\ UNCHANGED <<prowlarr, adds, heap, store, boot, ran, discovery, pruner, sincePass>>
      /\ tester'.list = store /\ tester'.map = tester.map
      /\ tester.pc = "fetched"
  BY DEF TesterBegin, IInv, TypeOK
<1>2. ~TestedThisUnit
  BY <1>1 DEF TestedThisUnit
<1>3. ASSUME NEW m \in Names PROVE NameInv(m)'
  <2>1. NameInv(m)
    BY DEF PruneInv
  <2>2. IdsGivenOut(m)'
    BY <1>1, <2>1 DEF NameInv, IdsGivenOut
  <2>3. AgesCovered(m)'
    BY <1>1, <2>1 DEF NameInv, AgesCovered, Covered
  <2>4. ReplacedIsCandidate(m)' /\ RelistedIsTested(m)'
    BY <1>1 DEF ReplacedIsCandidate, RelistedIsTested
  <2>5. PrunersIsGone(m)' /\ ReplacedIsTested(m)'
    BY <1>1, <1>2, <2>1 DEF NameInv, ReplacedIsTested, PrunersIsGone
  <2>6. QED
    BY <2>2, <2>3, <2>4, <2>5 DEF NameInv
<1>4. ReplyIsNews'
  BY <1>1, <1>2 DEF PruneInv, ReplyIsNews
<1>5. QED
  BY <1>3, <1>4

\* The id goes into the tester's object.  If the pruner holds it too and the
\* store has replaced it, the tester began in this clock unit.
LEMMA NextPrune ==
  ASSUME IInv, PassInv, PruneInv, NEW n \in Names, NEW dropped \in SUBSET Unlisted,
         TesterNext(n, dropped)
  PROVE  ReplyIsNews' /\ \A m \in Names : NameInv(m)'
<1> USE DEF budgets, process
<1>1. PICK t \in Slots \cup {NoSlot}, p \in Slots \cup {NoSlot} :
         t = tester.list[n] /\ p = pruner.list[n]
  BY DEF IInv, TypeOK
<1> DEFINE h == [heap EXCEPT ![n][t] = WithId(@, tester.map[n])]
<1>2. /\ UNCHANGED <<prowlarr, adds, boot, ran, discovery, pruner, sincePass>>
      /\ tester'.pc = "testing" /\ tester'.map = tester.map
      /\ tester'.list = Drop(tester.list, dropped)
      /\ tester.pc = "loop"
      /\ store' = Drop(store, dropped)
      /\ heap' = Collected(h)
      /\ t \in Slots /\ t # NoSlot
      /\ tester.map[n] # NoId
  BY <1>1 DEF TesterNext, ToTest, IInv, TypeOK
<1>3. n \notin dropped
  BY <1>2 DEF Unlisted
<1>4. /\ h[n][t] = WithId(heap[n][t], tester.map[n])
      /\ \A s \in Slots \ {t} : h[n][s] = heap[n][s]
      /\ \A m \in Names \ {n}, s \in Slots : h[m][s] = heap[m][s]
  BY <1>2 DEF IInv, TypeOK
<1> HIDE DEF h
<1>5. UnitGoesOn
  BY <1>2 DEF UnitGoesOn
<1>6. ASSUME NEW m \in Names \ {n} PROVE NameInv(m)'
  <2>1. Forgets(m)
    BY <1>2, <1>4, CollectedKeeps DEF Forgets, Drop
  <2>2. QED
    BY <1>5, <2>1, ForgetName DEF PruneInv
<1>7. store'[n] = store[n] /\ tester'.list[n] = t
  BY <1>1, <1>2, <1>3 DEF Drop
<1>8. /\ heap'[n][t].id = tester.map[n]
      /\ heap'[n][t].age = heap[n][t].age
      /\ store[n] \notin {NoSlot, t} => heap'[n][store[n]] = heap[n][store[n]]
      /\ p \notin {NoSlot, t} => heap'[n][p] = heap[n][p]
      /\ \A s \in Slots \ {t} : heap'[n][s] \in {heap[n][s], Blank}
  <2>1. heap[n][t] \in IndexerState
    BY <1>1, <1>2, RefFacts
  <2>2. /\ WithId(heap[n][t], tester.map[n]).id = tester.map[n]
        /\ WithId(heap[n][t], tester.map[n]).age = heap[n][t].age
    BY <2>1 DEF WithId, IndexerState
  <2>3. heap'[n][t] = h[n][t]
    BY <1>2, <1>7, CollectedKeeps
  <2>4. store[n] \in Slots \cup {NoSlot}
    BY DEF IInv, TypeOK
  <2>5. /\ store[n] \notin {NoSlot, t} => heap'[n][store[n]] = h[n][store[n]]
        /\ p \notin {NoSlot, t} => heap'[n][p] = h[n][p]
        /\ \A s \in Slots : heap'[n][s] \in {h[n][s], Blank}
    BY <1>1, <1>2, <1>7, <2>4, CollectedKeeps
  <2>6. QED
    BY <1>4, <2>2, <2>3, <2>4, <2>5
<1>9. NameInv(n)
  BY DEF PruneInv
<1>10. TestedThisUnit => TestedThisUnit'
  BY <1>5 DEF TestedThisUnit, UnitGoesOn
<1>11. IdsGivenOut(n)'
  <2>1. Blank.id <= adds[n]
    BY NoIdIsLeast DEF Blank
  <2>2. tester.map[n] <= adds[n]
    BY DEF PassInv, IdsKnown
  <2>3. QED
    BY <1>2, <1>8, <1>9, <2>1, <2>2 DEF NameInv, IdsGivenOut
<1>12. AgesCovered(n)'
  <2>1. Covered(n, t)'
    BY <1>1, <1>2, <1>8, <1>9 DEF NameInv, AgesCovered, Covered
  <2>2. ASSUME NEW s \in Slots, s = store[n], s # t PROVE Covered(n, s)'
    BY <1>2, <1>8, <1>9, <2>2, RefFacts DEF NameInv, AgesCovered, Covered
  <2>3. p \notin {NoSlot, t} /\ heap'[n][p].id = prowlarr'[n].id => Covered(n, p)'
    BY <1>1, <1>2, <1>8, <1>9 DEF NameInv, AgesCovered, Covered
  <2>4. store[n] \in Slots \cup {NoSlot}
    BY DEF IInv, TypeOK
  <2>5. QED
    BY <1>1, <1>2, <1>7, <2>1, <2>2, <2>3, <2>4 DEF AgesCovered, Covered
<1>13. ReplacedIsCandidate(n)'
  BY <1>1, <1>2, <1>7, <1>8, <1>9 DEF NameInv, ReplacedIsCandidate
<1>14. PrunersIsGone(n)'
  BY <1>1, <1>2, <1>7, <1>8, <1>9 DEF NameInv, PrunersIsGone
<1>15. ReplacedIsTested(n)'
  <2>1. CASE p = t
    <3>1. SUFFICES ASSUME store[n] \notin {NoSlot, t}, tester.map[n] = prowlarr[n].id
                   PROVE  TestedThisUnit'
      BY <1>1, <1>2, <1>7, <1>8, <2>1 DEF ReplacedIsTested
    <3>2. "tester" \in ran
      BY <1>1, <1>2, <1>9, <2>1, <3>1 DEF NameInv, RelistedIsTested
    <3>3. QED
      BY <1>2, <3>2 DEF TestedThisUnit
  <2>2. CASE p # t
    BY <1>1, <1>2, <1>7, <1>8, <1>9, <1>10, <2>2 DEF NameInv, ReplacedIsTested
  <2>3. QED
    BY <2>1, <2>2
<1>16. RelistedIsTested(n)'
  BY <1>1, <1>2, <1>7, <1>9 DEF NameInv, RelistedIsTested
<1>17. ReplyIsNews'
  <2>1. SUFFICES ASSUME discovery.pc = "posted", discovery.reply # NoId
                 PROVE  ReplyIsNews'
    BY <1>2 DEF ReplyIsNews
  <2>2. PICK m \in Names : m = discovery.cur
    BY <2>1 DEF IInv, InHand
  <2>3. /\ discovery.reply <= adds[m]
        /\ prowlarr[m].id \in {discovery.reply, NoId}
        /\ tester.map[m] = discovery.reply => "tester" \in ran
        /\ \A s \in Slots : heap[m][s].id = discovery.reply => TestedThisUnit
    BY <2>1, <2>2 DEF PruneInv, ReplyIsNews
  <2>4. ASSUME NEW s \in Slots, heap'[m][s].id = discovery.reply PROVE TestedThisUnit'
    <3>1. CASE m = n /\ s = t
      <4>1. "tester" \in ran
        BY <1>8, <2>3, <2>4, <3>1
      <4>2. QED
        BY <1>2, <4>1 DEF TestedThisUnit
    <3>2. CASE ~(m = n /\ s = t)
      <4>1. heap'[m][s] \in {heap[m][s], Blank}
        BY <1>2, <1>4, <1>8, <3>2, CollectedKeeps
      <4>2. heap[m][s].id = discovery.reply
        BY <2>1, <2>4, <4>1 DEF Blank
      <4>3. QED
        BY <1>10, <2>3, <4>2
    <3>3. QED
      BY <3>1, <3>2
  <2>5. QED
    BY <1>2, <2>2, <2>3, <2>4 DEF ReplyIsNews
<1>18. QED
  BY <1>6, <1>11, <1>12, <1>13, <1>14, <1>15, <1>16, <1>17 DEF NameInv

\* A verdict rewrites the tester's object, which may then go back into the
\* store.  A pass stops its timer; what else has a timer is of another indexer.
LEMMA HandPrune ==
  ASSUME IInv, PruneInv,
         NEW n \in Names, NEW t \in Slots, t = tester.list[n],
         NEW e, e.id = heap[n][t].id,
         e.age # NoTimer => /\ sincePass'[n] = sincePass[n]
                            /\ e.age \in {0, heap[n][t].age},
         \A m \in Names \ {n} : sincePass'[m] = sincePass[m],
         UNCHANGED <<prowlarr, adds, boot, ran, discovery, pruner>>,
         tester'.map = tester.map, tester'.pc # "fetched",
         \/ store' = store /\ tester'.list = tester.list
         \/ /\ store' = [store EXCEPT ![n] = t]
            /\ tester'.list = [tester.list EXCEPT ![n] = NoSlot],
         NEW h, h = [heap EXCEPT ![n][t] = e],
         heap' \in {h, Collected(h)}
  PROVE  ReplyIsNews' /\ \A m \in Names : NameInv(m)'
<1>1. PICK p \in Slots \cup {NoSlot}, s \in Slots \cup {NoSlot} :
         p = pruner.list[n] /\ s = store[n]
  BY DEF IInv, TypeOK
<1>2. /\ h[n][t] = e
      /\ \A r \in Slots \ {t} : h[n][r] = heap[n][r]
      /\ \A m \in Names \ {n}, r \in Slots : h[m][r] = heap[m][r]
  BY DEF IInv, TypeOK
<1>3. \A m \in Names, r \in Slots :
         \/ heap'[m][r] = h[m][r]
         \/ heap'[m][r] = Blank /\ r \notin {store'[m], tester'.list[m], pruner'.list[m]}
  BY CollectedKeeps
<1>4. t # NoSlot
  BY DEF Slots, NoSlot
<1>5. UnitGoesOn
  BY DEF UnitGoesOn
<1>6. /\ store \in RefsType /\ tester.list \in RefsType
  BY DEF IInv, TypeOK, RefsType
<1>7. ASSUME NEW m \in Names \ {n} PROVE NameInv(m)'
  <2>1. store'[m] = store[m] /\ tester'.list[m] = tester.list[m]
    BY <1>6 DEF RefsType
  <2>2. Forgets(m)
    BY <1>2, <1>3, <2>1 DEF Forgets
  <2>3. QED
    BY <1>5, <2>2, ForgetName DEF PruneInv
<1>8. NameInv(n)
  BY DEF PruneInv
<1>9. \/ store'[n] = s /\ tester'.list[n] = t
      \/ store'[n] = t /\ tester'.list[n] = NoSlot
  BY <1>1, <1>6 DEF RefsType
<1>10. /\ heap'[n][t] = e
       /\ p \notin {NoSlot, t} => heap'[n][p] = heap[n][p]
       /\ s \notin {NoSlot, t} /\ store'[n] = s => heap'[n][s] = heap[n][s]
       /\ \A r \in Slots : heap'[n][r].id \in {heap[n][r].id, NoId}
  BY <1>1, <1>2, <1>3, <1>9 DEF Blank
<1>11. p \notin {NoSlot, t} => heap'[n][p].id # prowlarr'[n].id
  BY <1>1, <1>4, <1>8, <1>10 DEF NameInv, PrunersIsGone
<1>12. s \notin {NoSlot, t} =>
         heap[n][s].status = "candidate" /\ heap[n][s].age = NoTimer
  <2>1. s \notin {NoSlot, t} => heap[n][s].status = "candidate"
    BY <1>1, <1>4, <1>8 DEF NameInv, ReplacedIsCandidate
  <2>2. s # NoSlot => HasTimerIffDegraded(heap[n][s])
    BY <1>1, RefFacts
  <2>3. QED
    BY <2>1, <2>2 DEF HasTimerIffDegraded
<1>13. IdsGivenOut(n)'
  <2>1. NoId <= adds[n]
    BY NoIdIsLeast
  <2>2. QED
    BY <1>8, <1>10, <2>1 DEF NameInv, IdsGivenOut
<1>14. Covered(n, t)'
  <2>1. CASE e.age = NoTimer
    BY <1>10, <2>1 DEF Covered
  <2>2. CASE e.age # NoTimer
    <3>1. sincePass'[n] = sincePass[n] /\ e.age \in {0, heap[n][t].age}
      BY <2>2
    <3>2. sincePass[n] = Never \/ sincePass[n] >= 0
      BY ThresholdAssumption DEF IInv, TypeOK, Ages
    <3>3. Covered(n, t)
      BY <1>4, <1>8 DEF NameInv, AgesCovered
    <3>4. CASE e.age = 0
      BY <1>10, <3>1, <3>2, <3>4 DEF Covered
    <3>5. CASE e.age = heap[n][t].age
      BY <1>10, <2>2, <3>1, <3>3, <3>5 DEF Covered
    <3>6. QED
      BY <3>1, <3>4, <3>5
  <2>3. QED
    BY <2>1, <2>2
<1>15. AgesCovered(n)'
  <2>1. s \notin {NoSlot, t} /\ store'[n] = s => Covered(n, s)'
    BY <1>10, <1>12 DEF Covered
  <2>2. QED
    BY <1>1, <1>9, <1>11, <1>14, <2>1 DEF AgesCovered, Covered
<1>16. ReplacedIsCandidate(n)'
  BY <1>9, <1>10, <1>12 DEF ReplacedIsCandidate
<1>17. PrunersIsGone(n)'
  BY <1>1, <1>9, <1>11 DEF PrunersIsGone
<1>18. ReplacedIsTested(n)'
  <2>1. CASE store'[n] = t
    BY <1>1, <1>11, <2>1 DEF ReplacedIsTested
  <2>2. CASE store'[n] = s
    <3>1. p # NoSlot => heap'[n][p].id = heap[n][p].id
      BY <1>10
    <3>2. TestedThisUnit => TestedThisUnit'
      BY DEF TestedThisUnit
    <3>3. QED
      BY <1>1, <1>8, <2>2, <3>1, <3>2 DEF NameInv, ReplacedIsTested
  <2>3. QED
    BY <1>9, <2>1, <2>2
<1>19. RelistedIsTested(n)'
  BY <1>1, <1>8, <1>9 DEF NameInv, RelistedIsTested
<1>20. ReplyIsNews'
  <2>1. ASSUME NEW m \in Names, NEW r \in Slots
        PROVE  heap'[m][r].id \in {heap[m][r].id, NoId}
    <3>1. CASE m = n
      BY <1>10, <3>1
    <3>2. CASE m # n
      BY <1>2, <1>3, <3>2 DEF Blank
    <3>3. QED
      BY <3>1, <3>2
  <2>2. QED
    BY <1>5, <2>1, ReplyStays DEF PruneInv
<1>21. QED
  BY <1>7, <1>13, <1>15, <1>16, <1>17, <1>18, <1>19, <1>20 DEF NameInv

LEMMA VerdictPrune ==
  ASSUME IInv, PruneInv, TesterPass \/ TesterFail \/ TesterStore
  PROVE  ReplyIsNews' /\ \A m \in Names : NameInv(m)'
<1> USE DEF budgets, process
<1>1. tester.pc \in {"testing", "added", "degraded"}
  BY DEF TesterPass, TesterFail, TesterStore
<1>2. PICK n \in Names : n = tester.cur
  BY <1>1, EntryInHand
<1>3. PICK t \in Slots : t = tester.list[n]
  BY <1>1, <1>2, EntryInHand
<1>4. PICK e : e = heap[n][t]
  OBVIOUS
<1>5. e \in IndexerState /\ HasTimerIffDegraded(e)
  BY <1>1, <1>2, <1>3, <1>4, EntryInHand
<1>6. tester \in TesterType /\ sincePass \in [Names -> Ages \cup {Never}]
  BY DEF IInv, TypeOK, TesterType
<1>7. UNCHANGED <<prowlarr, adds, boot, ran, discovery, pruner>>
  BY DEF TesterPass, TesterFail, TesterStore, StoreEntry
<1>8. \/ /\ tester' \in {[tester EXCEPT !.pc = "enabling"], [tester EXCEPT !.pc = "degraded"]}
         /\ UNCHANGED store
      \/ /\ tester' = [tester EXCEPT !.pc = "loop", !.cur = NoName, !.list[n] = NoSlot]
         /\ store' = [store EXCEPT ![n] = t]
  BY <1>2, <1>3 DEF TesterPass, TesterFail, TesterStore, StoreEntry
<1>9. /\ tester'.map = tester.map /\ tester'.pc # "fetched"
      /\ \/ store' = store /\ tester'.list = tester.list
         \/ /\ store' = [store EXCEPT ![n] = t]
            /\ tester'.list = [tester.list EXCEPT ![n] = NoSlot]
  BY <1>6, <1>8 DEF TesterType
<1>10. CASE TesterPass
  <2>1. PICK g : g = Passed(e)
    OBVIOUS
  <2>2. g.id = e.id /\ g.age = NoTimer
    BY <1>5, <2>1 DEF Passed, IndexerState, HasTimerIffDegraded
  <2>3. \A m \in Names \ {n} : sincePass'[m] = sincePass[m]
    BY <1>2, <1>6, <1>10 DEF TesterPass
  <2>4. PICK h : h = [heap EXCEPT ![n][t] = g]
    OBVIOUS
  <2>5. heap' \in {h, Collected(h)}
    BY <1>2, <1>3, <1>4, <1>10, <2>1, <2>4 DEF TesterPass, StoreEntry
  <2>6. QED
    BY <1>3, <1>4, <1>7, <1>9, <2>2, <2>3, <2>4, <2>5, HandPrune
<1>11. CASE TesterFail
  <2>1. PICK g : g = Failed(e)
    OBVIOUS
  <2>2. g.id = e.id /\ g.age \in {0, e.age}
    BY <1>5, <2>1 DEF Failed, IndexerState
  <2>3. UNCHANGED sincePass
    BY <1>11 DEF TesterFail
  <2>4. PICK h : h = [heap EXCEPT ![n][t] = g]
    OBVIOUS
  <2>5. heap' \in {h, Collected(h)}
    BY <1>2, <1>3, <1>4, <1>11, <2>1, <2>4 DEF TesterFail, StoreEntry
  <2>6. QED
    BY <1>3, <1>4, <1>7, <1>9, <2>2, <2>3, <2>4, <2>5, HandPrune
<1>12. CASE TesterStore
  <2>1. UNCHANGED sincePass /\ heap' = Collected(heap)
    BY <1>12 DEF TesterStore, StoreEntry
  <2>2. PICK h : h = [heap EXCEPT ![n][t] = e]
    OBVIOUS
  <2>3. h = heap
    BY <1>4, <2>2 DEF IInv, TypeOK
  <2>4. QED
    BY <1>3, <1>4, <1>7, <1>9, <2>1, <2>2, <2>3, HandPrune
<1>13. QED
  BY <1>10, <1>11, <1>12

\* The pruner's snapshot holds degraded entries of the store: the tester, if
\* it holds an object of the name at all, holds the same one.
LEMMA SnapshotPrune ==
  ASSUME IInv, PruneInv, PrunerBegin
  PROVE  ReplyIsNews' /\ \A m \in Names : NameInv(m)'
<1> USE DEF memory, budgets
<1>1. /\ UNCHANGED <<prowlarr, adds, heap, store, boot, discovery, tester, sincePass>>
      /\ ran \subseteq ran'
      /\ \A m \in Names :
            pruner'.list[m] # NoSlot =>
                pruner'.list[m] = store[m] /\ heap[m][store[m]].status = "degraded"
  BY DEF PrunerBegin, Scheduled, IdlePruner
<1>2. UnitGoesOn
  BY <1>1 DEF UnitGoesOn
<1>3. ASSUME NEW m \in Names PROVE NameInv(m)'
  <2>1. NameInv(m)
    BY DEF PruneInv
  <2>2. pruner'.list[m] # NoSlot =>
           /\ pruner'.list[m] = store[m]
           /\ tester.list[m] \in {NoSlot, store[m]}
    BY <1>1, <2>1 DEF NameInv, ReplacedIsCandidate
  <2>3. IdsGivenOut(m)' /\ ReplacedIsCandidate(m)'
    BY <1>1, <2>1 DEF NameInv, IdsGivenOut, ReplacedIsCandidate
  <2>4. AgesCovered(m)'
    BY <1>1, <2>1, <2>2 DEF NameInv, AgesCovered, Covered
  <2>5. PrunersIsGone(m)' /\ ReplacedIsTested(m)' /\ RelistedIsTested(m)'
    BY <1>1, <2>2 DEF PrunersIsGone, ReplacedIsTested, RelistedIsTested
  <2>6. QED
    BY <2>3, <2>4, <2>5 DEF NameInv
<1>4. \A m \in Names :
         /\ adds'[m] = adds[m]
         /\ prowlarr'[m].id \in {prowlarr[m].id, NoId}
         /\ tester'.map[m] \in {tester.map[m], NoId}
         /\ \A s \in Slots : heap'[m][s].id \in {heap[m][s].id, NoId}
  BY <1>1
<1>5. ReplyIsNews'
  BY <1>1, <1>2, <1>4, ReplyStays DEF PruneInv
<1>6. QED
  BY <1>3, <1>5

\* The first start: there is no file, every entry is adopted without a timer.
LEMMA BootPrune ==
  ASSUME IInv, PruneInv, PassInv, BootLoad \/ BootReconcile
  PROVE  ReplyIsNews' /\ \A m \in Names : NameInv(m)'
<1> USE DEF jobs, budgets
<1>1. /\ UNCHANGED <<prowlarr, adds, sincePass, ran, discovery, tester, pruner>>
      /\ phase # "up"
  BY DEF BootLoad, BootReconcile
<1>2. /\ discovery = IdleDiscovery /\ tester = IdleTester /\ pruner = IdlePruner
      /\ store = NoList
  BY <1>1 DEF IInv, JobsOnlyWhenUp, PruneInv, FirstBoot
<1>3. \A m \in Names : /\ tester'.list[m] = NoSlot /\ pruner'.list[m] = NoSlot
                       /\ store[m] = NoSlot
  BY <1>1, <1>2 DEF IdleTester, IdlePruner, NoList
<1>4. ReplyIsNews'
  BY <1>1, <1>2 DEF ReplyIsNews, IdleDiscovery
<1>5. ASSUME NEW m \in Names
      PROVE  /\ boot'[m].id <= adds[m]
             /\ \A s \in Slots : /\ heap'[m][s].id <= adds[m]
                                 /\ heap'[m][s].age = NoTimer
  <2>1. NoId <= adds[m] /\ Blank.id = NoId /\ Blank.age = NoTimer /\ Absent.id = NoId
    BY NoIdIsLeast DEF Blank, Absent
  <2>2. CASE BootLoad
    <3>1. disk.entries[m] = Blank
      BY <2>2 DEF BootLoad, PruneInv, FirstBoot, NoFile
    <3>2. heap'[m] = [EmptyHeap[m] EXCEPT ![1] = Blank] /\ boot'[m] = prowlarr[m]
      BY <2>2, <3>1 DEF BootLoad
    <3>3. \A s \in Slots : heap'[m][s] = Blank
      BY <3>2 DEF EmptyHeap
    <3>4. prowlarr[m].id <= adds[m]
      BY DEF PassInv, IdsKnown
    <3>5. QED
      BY <2>1, <3>2, <3>3, <3>4
  <2>3. CASE BootReconcile
    <3>1. heap'[m] = [EmptyHeap[m] EXCEPT ![1] = Reconciled(m)] /\ boot'[m] = Absent
      BY <2>3 DEF BootReconcile, NoReply
    <3>2. Reconciled(m) \in {Blank, Adopted(m)}
      BY <1>3 DEF Reconciled
    <3>3. Adopted(m).id <= adds[m] /\ Adopted(m).age = NoTimer
      BY DEF Adopted, PruneInv, NameInv, IdsGivenOut
    <3>4. \A s \in Slots : heap'[m][s] \in {Blank, Adopted(m)}
      BY <3>1, <3>2 DEF EmptyHeap
    <3>5. QED
      BY <2>1, <3>1, <3>3, <3>4
  <2>4. QED
    BY <2>2, <2>3
<1>6. ASSUME NEW m \in Names PROVE store'[m] \in Slots \cup {NoSlot}
  BY <1>6 DEF BootLoad, BootReconcile, Slots
<1>7. ASSUME NEW m \in Names PROVE NameInv(m)'
  <2>1. IdsGivenOut(m)'
    BY <1>1, <1>5 DEF IdsGivenOut
  <2>2. AgesCovered(m)'
    BY <1>1, <1>3, <1>5, <1>6 DEF AgesCovered, Covered
  <2>3. /\ ReplacedIsCandidate(m)' /\ PrunersIsGone(m)'
        /\ ReplacedIsTested(m)' /\ RelistedIsTested(m)'
    BY <1>3 DEF ReplacedIsCandidate, PrunersIsGone, ReplacedIsTested, RelistedIsTested
  <2>4. QED
    BY <2>1, <2>2, <2>3 DEF NameInv
<1>8. QED
  BY <1>4, <1>7

\* Time ages a timer and the last pass alike, up to the threshold.
LEMMA OlderMonotone ==
  ASSUME NEW a \in Ages, NEW b \in Ages, a <= b
  PROVE  Older(a) <= Older(b) /\ Older(b) # Never
  BY ThresholdAssumption DEF Ages, Older, NoTimer, Never

LEMMA TickPrune ==
  ASSUME IInv, PruneInv, Tick
  PROVE  ReplyIsNews' /\ \A m \in Names : NameInv(m)'
<1> USE DEF jobs, budgets
<1>1. /\ UNCHANGED <<prowlarr, adds, store, boot, discovery, tester, pruner>>
      /\ discovery.pc # "posted"
      /\ pruner.pc = "idle"
  BY DEF Tick
<1>2. \A m \in Names : pruner.list[m] = NoSlot
  BY <1>1 DEF PruneInv, ListsBelongToRuns, NoList
<1>3. \A m \in Names, s \in Slots :
         /\ heap'[m][s].id = heap[m][s].id
         /\ heap'[m][s].status = heap[m][s].status
         /\ heap'[m][s].age = Older(heap[m][s].age)
  <2>1. \A m \in Names, s \in Slots : heap'[m][s] = OlderEntry(heap[m][s])
    BY DEF Tick
  <2>2. \A e \in IndexerState \cup {Blank} :
           /\ OlderEntry(e).id = e.id
           /\ OlderEntry(e).status = e.status
           /\ OlderEntry(e).age = Older(e.age)
    BY DEF OlderEntry, IndexerState, Blank
  <2>3. QED
    BY <2>1, <2>2 DEF IInv, TypeOK
<1>4. ReplyIsNews'
  BY <1>1 DEF ReplyIsNews
<1>5. ASSUME NEW m \in Names PROVE NameInv(m)'
  <2>1. NameInv(m)
    BY DEF PruneInv
  <2>2. ASSUME NEW s \in {store[m], tester.list[m]}, s # NoSlot, Covered(m, s)
        PROVE  Covered(m, s)'
    <3>1. s \in Slots /\ heap[m][s] \in IndexerState
      BY <2>2, RefFacts
    <3>2. heap[m][s].age \in Ages \cup {NoTimer} /\ sincePass[m] \in Ages \cup {Never}
      BY <3>1 DEF IndexerState, IInv, TypeOK
    <3>3. sincePass'[m] = Older(sincePass[m])
      BY DEF Tick
    <3>4. Older(NoTimer) = NoTimer /\ Older(Never) = Never
      BY DEF Older, NoTimer, Never
    <3>5. CASE heap[m][s].age = NoTimer \/ sincePass[m] = Never
      BY <1>3, <3>1, <3>3, <3>4, <3>5 DEF Covered
    <3>6. CASE heap[m][s].age # NoTimer /\ sincePass[m] # Never
      <4>1. heap[m][s].age \in Ages /\ sincePass[m] \in Ages
        BY <3>2, <3>6
      <4>2. heap[m][s].age <= sincePass[m]
        BY <2>2, <3>6, <4>1, ThresholdAssumption DEF Covered, Ages
      <4>3. Older(heap[m][s].age) <= Older(sincePass[m])
        BY <4>1, <4>2, OlderMonotone
      <4>4. Older(heap[m][s].age) \in Int /\ Older(sincePass[m]) \in Int
        BY <4>1, ThresholdAssumption DEF Older, Ages
      <4>5. QED
        BY <1>3, <3>1, <3>3, <4>3, <4>4 DEF Covered
    <3>7. QED
      BY <3>5, <3>6
  <2>3. IdsGivenOut(m)'
    BY <1>1, <1>3, <2>1 DEF NameInv, IdsGivenOut
  <2>4. AgesCovered(m)'
    BY <1>1, <1>2, <2>1, <2>2 DEF NameInv, AgesCovered, Covered
  <2>5. ReplacedIsCandidate(m)'
    <3>1. store[m] # NoSlot => store[m] \in Slots
      BY RefFacts
    <3>2. QED
      BY <1>1, <1>3, <2>1, <3>1 DEF NameInv, ReplacedIsCandidate
  <2>6. PrunersIsGone(m)' /\ ReplacedIsTested(m)' /\ RelistedIsTested(m)'
    BY <1>1, <1>2 DEF PrunersIsGone, ReplacedIsTested, RelistedIsTested
  <2>7. QED
    BY <2>3, <2>4, <2>5, <2>6 DEF NameInv
<1>6. QED
  BY <1>4, <1>5

\* Without kills there is one start, from an empty file.
LEMMA FirstBootStays ==
  ASSUME MaxCrashes = 0, IInv, PruneInv, [Next]_vars PROVE FirstBoot'
<1> USE DEF memory, process, jobs, budgets
<1>1. ~Crash
  BY DEF Crash, IInv, TypeOK
<1>2. CASE phase = "up"
  <2>1. phase' = "up"
    BY <1>1, <1>2
       DEF Next, DiscoveryStep, TesterStep, PrunerStep, Restart, vars,
           DiscoveryFetch, DiscoveryPost, DiscoveryRefused, DiscoveryAnswer,
           DiscoveryFinish, TesterFetch, TesterBegin, TesterNext, TesterPass,
           TesterFail, TesterEnable, TesterStore, TesterFinish, PrunerBegin,
           PrunerNext, PrunerDelete, PrunerRefused, PrunerAnswer, PrunerFinish,
           QueueMonitorSave, BootLoad, BootReconcile, UserChange, Tick
  <2>2. QED
    BY <2>1 DEF FirstBoot
<1>3. CASE phase # "up"
  <2>1. /\ discovery.pc = "idle" /\ tester.pc = "idle" /\ pruner.pc = "idle"
        /\ store = NoList
    BY <1>3 DEF IInv, JobsOnlyWhenUp, IdleDiscovery, IdleTester, IdlePruner,
                PruneInv, FirstBoot
  <2>2. ~DiscoveryStep
    BY <1>3, <2>1 DEF DiscoveryStep, DiscoveryFetch, Scheduled, DiscoveryPost,
                      DiscoveryRefused, DiscoveryAnswer, DiscoveryFinish
  <2>3. ~TesterStep
    BY <1>3, <2>1 DEF TesterStep, TesterFetch, Scheduled, TesterBegin, TesterNext,
                      TesterPass, TesterFail, TesterEnable, TesterStore, TesterFinish
  <2>4. ~PrunerStep
    BY <1>3, <2>1 DEF PrunerStep, PrunerBegin, Scheduled, PrunerNext, PrunerDelete,
                      PrunerRefused, PrunerAnswer, PrunerFinish
  <2>5. CASE BootLoad
    <3>1. \A n \in Names : disk.entries[n] = Blank
      BY <2>5 DEF BootLoad, PruneInv, FirstBoot, NoFile
    <3>2. store' = NoList /\ phase' = "reconciling"
      BY <2>5, <3>1 DEF BootLoad, NoList
    <3>3. QED
      BY <3>2 DEF FirstBoot
  <2>6. CASE BootReconcile
    BY <2>6 DEF BootReconcile, FirstBoot
  <2>7. CASE (\E n \in Names : UserChange(n)) \/ UNCHANGED vars
    BY <2>7 DEF UserChange, vars, PruneInv, FirstBoot
  <2>8. CASE Tick
    <3>1. phase = "down" => disk' = NoFile
      <4>1. OlderEntry(Blank) = Blank
        BY DEF OlderEntry, Blank, Older
      <4>2. ASSUME phase = "down"
            PROVE  /\ disk = NoFile
                   /\ disk' = [disk EXCEPT
                        !.entries = [n \in Names |-> OlderEntry(disk.entries[n])]]
        BY <2>8, <4>2 DEF Tick, PruneInv, FirstBoot
      <4>3. [n \in Names |-> OlderEntry(NoFile.entries[n])] = [n \in Names |-> Blank]
        BY <4>1 DEF NoFile
      <4>4. QED
        BY <4>2, <4>3 DEF NoFile
    <3>2. QED
      BY <2>8, <3>1 DEF Tick, PruneInv, FirstBoot
  <2>9. ~QueueMonitorSave
    BY <1>3 DEF QueueMonitorSave
  <2>10. QED
    BY <1>1, <2>2, <2>3, <2>4, <2>5, <2>6, <2>7, <2>8, <2>9 DEF Next, Restart
<1>4. QED
  BY <1>2, <1>3

LEMMA ListsStay ==
  ASSUME IInv, PruneInv, [Next]_vars PROVE ListsBelongToRuns'
<1> USE DEF memory, process, jobs, budgets
<1>1. tester \in TesterType /\ pruner \in PrunerType
  BY DEF IInv, TypeOK, TesterType, PrunerType
<1>2. \/ tester' = tester
      \/ tester'.pc \notin {"idle", "fetched"}
      \/ tester'.list = NoList
  <2>1. CASE TesterStep
    <3>1. CASE TesterFetch \/ TesterFinish
      <4>1. TesterFetch => tester'.list = NoList
        BY DEF TesterFetch, IdleTester
      <4>2. TesterFinish => tester'.list = NoList
        BY DEF TesterFinish, IdleTester
      <4>3. QED
        BY <3>1, <4>1, <4>2
    <3>2. CASE TesterBegin \/ \E n \in Names, dropped \in SUBSET Unlisted : TesterNext(n, dropped)
      BY <1>1, <3>2 DEF TesterBegin, TesterNext, TesterType
    <3>3. CASE TesterPass \/ TesterFail \/ TesterEnable \/ TesterStore
      BY <1>1, <3>3 DEF TesterPass, TesterFail, TesterEnable, TesterStore, StoreEntry, TesterType
    <3>4. QED
      BY <2>1, <3>1, <3>2, <3>3 DEF TesterStep
  <2>2. CASE Crash
    BY <2>2 DEF Crash, IdleTester
  <2>3. CASE ~TesterStep /\ ~Crash
    BY <2>3 DEF Next, DiscoveryStep, PrunerStep, Restart, vars,
           DiscoveryFetch, DiscoveryPost, DiscoveryRefused, DiscoveryAnswer,
           DiscoveryFinish, PrunerBegin,
           PrunerNext, PrunerDelete, PrunerRefused, PrunerAnswer, PrunerFinish,
           QueueMonitorSave, BootLoad, BootReconcile, UserChange, Tick
  <2>4. QED
    BY <2>1, <2>2, <2>3
<1>3. \/ pruner' = pruner
      \/ pruner'.pc # "idle"
      \/ pruner'.list = NoList
  <2>1. CASE PrunerStep
    <3>1. CASE PrunerFinish
      BY <3>1 DEF PrunerFinish, IdlePruner
    <3>2. CASE PrunerBegin
      BY <3>2 DEF PrunerBegin, IdlePruner
    <3>3. CASE (\E n \in Names : PrunerNext(n)) \/ PrunerDelete \/ PrunerRefused \/ PrunerAnswer
      BY <1>1, <3>3 DEF PrunerNext, PrunerDelete, PrunerRefused, PrunerAnswer, PrunerType
    <3>4. QED
      BY <2>1, <3>1, <3>2, <3>3 DEF PrunerStep
  <2>2. CASE Crash
    BY <2>2 DEF Crash, IdlePruner
  <2>3. CASE ~PrunerStep /\ ~Crash
    BY <2>3 DEF Next, DiscoveryStep, TesterStep, Restart, vars,
           DiscoveryFetch, DiscoveryPost, DiscoveryRefused, DiscoveryAnswer,
           DiscoveryFinish, TesterFetch, TesterBegin, TesterNext, TesterPass,
           TesterFail, TesterEnable, TesterStore, TesterFinish, StoreEntry,
           QueueMonitorSave, BootLoad, BootReconcile, UserChange, Tick
  <2>4. QED
    BY <2>1, <2>2, <2>3
<1>4. QED
  BY <1>2, <1>3 DEF PruneInv, ListsBelongToRuns

LEMMA InitPrune == Init => PruneInv
<1> SUFFICES ASSUME Init PROVE PruneInv
  OBVIOUS
<1>1. \A m \in Names : /\ store[m] = NoSlot
                       /\ tester.list[m] = NoSlot /\ pruner.list[m] = NoSlot
  BY DEF Init, NoList, IdleTester, IdlePruner
<1>2. FirstBoot /\ ListsBelongToRuns
  BY DEF Init, FirstBoot, ListsBelongToRuns, IdleTester, IdlePruner
<1>3. ReplyIsNews
  BY DEF Init, ReplyIsNews, IdleDiscovery
<1>4. ASSUME NEW m \in Names PROVE IdsGivenOut(m)
  BY DEF Init, IdsGivenOut, NoReply, Absent, EmptyHeap, Blank, NoId
<1>5. ASSUME NEW m \in Names
      PROVE  /\ AgesCovered(m) /\ ReplacedIsCandidate(m) /\ PrunersIsGone(m)
             /\ ReplacedIsTested(m) /\ RelistedIsTested(m)
  BY <1>1 DEF AgesCovered, ReplacedIsCandidate, PrunersIsGone, ReplacedIsTested,
              RelistedIsTested
<1>6. QED
  BY <1>2, <1>3, <1>4, <1>5 DEF PruneInv, NameInv

LEMMA NextPrunes ==
  ASSUME MaxCrashes = 0
  PROVE  IInv /\ PassInv /\ PruneInv /\ [Next]_vars => PruneInv'
<1> SUFFICES ASSUME IInv, PassInv, PruneInv, [Next]_vars PROVE PruneInv'
  OBVIOUS
<1>1. FirstBoot' /\ ListsBelongToRuns'
  BY FirstBootStays, ListsStay
<1>2. ~Crash
  BY DEF Crash, IInv, TypeOK
<1>3. ReplyIsNews' /\ \A m \in Names : NameInv(m)'
  <2>1. CASE \/ DiscoveryFetch \/ DiscoveryFinish
             \/ \E n \in Names : DiscoveryRefused(n) \/ PrunerNext(n) \/ UserChange(n)
             \/ TesterEnable \/ TesterFinish
             \/ PrunerDelete \/ PrunerRefused \/ PrunerAnswer \/ PrunerFinish
             \/ QueueMonitorSave
             \/ UNCHANGED vars
    BY <2>1, ForgetsAll
  <2>2. CASE \E n \in Names : DiscoveryPost(n)
    BY <2>2, PostPrune
  <2>3. CASE DiscoveryAnswer
    BY <2>3, AnswerPrune
  <2>4. CASE TesterFetch \/ TesterBegin
    BY <2>4, FetchPrune, BeginPrune
  <2>5. CASE \E n \in Names, dropped \in SUBSET Unlisted : TesterNext(n, dropped)
    BY <2>5, NextPrune
  <2>6. CASE TesterPass \/ TesterFail \/ TesterStore
    BY <2>6, VerdictPrune
  <2>7. CASE PrunerBegin
    BY <2>7, SnapshotPrune
  <2>8. CASE Restart \/ Tick
    BY <2>8, BootPrune, TickPrune DEF Restart
  <2>9. QED
    BY <1>2, <2>1, <2>2, <2>3, <2>4, <2>5, <2>6, <2>7, <2>8
       DEF Next, DiscoveryStep, TesterStep, PrunerStep
<1>4. QED
  BY <1>1, <1>3 DEF PruneInv

\* Only PrunerNext issues a DELETE, for an overdue entry.
LEMMA IssuedIsOld ==
  ASSUME IInv, PruneInv, [Next]_vars, NEW n \in Names, PruneIssued(n)
  PROVE  sincePass[n] \in {Never, PruneThreshold}
<1> USE DEF memory, process, jobs, budgets
<1>1. pruner.pc = "loop" /\ pruner'.pc = "deleting" /\ pruner'.cur = n
      /\ pruner'.id = prowlarr[n].id
  BY DEF PruneIssued
<1>2. pruner \in PrunerType
  BY DEF IInv, TypeOK, PrunerType
<1>3. PICK m \in Names : PrunerNext(m)
  <2>1. ~Crash /\ ~PrunerBegin /\ ~PrunerDelete /\ ~PrunerRefused
    BY <1>1 DEF Crash, IdlePruner, PrunerBegin, PrunerDelete, PrunerRefused
  <2>2. ~PrunerAnswer /\ ~PrunerFinish
    BY <1>1 DEF PrunerAnswer, PrunerFinish, IdlePruner
  <2>3. pruner' # pruner
    BY <1>1
  <2>4. ~DiscoveryStep /\ ~TesterStep
    BY <2>3 DEF DiscoveryStep, TesterStep,
           DiscoveryFetch, DiscoveryPost, DiscoveryRefused, DiscoveryAnswer,
           DiscoveryFinish, TesterFetch, TesterBegin, TesterNext, TesterPass,
           TesterFail, TesterEnable, TesterStore, TesterFinish, StoreEntry
  <2>5. /\ ~QueueMonitorSave /\ ~Restart /\ ~Tick /\ ~(UNCHANGED vars)
        /\ ~\E k \in Names : UserChange(k)
    BY <2>3 DEF QueueMonitorSave, Restart, BootLoad, BootReconcile, UserChange, Tick, vars
  <2>6. QED
    BY <2>1, <2>2, <2>4, <2>5 DEF Next, PrunerStep
<1>4. m = n
  BY <1>1, <1>2, <1>3 DEF PrunerNext, PrunerType
<1>5. PICK p \in Slots \cup {NoSlot} : p = pruner.list[n]
  BY DEF IInv, TypeOK
<1>6. /\ p # NoSlot /\ Overdue(heap[n][p])
      /\ heap[n][p].id = prowlarr[n].id
  BY <1>1, <1>2, <1>3, <1>4, <1>5 DEF PrunerNext, ToPrune, PrunerType
<1>7. Covered(n, p)
  BY <1>5, <1>6 DEF PruneInv, NameInv, AgesCovered
<1>8. heap[n][p].age \in Int /\ heap[n][p].age >= PruneThreshold /\ heap[n][p].age # NoTimer
  BY <1>5, <1>6, RefFacts DEF Overdue
<1>9. sincePass[n] \in Ages \cup {Never}
  BY DEF IInv, TypeOK
<1>10. QED
  BY <1>7, <1>8, <1>9, ThresholdAssumption DEF Covered, Ages

-----------------------------------------------------------------------------
(* Theorems *)

LEMMA SpecInv == Spec => []IInv
  BY InitInv, NextInv, PTL DEF Spec

\* Every variable keeps its type: in particular no job follows a reference to
\* an object that is gone, and no PUT invents an indexer.
THEOREM TypeCorrect == Spec => []TypeOK
<1>1. IInv => TypeOK
  BY DEF IInv
<1>2. QED
  BY <1>1, SpecInv, PTL

\* The prune window of every degraded entry has a start and no other entry has
\* a window, in memory and on disk, through crashes and restarts.
THEOREM DegradedHasTimerAlways == Spec => []DegradedHasTimer
<1>1. IInv => DegradedHasTimer
  BY DEF IInv, DegradedHasTimer, SoundHeap, SoundEntry
<1>2. QED
  BY <1>1, SpecInv, PTL

\* While the process runs, a later failure, a save or another job's step never
\* restarts the prune window of an entry that stays degraded.
THEOREM WindowsNeverRestart == Spec => TimerNeverRestarts
<1>1. IInv /\ [Next]_vars =>
        [\A n \in Names, s \in Slots :
           /\ phase = "up" /\ phase' = "up"
           /\ heap[n][s].status = "degraded"
           /\ heap'[n][s].status = "degraded"
           => heap'[n][s].age >= heap[n][s].age]_vars
  BY StepNotYounger DEF NotYounger
<1>2. QED
  BY <1>1, SpecInv, PTL DEF Spec, TimerNeverRestarts

\* An indexer docktarr added is enabled only after it has passed a test, through
\* lost replies, replacements, the user's changes, crashes and restarts: an
\* enabling PUT that comes too late names an id that Prowlarr never gives again.
THEOREM EnabledIsEarned == Spec => []EnabledOnlyAfterPass
<1>1. PassInv => EnabledOnlyAfterPass
  BY DEF PassInv
<1>2. Spec => []PassInv
  BY InitPass, NextPass, SpecInv, PTL DEF Spec
<1>3. QED
  BY <1>1, <1>2, PTL

\* As long as the process is not killed, the pruner never asks Prowlarr to
\* delete an indexer that passed a test within the prune window, for any number
\* of additions, replacements, lost replies and changes by the user.  The
\* hypothesis is the code's: a kill loses the recoveries since the last save.
THEOREM RecentPassIsKept ==
  ASSUME MaxCrashes = 0
  PROVE  Spec => RecentPassNeverPruned
<1>1. Spec => [](IInv /\ PassInv /\ PruneInv)
  <2>1. Init => IInv /\ PassInv /\ PruneInv
    BY InitInv, InitPass, InitPrune
  <2>2. (IInv /\ PassInv /\ PruneInv) /\ [Next]_vars => (IInv /\ PassInv /\ PruneInv)'
    BY NextInv, NextPass, NextPrunes
  <2>3. QED
    BY <2>1, <2>2, PTL DEF Spec
<1>2. IInv /\ PassInv /\ PruneInv /\ [Next]_vars =>
        [\A n \in Names :
            PruneIssued(n) => sincePass[n] \in {Never, PruneThreshold}]_vars
  BY IssuedIsOld
<1>3. QED
  BY <1>1, <1>2, PTL DEF Spec, RecentPassNeverPruned

=============================================================================
