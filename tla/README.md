# Formal models of docktarr

TLA+ models of docktarr, TLC runs that check them on small instances and TLAPS
proofs of the results that hold for every instance.  Paths below are relative
to the repository (`src/docktarr/...`); `README.md:<line>` is the repository's README.

## 1. Inventory

docktarr is one Python process.  `main.py` loads `/config/state.json`,
reconciles it with Prowlarr and starts an APScheduler `AsyncIOScheduler`; every
job is a coroutine on one asyncio loop, with at most one instance of each job
(`max_instances = 1`) and missed runs coalesced.  Jobs therefore interleave at
their `await`s and nowhere else.  They share the `StateStore`, the `Notifier`
(whose `emit` swallows HTTP errors but is an `await`), one Docker client, one
qBittorrent client and `HealthState` (display only).

| Component | State it keeps | Operations | What is hard |
|---|---|---|---|
| Discovery, tester, pruner (`discovery.py`, `tester.py`, `pruner.py`, `prowlarr.py`) | entries of the store, mutated in place | add candidates; promote, degrade, recover; delete | three jobs on shared references across awaits; stale replies; swallowed errors |
| State store and startup (`state.py`, `main.py` `_reconcile`) | `_data`, the file | load, save, reconcile | kills between and inside saves; ids that are out of date |
| Arr service watchdog (`arr_services.py`) | failure counter and last restart attempt per service | probe, count, restart | counter, threshold and cooldown together |
| qBittorrent health (`qbit_health.py`), VPN health (`vpn_health.py`) | the same, plus start times of containers | restart after failures or when the VPN restarted | restarts that bypass the cooldown; two jobs restarting each other's dependency |
| Service responsiveness (`service_responsiveness.py`) | the same per probe, internal and external | restart a service or its proxy | probes that share a proxy |
| Arr command queue, scheduler health (`arr_command_queue.py`, `arr_scheduler_health.py`) | burst baseline (saved), wedge counters | classify, drain | baseline after failed drains; commands listed before and deleted after an await |
| Plex throttle (`plex_throttle.py`) | last activity, current limit, last label | set qBittorrent's limit | grace window, failed applications |
| Plex connections guard (`plex_connections_guard.py`) | none of its own; Plex's preferences | detect drift, three PUTs | a repair that stops half-way |
| Media QA, imposter detector (`media_qa.py`, `imposter_detector.py`) | verdict cache, set of errors, ffprobe binaries; the detector none | list, probe, judge, delete and search | four jobs on the same files; what was listed is old when it is probed and deleted; two requests per remediation |
| Artwork health (`artwork_health.py`) | breach counter per signal | read, alert, heal, probe, refresh | one counter noted at three places; alert once, repair until it succeeds |
| Mount audit (`mount_audit.py`) | none | test, make, test again | three commands per path while mounts come and go |
| Permissions health, SSH (`permissions_health.py`, `ssh_client.py`) | cached connection | find, chown in batches | scan and repair are two steps; a dead cached connection |
| PID pressure (`pid_pressure.py`) | streak per container | sample, alert, restart | streak across errors and restarts |
| Plex singleton, stall detector (`plex_singleton.py`, `stall_detector.py`, `qbittorrent.py`) | none | classify, act | classification of corner cases |
| Disk health, hardware report, container audit, notifier, health endpoint, clients, configuration | none or display only | parse, compare, format | - |

What makes each component correct:

- *Indexers*: docktarr never deletes an indexer that works, never enables one
  that has not passed a test, measures the prune window from the first failure,
  tracks every indexer it manages and gets rid of every entry that is stale.
- *Watchdogs* (arr services, responsiveness, qBittorrent, VPN): a container is
  restarted for a cause only and not again within its cooldown, and it is
  brought back in the end.
- *Plex throttle*: a stream has its cap, the cap is held for the grace window
  and lifted afterwards.
- *Plex connections guard*: a working address is never overwritten, a live
  server is listed with a working address in the end.
- *Queue monitor*: only queued searches that some program posted in bulk are
  cancelled, a burst is a real increase since the last count, an old pile does
  not last, and a blocked scheduler is relieved.
- *Media QA, imposters*: no good file is deleted, a bad one is found, and what is
  deleted is searched for.
- *Artwork health*: one alert per drift of the consumer, which is enabled again,
  and lost artwork is written again.
- *PID pressure*: a container is restarted after enough breaches in a row, again
  only after as many, and for as long as it leaks.
- *Permissions, mounts*: linked files keep their owner, wrong owners are given
  back, and what an audit reports of a path is so.

## 2. Plan

Order: the indexer lifecycle first (it is what docktarr is for, it has the only
persistent state of consequence and the worst interleavings); then the Plex
jobs; then the watchdogs that restart containers, two of them against one
abstract restart guard; then the queue monitor; then the jobs that delete and repair
files, containers and settings.

| Module | State |
|---|---|
| `IndexerLifecycle`, `IndexerLifecycle_proofs` | done |
| `PlexThrottle`, `PlexThrottle_proofs` | done |
| `PlexConnectionsGuard`, `PlexConnectionsGuard_proofs` | done |
| `RestartGuard` (abstract), `Capped` (counters and ages), `ArrServices`, `ArrServices_proofs` | done |
| `ServiceResponsiveness`, `ServiceResponsiveness_proofs` (against `RestartGuard`); `RoutePattern`, its documented sign of a bad proxy | done |
| `QbitVpn`, `QbitVpn_proofs`: the two watchdogs composed, since each restarts what the other depends on | done |
| `ArrCommandQueue`, `ArrCommandQueue_proofs`: classification, burst baseline and drains, with the scheduler health job that forces drains | done |
| `MediaRules`, `LibraryQa`: media QA and imposter detector composed over one library | done |
| `ArtworkHealth`, `PidPressure`, `PermissionsHealth`, `MountAudit` | done |
| `Monitors`, `Monitors_proofs`: `LibraryQa` and these four, which share no state, composed | done |
| Stall detector and Plex singleton | not modelled, see section 5 |

Every invariant and action property of the runs that pass is proved.  Left are
results no run asks for yet: what bounds the restarts of a proxy that routes
share, and what of `RecentPassNeverPruned` survives a kill.

## 3. Models and runs

Each component module has one action per step of the code between two awaits;
the comment before an action or the module's header names the function.  Module
`MC<Module>` extends it with what an instance needs, `<Module>_<run>.cfg` is the
instance.  `MCWatchdogs` and `MCMonitors` each check several modules that share no
state in one run: a behaviour is one of the module that is chosen at its start
(`part`, `job`), since interleaving them would show nothing that each does not
show alone.  Fairness is that of the modules' own specifications; as the choice
never changes, fairness of one action of each module taken together is fairness of
each of them, which keeps the number of conditions small enough for TLC.  Variables marked "history" are read by properties only.  Definitions
that no behaviour uses (`CountKept` next to `CountForgotten`) are variants of
the definition that follows with a plausible mistake; each property was seen to
fail with one of them.

Three conventions hold throughout.

- *Time.*  Jobs run hours or minutes apart, requests take seconds.  The clock
  counts units shorter than a job's interval and longer than a request, so that
  a job starts at most once in a unit and no unit passes while a request is
  outstanding.  Only ages are kept, capped at the threshold or cooldown they are
  compared with, and so are counters.
- *Bounds.*  The environment's faults are bounded by constants named in the
  modules (`MaxFaults`, `MaxCrashes`, ...); everything else is unbounded or
  finite by itself.
- *Requests.*  The step that sends a request, the step in which the other side
  serves it and the one in which its reply is used are separate where something
  may happen between them.  A GET that fails ends the run with nothing changed
  and is modelled as no run at all.

### IndexerLifecycle

`heap` holds the `IndexerState` objects and `store` the references of
`StateStore._data`, because `all()` and `get_by_status()` hand out references
that jobs keep over awaits: `run_tester` may put an object back that
`run_pruner` has removed.  `prowlarr` is Prowlarr, `disk` the state file, torn
by a kill in the middle of `save`.  `discovery`, `tester` and `pruner` are the
three coroutines with their local variables; `boot` is the startup query of
`_reconcile`.  The user may change tag, enable flag and existence of an indexer.
The counters `failure_count` and `last_failure`, which no code reads, are left
out, as is the order in which a job goes through its list.

| Run | Instance | Shows |
|---|---|---|
| `two` | two indexers tested and pruned in the same runs, threshold 1, one change by the user, no kills; symmetric | `TypeOK`; `RecentPassNeverPruned`: an indexer that passed a test within the window is never deleted, wherever the verdicts fall between the pruner's snapshot and its DELETEs |
| `live` | one definition, threshold 2, added twice, one kill, lost replies, fair | `DegradedHasTimer`, `EnabledOnlyAfterPass`, `TimerNeverRestarts`, `StaleEntriesDropped`, `NeverStuckDegraded` |
| `orphan` | one definition, one addition | violation of `ManagedIsTracked` |

Two indexers are needed for the pruner to await one DELETE while the tester
recovers the other entry; two additions for an indexer to be replaced by one of
the same name while the jobs hold the old id.  A third of either adds no new
order of steps, since entries of different names do not touch each other except
through the position of a job.  Threshold 2 tells "reached" from "restarted".
`live` has no changes by the user, so its stale entries come from deletions.
`NeverStuckDegraded` depends on the tester's refresh of the id before it judges: an
entry that it has put back over the one of a new indexer would otherwise be deleted
by its old id, in vain, forever.

Fairness: APScheduler starts each job again and again and every HTTP request
ends by its reply or by its timeout (weak fairness of each job and of the
clock), a killed container is restarted by Docker (`restart: unless-stopped`),
and a DELETE that is asked for again and again is served in the end (strong
fairness: Prowlarr may be down any number of times, but not always).

`orphan`: README.md:44 says the tester health-checks all managed indexers.
`run_tester` removes every entry whose name is not in the reply it fetched at
the start; if discovery adds a candidate after that reply was given, the entry
goes with it.  From then on Prowlarr lists the name, discovery skips it, and
nobody tests the indexer until docktarr restarts.

### PlexThrottle

`current`, `quiet`, `lastLabel` are `current_limit_kbps`, the age of
`last_active_at` and `last_state_label`; `limit` is what qBittorrent has.  The
run polls Plex (`Look`, `PlexUnreachable`) and awaits one POST, which is served
and answered, served with its reply lost, or refused.  The sessions' XML is
reduced to the three labels.

Run `watchdogs` (limits 0, 30, 5; a grace window of two intervals; two restarts)
shows `StreamingCapped`, `HeldThroughGrace` and, under fairness, `LiftedInTheEnd`.
A grace window of two intervals has an inside, an end and an outside.  A reply
that is lost makes docktarr's belief wrong until the next one that arrives:
`lost` is true between the two, and `StreamingCapped` and `LiftedInTheEnd` are
stated for the rest of the time.  Fairness: the job runs again and again, POSTs
end, Plex and qBittorrent answer infinitely often.

### PlexConnectionsGuard

`customConnections`, `publish` and `listed` are, per server, the two preferences
and what plex.tv has; `check` is the run with the addresses it still has to
probe.  The repair is three PUTs, each of which may fail.  Addresses go up and
down and the user adds addresses at any time.

Run `connections` (two endpoints, each of which may publish the other's address;
two changes or restarts; one edit) shows `WorkingAddressKept` and under fairness
`HealedUnlessInterrupted`: what is published by a server and was up during the whole check survives it, and a live
server is listed with an address that works unless its last repair stopped
half-way.  Two endpoints are the deployment's number and what it takes for one
server to publish the other's address.  Fairness: the guard runs again and again
and each kind of request that is repeated is answered in the end.

### RestartGuard, ArrServices, ServiceResponsiveness

`RestartGuard` is what the watchdogs promise: a container is restarted only after
an inspection found it stopped or `Threshold` probes in a row failed, and never
within the cooldown of an earlier restart; everything else is free to happen.

`ArrServices` is `run_arr_services` with its sweep over the services
(`unreachable`, `attempt` are the dictionaries of `ArrServicesState`).  Any
inspection may raise something else than `LookupError` and end the sweep
(`InspectionRaises`).  Run `watchdogs` (three services, the container of the second
cannot be inspected at all; threshold and cooldown 2; three faults) shows that it
implements `RestartGuard` (`Guarded`) and that every service that can be inspected
answers again (`Recovers`), however often inspections and restarts fail on the
way.  Excepted are a service whose container is removed and one that is `Starved`:
as long as a service that can never be inspected is down, its inspection ends every
sweep and no service after it is looked at.  This the code does, against
arr_services.py:6-8, where "docktarr's mandate is to keep ALL configured arr
members alive"; it says nothing of the service that cannot be inspected itself, and
makes no such exception for the services before that one.  Three services are one
before, one at and one after another; three faults let a container exit, hang and
exit again between the awaits of one sweep.

`ServiceResponsiveness` is `run_service_responsiveness`, with an internal and an
external counter and cooldown per probe.  Run `probes` (a route without a proxy,
one with a proxy of its own, a service without a route) shows `Guarded` for the
three services and the proxy, and `FastAgain`.  Routes that share a proxy are left
out (see below).  For a proxy `Guarded` counts as the code does: every tick in which
its route is slow, those included in which the service itself was slow.

Run `pattern` (`RoutePattern`; one route, threshold 3, the default): the
documentation of `_probe_external_route` says more, that a proxy is restarted when
the pattern "internal fast, external slow" repeats for `consecutive_threshold`
ticks (service_responsiveness.py:287-296).  `PatternRepeats` is violated: the
external counter (:352) also counts the ticks in which the service was slow, and
a single tick of the pattern after them restarts the proxy.

Fairness, in both: a sweep is started in every interval and each of its awaits
ends (weak fairness); a restart that is asked for again and again succeeds in
the end, and an inspection is answered, unless the container is one of
`Unreadable` (strong fairness per service).  Neither watchdog saves its state: a kill
of docktarr forgets counters and cooldowns, after which a container may be restarted
sooner than its cooldown allows.  Such kills are not modelled.

### QbitVpn

`run_qbit_health` and `run_vpn_health` over the two containers.  Of the start
times only the order is kept (`stale`: the VPN started after qBittorrent).
qBittorrent answers only if both containers run and it was started last.  It can
be restarted only while the VPN runs, because Docker has to join the VPN's
network.  A failed restart may leave the container stopped.

Run `watchdogs` (threshold 2, cooldown 3, four faults: two for each container, or a
container that exits again after its restart failed) shows `RestartHasCause` and,
under fairness as above, `QbitServes`.  A start is faster than a tick, so that a
container that has just been restarted is not taken for a hung one.  The region
and port checks of the VPN job only emit events and are left out.

### ArrCommandQueue

One arr's command queue (`cmd`) and the job, which asks for the scheduled tasks
(`overdue` counts how late a critical one is), lists the commands, decides and
cancels them one DELETE after the other (`job.ids`).  `base` and `disk` are the
count of the run before in the `StateStore` and in `state.json`; the field `since`
of a count is its age, `posted` is history: the searches that were posted, or
left by a failed drain, since the count was taken.  A drain that takes longer
than the interval is not overtaken by the next run (`max_instances = 1`).
Commands are posted and started by others at any time.  The elevated warning
and the events change no state and are left out.

Run `queue` (two commands; thresholds 2, age 1, wedge 2; one fault, one restart)
shows `OnlyBareSearches`, `BurstIsReal` and, under fairness of the job and of time
alone, `NoStalePile` and `WedgeRelieved`: the arr need not start anything.  Two
commands are the pile that just reaches its threshold; one is the queue that only
the wedge drains.

Run `own`: docktarr posts a search for a file it has deleted, without a trigger,
and the drain cancels it with the rest (`ResearchKept`).

### MediaRules, LibraryQa

`MediaRules` is what `evaluate_media` and `_evaluate_episode` make of a file, whose
content is a record of the facts they read.  `LibraryQa` has the library of one
arr, the files imported so far, `MediaQaState` (`verdicts` by path and size,
`ffprobe`) and for each job its list, the candidate in hand and what has been
probed of it.  Both jobs of `media_qa` and both scans of the imposter detector
run on it; a job lists, probes streams and first frame, judges, deletes by the
listed identifier and posts a search, each a step of its own, while the arr
imports and replaces files and other jobs delete them.  A file's identifier is
used once.  A file holds one slot or several (`SlotsOf`): Sonarr imports a file of
several episodes for all of them, each of them is a candidate with the same path,
size and identifier, and a DELETE by the identifier empties all of them, while the
search that follows names the one episode of the candidate.  `owed` is history: the
file that docktarr removed from each slot, until the slot is searched for.  `auto_remediate` is on; alerts are left out.

In run `jobs` it has two episodes and three files (one of the first episode with PQ
video, no metadata and a broadcast source, which is a dud and an imposter; a good PQ
file of the same episode and size; a Dolby Vision profile 5 file of both), and two
faults or restarts.  Two of the three jobs run at a time, the full scan and either
the scan of recent imports or the imposter detector; the proofs of the two safety
properties have no such bound.  Files of
one path and size are what makes a verdict reach the wrong file; the file of both
is replaced by and replaces files of one of its episodes.  It shows:

- `GoodFilesKept`: what docktarr deletes, from every episode the file held, is bad by
  its own content;
- `RemovedIsSearched`: of every file that docktarr removes at least one episode is
  searched for, unless one is imported before, the request of that remediation
  fails or docktarr is restarted.  No step of another job, and no failure of another
  remediation, lets it be forgotten;
- `DudsFound`: only the full scan is assumed to run on; the scan of recent imports
  owes nothing.  Excepted are a missing ffprobe and a dud that is taken for another
  file of its path and size by the verdict kept for that one: media_qa.py:148-149
  expects a replacement to change the size, and nothing else tells the two apart.

Run `episodes` (no faults; both jobs of `media_qa` list the whole library): the
remediation is to "delete the dud file via the arr API and trigger a re-search"
(media_qa.py:596).  `EpisodesSearched` asks for that search for each episode that
was emptied and is violated: after the first episode's remediation the candidate
of the second finds no file at its path, which is a probe error and not a dud.  The
imposter detector passes over such files (imposter_detector.py:79-82).

### ArtworkHealth, PidPressure, PermissionsHealth, MountAudit

- `ArtworkHealth` is the check of one service with healing and presence check on:
  `breachTicks` is `ArtworkHealthState.breach_ticks`, `held` the consumer as it was
  read, which the PUT writes back.  Counts past the debounce are alike.  Two
  items, debounce 2, two edits or losses, two faults.  `ConsumerAlertOnce`;
  `ConsumerHealed` and `ArtworkComesBack` if the job runs on and the arr runs the
  refreshes it is given.
- `PidPressure` is a run over all containers with `auto_restart` on.  Two
  containers, debounce 2, four changes, two faults.  `RestartsSpaced`, which counts
  the restarts that docktarr knows to have succeeded: one whose reply is lost leaves
  the streak, and the next run may repeat it.  `LeakRelieved` if the job runs on.
- `PermissionsHealth` is one path with `auto_fix` on and the SSH connection: one
  find, then chowns of `BatchSize` files.  `relinked` is history.  Four files, of
  which at most three are repaired in one run (`MaxFiles`; with four nothing is), in
  batches of two: the last batch may be shorter.  One fault of SSH; owner 0 has a
  name on the host.  `LinkedUntouched`; `OwnersRepaired` if the job runs on, as long as the
  connection lasts and there are not too many.
- `MountAudit` is the audit of qBittorrent and of one arr with `auto_fix` on.  Two
  paths, two changes, two faults.  `ReportIsTrue`, of the paths that nobody else
  changed during the audit: of one that was changed no report could be true.

These and `LibraryQa` share no state.  `Monitors` is the process in which their
steps interleave freely; `MonitorsAreIndependent` (section 4) says that of each job
it does what the job alone may do.  Run `jobs` therefore checks one of the five at a
time, with the `TypeOK` of the composition, and no interleaving that matters is lost.

Run `named`: a scan is to find every file with the wrong owner (`DriftSeen`), but
the find prints owners by name and the parser takes only numbers.

### Read in the code, without a run

While modelling these were seen to differ from what a comment or document says;
the models contain the steps that lead to them.

- `indexer.added` is sent although the enabling PUT failed (tester.py:67,
  README.md:113); the pruner deletes by id without asking for the tag
  (pruner.py:34, README.md:51); a recovery that was not saved before a kill is
  forgotten (tester.py:52).
- The grace window holds the class whose limit was last set, not the last one seen
  (plex_throttle.py:168).  After a failure of the second or third PUT the first
  one has already made the Plex preference look right, so that no later check
  detects the drift (plex_connections_guard.py:179, against :17).
- qBittorrent is restarted for every exit code (qbit_health.py:167, against :25);
  an unhealthy VPN container is not restarted (vpn_health.py:103, against :9).
- A service that is down and whose inspection raises something else than
  `LookupError` every time starves the services after it (arr_services.py:209,
  against :6-8; `Recovers` excepts it).  A proxy that two probes share is restarted twice within its
  cooldown, which is kept per probe (service_responsiveness.py:399, against :25-26).
- Two jobs may probe and report one file each (media_qa.py:666, against :147-149);
  answers with an error status count as success (media_qa.py:602); an arr whose
  ffprobe was not found once is not asked again before a restart
  (media_qa.py:377); Radarr is sent `MoviesSearch` (media_qa.py:615), which is not
  the name the drain looks for (arr_command_queue.py:69).
- A listing of recent items that fails re-arms the alert of missing artwork
  (artwork_health.py:434, against README.md:204-205); the PUT undoes what the
  operator changed since the GET (artwork_health.py:316).
- A file that is linked between find and chown is given away with its link
  (permissions_health.py:225); an SSH connection that died is kept
  (ssh_client.py:119); a directory is made where a mount is missing for a moment
  (mount_audit.py:200).
- A torrent is judged by its last activity and the speed of one instant, and the
  comment does not say which decides (stall_detector.py:77, :68-70).

## 4. Proofs

The proofs hold for every value of the constants that satisfies the named
assumptions of the modules (thresholds positive, bounds natural numbers).

- `IndexerLifecycle_proofs`: `TypeCorrect`, `DegradedHasTimerAlways`,
  `WindowsNeverRestart`, `EnabledIsEarned`, `RecentPassIsKept`.  The type invariant
  is not inductive by itself: a step that follows a reference needs the object to
  exist.  `IInv` adds that the references of the store and of the lists of tester
  and pruner lead to objects (`Live`), that a job in the middle of an iteration has
  an entry in hand (`InHand`), that no job runs before the startup is over, and
  that every object and every saved entry agrees in status and timer (`SoundHeap`,
  and the same for the disk).  One lemma per action; the collection of objects
  nobody refers to has lemmas of its own.  `WindowsNeverRestart` is an action
  property proved from `IInv`.

  `EnabledIsEarned` rests on `PassInv`: no id is known before Prowlarr has given it
  out (`IdsKnown`), so that the enabling PUT of a tester whose reply is old fails for
  an indexer added since, or is about one that has passed (`EnableIsEarned`).

  `RecentPassIsKept` is the longest one.  Its hypothesis `MaxCrashes = 0` is needed:
  a recovery that no job has saved is lost by a kill, and the pruner then follows
  the old timer.  `PruneInv` says of each name that the
  timers of the entries the jobs can reach are covered by the age of the last pass
  (`AgesCovered`), except of an object that only the pruner still holds, which must
  then belong to an indexer that is gone (`PrunersIsGone`).  Objects are replaced by
  discovery only, and by candidates (`ReplacedIsCandidate`); an old object of the
  pruner's gets the new id only from a tester that runs in the same unit of time
  (`ReplacedIsTested`, `RelistedIsTested`), and no other run of the tester, which
  would record its passes in the new entry, starts before the pruner has ended: here
  the proof uses that a run of requests is shorter than the interval between runs.
  Until discovery has the reply to its POST only such a tester knows the new id
  (`ReplyIsNews`).  TLC checked the invariant before it was proved.
- `PlexThrottle_proofs`: `ThrottleTypeCorrect`, `CapNeverSkipped`,
  `CapHeldThroughGrace`.  `IInv` adds that a POST on its way carries the limit of
  what the run saw (`JobOK`) and that unless a reply was lost docktarr's belief is
  true (`Agrees`); the second is what makes "send only if it changes" safe.  For the
  grace window `HeldInv` adds that a label other than idle was seen by a run
  (`LabelWasSeen`) and that the idle limit is under way in place of another only when
  the window is over (`LiftIsDue`).  The hypothesis `IdleIsNoCap`, neither cap equals
  the idle limit, is what the property presupposes: otherwise a cap for a stream
  is itself a return to the idle limit.
- `ArrServices_proofs`: `ArrTypeCorrect`, `SweepIsRestartGuard`: the sweep
  implements `RestartGuard`, every step maps to a step of it or to a stutter.
  `IInv` adds that no more probes are counted than have failed (`Counted`), that
  a cooldown starts no later than the restart it is for (`StartedEarlier`), that
  a probe that is being followed up has failed (`Failed`) and that a restart
  which is awaited was allowed when it was decided (`Allowed`).
- `ServiceResponsiveness_proofs`: `ResponsivenessTypeCorrect`,
  `ProbesAreRestartGuard`, `ServicesAreRestartGuard`.  The invariant has the same
  parts, for the internal probes and for the routes through a proxy that no
  other route uses.  That the sweep implements `RestartGuard` over services and
  proxies needs `OwnProxies` (no two routes share a proxy), since counters and
  cooldowns are kept per probe; over the services alone it needs nothing.
- `PlexConnectionsGuard_proofs`: `GuardTypeCorrect`, `NoWorkingAddressLost`.  As long
  as no probe has succeeded, the addresses that were up all the time are still to
  be probed (`SteadyToProbe`): when none is left to probe, none of them is there.
- `QbitVpn_proofs`: `QbitTypeCorrect`, `RestartsHaveCause`.  No more failures are
  counted than probes failed (`Counted`), and a stale namespace, also one that the
  run has read, has a start of the VPN behind it (`StaleByVpn`).
- `ArrCommandQueue_proofs`: `QueueTypeCorrect`, `DrainsOnlyBareSearches`,
  `BurstsAreReal`.  What is to be cancelled is a search as long as it is queued
  (`DrainsBare`), although it was listed long ago, because identifiers are not used
  again; a drain has a baseline to reset (`DrainHasBase`), which the type needs.
  For the bursts, each baseline, the one in memory and the one on disk, explains the
  pile: unless a burst has been posted since, it is no larger than the count plus
  what was posted (`Explains`).  A
  drain resets the count to zero although it may have failed in part, so that while
  it lasts what it does not hold must be explained already (`DrainExplains`).
- `Monitors_proofs`, of the five jobs that share no state:
  - library: `LibraryTypeCorrect`, `NoGoodFileRemoved`, `EveryRemovalIsSearched`.
    `Sound` says what a job relies on while the library changes: its candidates are
    `Known`, that is their files have been imported, so that the slot holds the
    listed file or one with another identifier, and hold the candidates' slots; if
    the listed file is still there, it is the one whose streams were probed, and it
    is bad where it is to be deleted.  Files only go or are new (`WorldMoves`), which
    keeps every job's `Sound`.  A file is in all of its slots and in no other
    (`LibraryWhole`): what a DELETE removes from one slot is what the job has judged
    at another.  `EveryRemovalIsSearched` is inductive beside these: a job leaves the
    step of the POST only by settling a slot of the file it deleted (`PostIsKept`), and
    only a DELETE that finds the file makes a search owed (`OwedByDelete`).  That
    every episode of the file is searched for is not so and not claimed (run
    `episodes`);
  - artwork: `ArtTypeCorrect`, `ConsumerAlertedOnce`.  A condition has been
    alerted for at most once, and only if its counter has reached the debounce
    (`AlertAtDebounce`); the counter passes the debounce once and is cleared only
    where the consumer, as read, does not meet the condition.  What is written back
    is a consumer that was there (`HeldIsThere`), so that a PUT cannot create one;
  - processes: `PidTypeCorrect`, `RestartsAreSpaced`.  A streak counts reads since the
    last restart (`StreakWasRead`);
  - permissions: `PermTypeCorrect`, `LinkedIsUntouched`.  A file that the
    batches still hold and that has another link got it after the find
    (`LinkedSinceFind`);
  - mounts: `MountTypeCorrect`, `AuditReportIsTrue`.  What has been recorded so far is
    so of the paths nobody touched (`TrueSoFar`);
  - `MonitorsAreIndependent`: every behaviour of the composition is one of each of
    the five specifications, so that the results above hold of it;
    `MonitorsTypeCorrect` draws the conclusion for the types.

The refinements of `RestartGuard` and the invariants hold for finite and infinite
sets of services, files, names and containers; only `ArrCommandQueue`, which counts
its commands, assumes a finite set.  Of the slots a file holds only that there is one
is assumed (`SlotsAssumption`).  The constants that stand for "none" are assumed
not to be among the values they stand beside (`NoNameAssumption`, `FilesAssumption`,
`DirsAssumption`).

Only model-checked are the liveness properties, since the prover has no support for
fairness: `StaleEntriesDropped`, `NeverStuckDegraded`, `LiftedInTheEnd`,
`HealedUnlessInterrupted`, `Recovers`, `FastAgain`, `QbitServes`, `NoStalePile`,
`WedgeRelieved`, `DudsFound`, `ConsumerHealed`, `ArtworkComesBack`, `LeakRelieved` and
`OwnersRepaired`.  Every safety property of the runs that pass is a theorem.

## 5. What is not modelled

Formatting, logging, HTTP details and the notifier (`emit` swallows its errors;
it is an await and nothing else); the health endpoint, configuration and YAML,
hardware report, container audit and disk health, which keep no state that
anything reads back.  The Plex singleton and the stall detector keep no state
between runs and decide each torrent or endpoint from one reply; a model would
restate the comparison.

In the modelled components: probes that share a name or a proxy, and thresholds that
differ between services; an arr watchdog without Docker access, which restarts
nothing; the repairing jobs with their repairs off (`auto_fix`, `auto_heal`,
`auto_remediate`, `auto_restart`), in which they only alert; the set `errored` of
`MediaQaState`, alerts and the total of zombies of `pid_pressure`, modes and the
drift percentage of `permissions_health` and the refresh it asks of Plex.
