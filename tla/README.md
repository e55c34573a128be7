# A TLA+ model of solar-dashboard

solar-dashboard is a NestJS server (`apps/api`) with a web front end that runs on a small
computer beside a photovoltaic installation. It polls the inverter gateway, stores readings in
SQLite, raises alerts, drives household devices, makes backups, and updates itself through a
root-owned shell script. Much of that is arithmetic over the database. What is hard is the rest:
timers and HTTP requests interleave at every `await`, state in memory disappears with a restart,
a box without a keyboard loses power in the middle of things, and two programs (the app and the
updater) share files.

This directory holds TLA+ modules of those parts, the TLC configurations that check them on small
instances, and theorems that TLAPS proves for every instance. Line numbers refer to the
commit these modules were written from; `PROJECT.json` maps each definition to its lines.

## 1. Inventory

| Component | State it keeps | Operations | Hard behaviour | What makes it correct |
|---|---|---|---|---|
| updater script, `packaging/linux/update.sh` and its units | `/opt/solar-dashboard`, `.prev`, `update-state.json`; deletes `update-request.json` | hourly run, `--now`, `--check` | power failure, killed run, failing command, an app that writes while it runs | service never left down, whole builds only, consent, a failure is remembered, rollback restores |
| updates service, `updates/update.service.ts` | rows `update.*`, `update-policy.json`, `update-request.json`, the decision in memory | save policy, check, request, cancel | overlapping requests, six-hour timer, restart at any await | file mirrors the rows once a save went through, off clears the request, a fresh look before a request |
| release ordering, `semver.ts`, `releases.ts`, two jq programs in `update.sh` | none | choose the newest | two implementations of one order | both halves name the same version, never a downgrade |
| collector, `collector/collector.service.ts`, `common/watchdog.ts` | readings, last snapshot, failure count, gateway address | poll, persist, rediscover, applyHost | rejected writes, hung sockets, DHCP moves, restarts | each reading stored once and whole, gateway found again, watchdog only for hung loops (while `systemd-notify` works) |
| daily counter, `common/daily-counter.ts` | last raw value and date, awaiting flag | seed, resolve | a counter that resets late and decays, restarts | a day is credited with what it made |
| alert lifecycle, `alerts/` | open rows, streaks, cooldown, announced set, digest | processSnapshot, daily summary | rejected writes between steps, restarts, rationing | rows and memory agree, lasting conditions open and departed ones close, no flicker, no spam |
| backup, `backup/` | destinations, anchors, history, one temporary file | scheduled and manual runs, write test, prune | overlapping runs, partial success, anchors moved by hand | the newest backups stay, each slot has its backup |
| device scheduler, `devices/scheduler.service.ts` | `lastRunDate` of each schedule | tick, command, mark | overlapping ticks, midnight, a crash between command and mark | one firing a day |
| devices, `devices/devices.service.ts` | live states, last stored keys, rows with a JSON blob | poll, command with read-back, edits | overlapping polls, read-modify-write over an await | the history follows the device, no lost edit |
| charger, `charger/` | timer, live state, back-off, readings | poll with varying cadence, `applyHost()` | re-arming while in flight, a charger that answers seldom | one loop, one session per charge |
| netwatch, `packaging/linux/netwatch.sh` | a counter on disk | check every minute | killed runs, power failures, a restart between two steps | escalates in order, no reboot loop, the network returns |
| hourly rollup, `readings/rollup.service.ts` | hourly rows of gateway and panels | daily fold, import, undo | restart, late data, ends of days in two time zones | every past day is folded, hours sum to the day |
| PVOutput upload, `pvoutput/` | budget of requests, the mark of yesterday's total | ten-minute status, daily total, test | refusals, time-outs, restarts that lose the budget | its share of the hour is kept to |
| credit bank, `readings/credit-*.ts`, `utility-import.service.ts` | balances from bills, the utility's days | add, remove, import | gaps, several bills, a bank that runs out or expires | the derived balance is the utility's |

Components interact as follows. The collector's poll awaits `alerts.processSnapshot()` and so
carries its failures; the daily summary reads the collector's last snapshot and takes the alerts'
digest; pushes go through `notifier.send()`, which writes a row before it delivers. The rollup
folds what the collector and the cloud import store; PVOutput posts the collector's last reading
and reads the daily counter. The scheduler calls the devices' command. The updates
service and the updater script share three JSON files in `data/` and nothing else; the script
stops and starts the app, and the app tells its version through `/api/status`. systemd restarts
the app when it exits or when the collector's loop stops pinging the watchdog. Everything in the
app runs on one event loop: a step between two awaits is atomic, and anything may happen at an
await.

Web front end, MCP server, demo data, vendor protocols, weather and map caches, import parsers and
packaging tools are listed in `PROJECT.json` as not modelled: they are views, byte formats, pure
I/O, or tools a person runs (section 7).

## 2. Modules

| Module | Models | State and actions |
|---|---|---|
| `AtomicUpdate` | what an update promises | a version and the last outcome; an attempt changes both or records a failure |
| `Updater` | `update.sh` and the machine | a tree is a binary and a stamp; `pc` is the command the script is at, `run` its variables; one action per command that touches shared state. The app is an environment |
| `UpdateService` | `update.service.ts` | each HTTP request and the timer is a process whose `at` is the await it stands at |
| `UpdateSystem` | both together | EXTENDS `Updater`, INSTANCEs `UpdateService` over the same files; a stop of the service ends the app with all it had in flight |
| `ReleaseOrder`, `ReleaseOrderMC` | the two comparisons | pure operators, and a feed that grows with installs from it |
| `DayEnergy` | the gateway's daily counter through its days, `daily-counter.ts` and its readers | the roof moves the counter, `Poll` stores what `Resolve` makes of it |
| `Collector` | the poll loop | `pc` is the await the poll stands at; network, database, watchdog and user around it |
| `Alerts` | `processSnapshot()`, the debouncer, the digest | `pc` is the place in `processSnapshot()`; rows in the database, the rest in memory |
| `Rollup` | `rollup.service.ts`, `cloud-import.service.ts` and the reads of `readings.service.ts` they fold | readings are rows, `pc` is the await `run()` stands at |
| `Devices` | `pollAll()`, the command and its read-back | each poll is a process; memory and rows apart |
| `DeviceConfig` | the edits of a device's JSON blob | each request holds the blob it read |
| `Scheduler` | `scheduler.service.ts` | each tick is a process, with the date it began with |
| `Backup` | `backup.service.ts`, `schedule.ts` and retention | each run is a process; destination, rows and temporary file |
| `Charger` | `charger.service.ts`, `charger-cadence.ts`, the grouping into sessions | the timer, the polls in flight, the age of the last reading |
| `Pvoutput` | `pvoutput.service.ts` and the budget of `pvoutput-protocol.ts` | each upload is a process; the server counts what is left |
| `Netwatch` | `netwatch.sh` and the machine's link | `pc` is the command; the counter as read and as on disk |
| `CreditBank` | `credit-derivation.ts`, `credit-bank.service.ts`, the upserts of `utility-import.service.ts` | meter days, bills and the utility's own ledger; `Balance` is what `deriveBank()` makes of them |
| `LiveServices` | `Netwatch` (extended), `Rollup` and `Devices` side by side | one run, with fairness |
| `SafeServices` | `DayEnergy` (extended), `Backup`, `Scheduler`, `DeviceConfig`, `Charger`, `Pvoutput` and `CreditBank` side by side | one run, without fairness |
| `X_proofs`, for `Updater`, `UpdateService`, `UpdateSystem`, `ReleaseOrder`, `Collector`, `Alerts`, `LiveServices` and `SafeServices` | theorems about `X`, the last two about the services side by side in them | section 6 |

The services of `LiveServices` and `SafeServices` share no row and no variable that a step of
theirs reads or writes: all they have in common is the event loop, which each of their modules
already cuts at every `await`. Their product would show nothing that the parts do not and be
beyond any checker. A behaviour of these two modules therefore picks one service at its start
(`focus`) and lets it alone step; the run looks at all of them, each with every interleaving of
its own processes.

Definitions named `X_Something` stand before the definition `X` they deviate from and are
plausible bugs of it. Replacing `X` by one of them makes the property named in `PROJECT.json`
fail: that is how we know the property says something about the code.

Abstractions that matter:

* **Updater.** A version is a number (`ReleaseOrder` is about the real order). rsync writes the
  binary and then `version.json`, the two files the health gate can tell apart. The two-hour
  window is open or not, at random. `record` and `rm` are single steps, each an atomic rename or
  unlink. `systemctl stop` succeeds. A release that does not answer never does (`Broken`); one that
  works may still fail its health check once, by being slow. A release in `Unverifiable` is
  refused each time it is tried (no key, no minisign, a bad signature or checksum); any other may
  fail to download, but not for ever. `burned` and `kept` are history variables: the versions that
  failed their check and were not asked for since, and the version whose failure, before the swap or
  after it, is the last attempt on record.
* **UpdateService.** Versions are numbers, releases always have their assets, the hour is left
  out. The three reads of `policy()` are one step, the writes of the rows are separate. With
  `MayFail` every one of them may be rejected, and so may the file and the mirror at boot, whose
  failure `onModuleInit()` swallows; a row that is rejected ends the save while the other is still
  being written (`StrayRow`). `missed` is history: something was, since the last save or boot that
  went through.
* **Collector.** One gateway, one vendor (Hoymiles, the only one with rediscovery), `DTU_SERIAL`
  unset. `stored` counts rows up to 2. A poll that ends does so within one interval; timers and
  the watchdog are counted in intervals. A rejected write inside the catch block ends the process:
  `poll()` is not awaited, and Node exits on an unhandled rejection. A scan looks through the subnet
  of the address in use. The first `systemd-notify` that fails is this process's last
  (`unavailable`).
* **Rollup.** A day has two readable times, each with one polled and one imported reading. The hours
  of the tables are UTC's, filed under the day in which they start: where the site is half an hour
  off (`HalfHour`), the first of a day is the last of the day before, one row for both. The site may
  lie west of Greenwich, where `run()` (local date) and the fold (UTC day) part in the evening.
  Each hour's upsert is a step of its own, and a run may end before any of them. Undoing an import
  is an action of the owner. `unfinished` and `undone` are history: the days whose last fold is
  under way or was cut short, and those of which an import was undone.
* **Devices, DeviceConfig, Scheduler.** One device that is on or off and has one schedule; the
  adapters answer, fail, or are not heard. The minute at which sun or clock make a schedule due is
  a phase of the day: before, within two hours of it, after.
* **Backup.** One destination, the daily schedule, time in ticks of which a day has a few. A write
  test leaves its probe when the delete fails. `doomed` and `whole` are what a run is about to
  delete and whether its snapshot is intact.
* **Charger.** Time is counted in the shortest poll interval. A session is what the grouping by
  `SESSION_GAP_MS` makes of the stored readings.
* **Pvoutput.** An hour that ends renews what the server gives. Which figures are posted is left
  out. `MaxBlind` bounds how often the figure is lost: to an answer that never came or overtook
  another, and to a restart that finds it not written, its row's write having been rejected
  (`RateNotWritten`) or not reached.
* **Netwatch.** What is wrong with the machine's side is cured by the bounce, the reload or only by
  the restart; the router may be away for as long as it likes. Between `ip link set down` and `up`,
  and between `modprobe -r` and `modprobe`, a run may be killed and the link or its driver stay away.
* **CreditBank.** Of a day's two directions only the difference matters. The utility is modelled
  as the app takes it: it settles by the day, never below zero, and forfeits on one date. A bill
  may be typed in with a slip.
* **DayEnergy.** The counter may decay at any time without sun, after midnight too, where the app
  takes the fall for the reset; `fell` is history: the days on which it did. The lifetime-counter
  branch of `todayEnergyWh()` is left out.
* **Alerts.** All conditions are of one type, so that the openings of one evaluation fold into one
  push; conditions change between evaluations. What can reject a push is the row it writes first.
  Its delivery cannot: the notifier swallows a webhook that is not set, does not answer or refuses.
  History says which openings are in the notification table (`raised`), were to be there and were
  rejected (`unraised`), and reached somebody (`reached`).

## 3. Runs

Each row is one cfg. "violation" means that TLC finds the property broken by what the code does
(section 5).

| Run | Checks | Bounds | Distinct states, time |
|---|---|---|---|
| `Updater_sound` | `OkIsLive`, `UpdateIsAtomic`, `BrokenRecovers`, `RequestServed` | four versions, one broken, one that cannot be verified, one pre-release; no faults, fair | 2*10^5, 150 s |
| `Updater_faults` | `ConsentHeld`, `FailureRemembered` | three versions, one broken, one pre-release; a power failure, killed runs, withdrawn releases, stale requests | 4*10^6, 100 s |
| `UpdateSystem_system` | `ServiceUp`, `AppIsAUser` | two versions, both halves, one HTTP request in flight, a power failure | 10^6, 70 s |
| `UpdateService_overlap` | `MirrorAgrees`, `FreshLook`, `ChecksEnd` | a request and the six-hour timer interleaved, restarts, any row, file or feed failing, fair | 2*10^5, 45 s |
| `ReleaseOrder_order` | `OrderIsTotal`, `SameOffer`, `NeverDowngrades` | nine versions that differ in every way the rules distinguish, feeds of three, the channel changing | 10^4, 3 s |
| `Collector_watch` | `StoredOnce`, `NoHalfReading`, `OnlyHungExpires`, `OutageIsReal`, `GatewayFound` | three addresses in two subnets, one move, two readings, thresholds of 2; every fault, fair | 8*10^5, 170 s |
| `Alerts_watch` | `OpenMirrorsRows`, `ResolvedWasRaised`, `NoFlicker`, `AlertsFollow` | two conditions, one serious, 2 polls each way; one rejected write, one restart, pushes delivered or not, fair | 4*10^5, 120 s |
| `LiveServices_watch` | `HoursSumToDay`, `PastIsFolded` (rollup), `HistoryFollows` (devices), `RebootIsLast`, `NoRebootLoop`, `NetworkReturns` (netwatch) | two days of two hours, whole hours from UTC, one day folded per run, one import or cut; two overlapping polls, one fault; thresholds 2, 3, 5, two kills, three faults; fair | 5*10^5, 170 s |
| `SafeServices_watch` | `AllTypesOK`; `NoCarryover`, `NothingLost` (daily counter), `NewestKept`, `EverySlotServed` (backup), `FiringsAreExcused` (scheduler), `EditsAreMerged` (settings), `OneLoop`, `SessionHolds` (charger), `BudgetHeld` (PVOutput), `DerivedIsRight` (credit bank) | two days of the counter, with decay at any hour; a backup day of four ticks, two kept, nine ticks, one run by hand, one failure; two ticks, two days, one restart; two editors, three edits; polls every 1, 10 or up to 30 ticks, a gap of 20; four requests an hour, two for the timer, the figure lost once; four meter days, two bills | 1.5*10^6, 120 s |
| `Updater_retry` | violation: `NoBlindRetry` | three versions, one broken, one pre-release; no faults | 3 s |
| `DayEnergy_restart` | violation: `NoCarryover` | two days of up to three units, decay, restarts in the window | 1 s |
| `Alerts_lost_open` | violation: `LastingOpens` | as `Alerts_watch`, without restarts | 4 s |

The bounds are small because the interesting cases are. A third version distinguishes "the newest",
"the one asked for" and "the one that failed", and a fourth keeps one of them from ever being
verified. A power failure may come at every command and may leave the work to the next run. One
request in flight against the timer's check gives the pairwise interleavings that the guard
`this.checking` is about. Two conditions give a fold of a new and a known one. Two days give a day
whose predecessor had a carryover, a schedule that a tick begun yesterday marks, and a fold that
crosses midnight; nine ticks of four give a backup day, one after it, and a late slot. Keeping two
backups is the least at which a wrong one can go; five failed checks with thresholds of 2, 3 and 5
pass through each step. A run that folds one day when two may be pending is the first at which days
wait for each other (`MAX_DAYS_PER_RUN`). Three addresses give a move within the subnet that is
searched and one out of it. Four meter days give a bill, days counted after it that run the bank
dry, and a date of forfeit on either side of it. Counters that grow for ever in the code (failures,
quiet intervals, streaks) are capped where the code stops telling values apart; thresholds are 2
where the code has 3 or more, since 2 is the first value at which a count can be interrupted.

`UpdateSystem_system` has `MayFail = FALSE`, which keeps it within minutes. The failing steps of the
app run in `UpdateService_overlap`, and `AppOnlyAsks` (section 6) proves `AppIsAUser` with and without
them. `LiveServices_watch` has `HalfHour = FALSE`: what becomes of the rollup with it is in section 5.

`CHECK_DEADLOCK FALSE` stands in `Updater_faults` only: a killed run may leave the service down with
updates switched off, and then nothing need ever happen again.

## 4. Fairness

* `Updater`: the timer fires every hour (`OnCalendar=hourly`), so `TimerStarts` is strongly fair
  and a started script runs on. Resolving and fetching are strongly fair: they may fail, and not
  for ever. That is a claim about the network and the disk, and so it is made of releases this
  machine can verify only: one in `Unverifiable` is never fetched, only refused, and
  `RequestServed` says nothing of it. Nothing is assumed of users, publishers, or faults.
* `UpdateService`: database, files and a fetch with a 15 s timeout answer, if only with an error.
  Users and timer are free.
* `Collector`: timers fire, awaited calls answer, and a gateway that is there answers a fetch and a
  scan of its subnet at last (both are retried for ever by the loop). `FetchHangs` is the exception,
  and the watchdog, which is a timer too, is what ends it.
* `Alerts`: the collector polls for ever, and so `processSnapshot()` is called again and again.
* `Rollup`: the half-hourly timer finds a chance to run (strongly fair, since a run may be under
  way whenever it fires), the database answers, and the clock goes on.
* `Devices`: polls end, the heartbeat interval passes and the read-back of a command comes.
* `Netwatch`: systemd runs the script every minute, and it goes on. That the network stays broken is
  left to it, but not that it breaks for ever: `MaxFaults`.

## 5. Where the code does something else

Three runs show a sentence of a comment that the code does not keep; the findings in `PROJECT.json`
quote it.

* `Updater_retry`: the outcome of a run about another version, such as a refused request, erases the
  memory of a version that failed, and the next unattended run installs that version again. What
  holds under every fault is `FailureRemembered`: the failure is heeded as long as it is the last
  attempt on record.
* `DayEnergy_restart`: a restart while a carryover is suppressed brings it back.
* `Alerts_lost_open`: what the debouncer says once is lost with a rejected write, and a lasting
  condition never becomes an alert.

More properties that one might expect do not hold. They stand in the modules, most of them under
"Not kept by the code", and TLC refutes each when it is put into the cfg named here with the
constants changed as given.  (Where `MaxCrashes` is raised `CHECK_DEADLOCK FALSE` goes with it.)

| Property | cfg and change | What happens |
|---|---|---|
| `EveryRequestServed` | `Updater_sound` | a release that is refused for good leaves its request pending, and is refused again every hour |
| `RequestNotLost` | `Updater_retry` | a request queued during a run is deleted at its end |
| `StopIsRecorded` | `Updater_retry`, `MayAbort = TRUE` | a failing rsync leaves the service stopped and nothing recorded |
| `RollbackRestores` | `Updater_retry`, `MaxCrashes = 1` | a tree mixed by a power failure is kept and later restored as the old version |
| `BrokenRecoversWhileOn` | `Updater_sound`, `MaxCrashes = 1`, two versions | after a power failure in the health gate the next run is "up to date" on a build that does not answer |
| `MirrorAlways` | `UpdateService_overlap` | after a rejected row, a rejected file or a mirror at boot that failed, the script reads what the database does not hold |
| `MirrorAgrees` | `UpdateService_overlap`, two `Ops`, `TimerRuns`, `MayRestart` and `MayFail = FALSE` | of two overlapping saves one's rows and the other's file remain |
| `OffClears` | the same | an install requested while updates are switched off stays queued |
| `LooksItself` | `UpdateService_overlap` | a request made during another's check is answered with the decision from before it |
| `TargetIsHighest` | `ReleaseOrder_order` | the script sorts a pre-release above its release, and does not order candidates |
| `SuppressionIsRight` | `DayEnergy_restart`, `RestartsInWindow = FALSE`, `MissesPolls = TRUE` | a reset that no poll saw is taken for none, all day long |
| `NeverACarryover` | `DayEnergy_restart`, `RestartsInWindow = FALSE` | a decay after midnight is taken for the reset, and the rest of yesterday's total is today's |
| `TodayIsToday` | `DayEnergy_restart`, `RestartsInWindow = FALSE` | between midnight and the reset the dashboard shows yesterday's total |
| `WrapIsTotal` | the same | the evening push reports what the decay left (with `Decays = FALSE` it holds) |
| `NeverStoredTwice` | `Collector_watch` | after a rejected second insert the first table gets the reading again |
| `GatewayFoundAgain` | `Collector_watch` | a restart forgets which serial to look for |
| `GatewayFoundAnywhere` | `Collector_watch` | a gateway that moved to another subnet is not looked for there |
| `NeverKilledTurning` | `Collector_watch` | after one failed `systemd-notify` the watchdog goes unfed and a loop that turns is killed (the comment calls it acceptable) |
| `OnlyHungExpires` | `Collector_watch`, `Configured = None` | an app without a gateway never feeds the watchdog and is restarted for ever |
| `DepartedCloses` | `Alerts_watch` | a rejected update leaves an alert open whose condition is over |
| `ResolvedWasPushed` | `Alerts_watch` | an opening that no webhook took is announced as resolved, though the comment says "actually pushed" |
| `ResolvedIsOnRecord` | `Alerts_watch` | so is one whose row was rejected |
| `CooldownHolds` | `Alerts_watch`, both conditions serious | a new subject in the fold pushes the recently pushed ones again |
| `DigestIsKept` | `Alerts_watch` | a digest taken by a daily summary that fails is lost |
| `PanelsSumToDay` of `Rollup` | `LiveServices_watch` | the fold of the next day reads an hour back and writes over the panels' part of it |
| `HoursAlwaysSum` of `Rollup` | `LiveServices_watch`, `MaxEvents = 2`; or `HalfHour = TRUE` | the fold of an import is cut short between two hours; the fold of the next day overwrites the shared hour |
| `EveryDayIsFolded` of `Rollup` | `LiveServices_watch`; or `HalfHour = TRUE`, `MaxDaysPerRun = 2` | a day known from an import alone has no panels, stays pending, and as the earliest fills every run; days that share an hour take it from each other |
| `NeverTorn` of `Backup` | `SafeServices_watch` | two runs pass the guard, which is raised after an await, and write one temporary file |
| `TestsTakeNoPlace` of `Backup` | `SafeServices_watch` | a write test's probe counts among the backups to keep |
| `OncePerDay` of `Scheduler` | `SafeServices_watch` | two overlapping ticks both fire |
| `NeverWhileCritical` of `Scheduler` | `SafeServices_watch` | a device made critical while the command is awaited is switched |
| `NoEditIsLost` of `DeviceConfig` | `SafeServices_watch` | the later write brings back what an overlapping edit had changed |
| `TotalPostedOnce` of `Pvoutput` | `SafeServices_watch` | a refused total is posted every ten minutes, though the comment says "marked either way" |
| `PostsWhileOn` of `Pvoutput` | `SafeServices_watch` | the total that follows a status is posted after the uploads were switched off |
| `ReasonStays` of `Pvoutput` | `SafeServices_watch` | a total that succeeds clears the reason a status was refused for |
| `ForfeitIsSeen` of `CreditBank` | `SafeServices_watch` | a balance derived across the date that empties the bank still has what was forfeited |

Properties of a service are stated of its module: to check one, define it in `LiveServices` or
`SafeServices` as the others are. For most of these a passing run checks the property under the
condition that it needs, so that the two together say what the code relies on.

## 6. Proofs

All proofs are checked by TLAPS (SMT, Zenon and LS4) for every value of the constants that
satisfies the named assumptions of the module.

* **Updater** (`Updater_proofs`). `TypeCorrect` and `ConsentAlwaysHeld` hold under every fault.
  `ServiceStaysUp` needs `~MayAbort` (no command of the script fails) and allows any number of
  power failures; its inductive form `UpInv` says at which commands the service is stopped, since
  `ServiceUp` speaks only of the idle script and says nothing of the steps that lead there.
  `SwapIsSound`, `OkIsAlwaysLive`, `RollbackAlwaysRestores` and `UpdatesAreAtomic` need in addition
  `MaxCrashes = 0`; they rest on `SwapInv` and `OkInv`, which say for each command what is in
  `/opt` and in the rollback copy. `UpdatesAreAtomic` is a refinement: `Committed` maps the
  machine to `AtomicUpdate`, and each step is a step or a stutter of it. Section 5
  (`RollbackRestores`, `StopIsRecorded`) shows that the assumptions cannot be dropped.
  `FailureIsRemembered` (`FailureRemembered`) needs none of that: failing commands, power failures,
  withdrawn releases and stale requests as they may come. `KeptInv` says that the version kept is
  what the record names, through every exit that leaves the record alone, and that no run on its way
  to the swap unasked has it as its target. The wider `NoBlindRetry` does not hold (`Updater_retry`).
* **UpdateService** (`UpdateService_proofs`). `TypeCorrect` and `CheckIsHeld` hold for any number
  of requests in flight and with restarts. The type invariant and the mutual exclusion are
  inductive together: that only the process inside a check clears the flag needs both.
  `LookIsFresh` (`FreshLook`) holds for any number of requests too: `LookInv` follows what an
  installation knows from the click on, and says that until its look has ended it has heard of
  every release that is the newest now. `MirrorHolds` (`MirrorAgrees`) assumes `OneRequest`, since
  it fails with two (section 5); `MirrorInv` says that a row is written already or still to be written,
  unless something was rejected, and what that leaves until a save or a boot goes through.
* **UpdateSystem** (`UpdateSystem_proofs`). `AppOnlyAsks` (`AppIsAUser`) is the refinement that joins
  the halves: a step of the app is a step of the user that `Updater` assumes, or changes nothing the
  script sees. `OfferInv` carries it: what the app offers or has seen for a request is newer than
  what runs, for whatever starts another build ends the app that chose it. What is proved of
  `Updater` then holds of both together: `SystemStaysUp`, and `SystemRemembers` with every failure of
  either half.
* **ReleaseOrder** (`ReleaseOrder_proofs`). `NoDowngrade` holds for every set of versions: the
  script's `newer` implies the app's "greater", because both compare numbers first and a release
  with its pre-releases the same way. `OrderHolds` (`OrderIsTotal`) shows `compareVersions()` to be
  a total order for any number of pre-release identifiers, by the first place where two lists part;
  `SameOfferHolds` (`SameOffer`) that both halves name the same version on the stable channel.
* **Collector** (`Collector_proofs`). `ReadingsAreWhole` and `OutagesAreReal`
  hold under every fault; `ReadingsAreStoredOnce` is about the time before the first rejected write
  or end of the process (`clean`). `WriteInv` says which tables have the reading at which
  await; `OnceInv` that no table has anything later; `CountInv` that the failures counted are
  missed fetches but for one, since a fetch that answers clears both. `WatchdogIsFair` needs a
  configured gateway and a watchdog of more than one interval: `TurnInv` says that the loop is
  quiet for one interval at most unless it hangs or the process has given up on `systemd-notify`.
* **Alerts** (`Alerts_proofs`). `MemoryMirrorsRows` is inductive as it stands. `NothingFlickers`
  is an action property: `StreakInv` relates the debouncer's two counters, which a confirmation
  and a restart reset, to the history `held` of the evaluations, so that what is about to open or
  close has had its full streak. `OnlyRaisedIsResolved` (`ResolvedWasRaised`) holds under
  every fault; `PlaceInv` and `TellInv` say that only open alerts are announced ones, and that those
  are in the notification table, or had their row rejected, but for the ones a push is just carrying.
* **Netwatch** (`LiveServices_proofs`). `NetwatchTypesHold`, `RestartsAreFarApart` (`NoRebootLoop`)
  and `RestartIsLastResort` (`RebootIsLast`) need only that the thresholds are in their order
  (`ThresholdsOK`), and hold for any number of kills and faults. `LoopInv` relates the count, on
  disk or read, to the history of failed checks: the count is cleared, on disk, before the restart,
  and never runs ahead of the checks. `LastInv` relates it, while nothing is cut short, to the steps
  taken before.
* **Rollup** (`LiveServices_proofs`). `HoursAddUp` (`HoursSumToDay`) holds for any number of days,
  any energies, and any imports and cuts. It excepts the days whose last fold is under way or was cut
  short, where hours of two folds stand side by side, and those with an undone import, whose hours may
  be of rows that are gone. A sum says nothing of what the hours were folded from, so `RollInv` says
  it: an hour in the table has a raw row (`WrittenInv`); what the fold under way has upserted is made
  of the rows it read, which are still there (`SeenInv`); and both hours of any other day are made of
  the same rows (`WholeInv`), so that they part those rows' peak. The count of samples then says that
  the rows are all there are.

The theorems of `SafeServices_proofs` are stated of `AllSpec` (those of `DayEnergy` of its own
`Spec`): a step of it is one of the service or leaves the service alone (`StepIs...`).

* **DayEnergy.** `NeverOvercredited` and `NeverUndercredited` need
  `~MissesPolls` and `~RestartsInWindow`; the violating run and `SuppressionIsRight` show why.
  Both follow from `DayInv`. A credit says nothing of how the tracker came by it, so the invariant
  relates the tracker and the newest row to the counter in each of the four cases seen or not seen,
  reset or not, and the counter to what the day has made. Before the reset
  what the counter shows is suppressed, but on a day on which it has fallen since midnight
  (`Suppressed`), and those days `NoCarryover` leaves out.
* **Backup.** `RetentionHolds` (`NewestKept`) is about any number of backups to keep. That the newest
  are there says nothing of a run that is about to delete: `KeepInv` adds that what a run has chosen
  to delete lies beyond the newest `Keep`, which later uploads only push further down.
  `SlotsAreServed` (`EverySlotServed`) holds for every day length, hour and grace.
* **Scheduler.** `FiringsHaveExcuses` (`FiringsAreExcused`), for any finite number of ticks.
  `FiringInv` counts beforehand: what has fired, what may yet switch, and one more while a tick may
  yet find the schedule not run, are together no more than one and the excuses.
* **DeviceConfig.** `EditsMerge` (`EditsAreMerged`), for any editors: while edits do not overlap the
  one under way has read what is stored and is newer than all of it (`Merging`).
* **Charger.** `LoopIsOne` (`OneLoop`) has no assumption. `SessionStays` (`SessionHolds`) assumes
  `Pace`: a gap between sessions of at least fifteen polls and at least four failures told apart.
  `SessionInv` says how far apart the rows are after one, two and three failed polls: 1, 3, 7, 15.
* **Pvoutput.** `BudgetIsHeld` (`BudgetHeld`), for every limit and share. `BudgetInv` says where
  the timer's posts stand when a figure is on its way, and that the server's own count of what is
  left accounts for all of them but those that nobody answered.
* **CreditBank.** `BalanceIsRight` (`DerivedIsRight`) is about a recursive function. Induction over
  data is beyond the provers here, but not its least counterexample: a set of wrong days has a
  smallest (`Smallest`, from the well-foundedness of the naturals), and there the recursion
  contradicts it.
* **Types.** `AllTypesHold` (`AllTypesOK`), for every service. It assumes that powers of two are
  natural numbers (in `AllBounds`): of exponentiation the provers know nothing.

Each invariant named here was an invariant of a TLC run before it was proved. Type invariants and
inductive forms that a theorem establishes are no longer part of a run, and neither are a few plain
ones that TLC has checked and the modules still state (`PendingIsNewer`, `OfferIsNewer`,
`OfferFollowsChannel`, `HungRecovers`, `WrapIsOfToday`, `BackupsAreWhole`, `LiveServices`'
`AllTypesOK`). Every safety property that a passing run checks is proved. Only model-checked are
the liveness properties (`BrokenRecovers`, `RequestServed`, `ChecksEnd`, `GatewayFound`,
`AlertsFollow`, `PastIsFolded`, `HistoryFollows`, `NetworkReturns`), since TLAPS proves nothing about
fairness or ENABLED, and those few plain ones.

## 7. What is left

Worth modelling next:

1. A second instance of the updater script (a manual `--now` run beside the timer's), which nothing
   locks out.
2. The alert rules' hysteresis, composed with `Alerts`.
3. `Collector` and `Alerts` together: failures of one counted by the other.
4. Several backup destinations in a row, weekly and monthly schedules.
5. The OCPP central system's view of a charge point, and the batteries' polls.

Worth proving next: the plain invariants that left the runs (`OfferFollowsChannel`, `BackupsAreWhole`,
`WrapIsOfToday`), the safety half of `HistoryFollows` (what an idle poll has stored is what it last
saw), and `RollbackAlwaysRestores` with power failures that do not hit the swap.

Not modelled: vendor protocols and gateway drivers (byte formats over the network; the models take
from them that a call answers, fails or hangs), parsers of files, MQTT and Home Assistant
(publications nobody answers), evcc, weather, radar and map (caches of other programs' answers), web
front end and MCP server (views), reports and census (read-only arithmetic), demo data, and packaging
tools that a person runs. They are most of the repository's lines, and hold little state that
anything else depends on.
