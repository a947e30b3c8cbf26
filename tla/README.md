# FloorTerminal: a verification project

FloorTerminal is a shop-floor kiosk. An operator reports a failure of a
machine, people repair it and release the machine again, and an external
maintenance system is told about every step. The terminal keeps working when
that system cannot be reached: what it has to tell is kept in a journal on disk
and delivered later. This directory holds TLA+ modules of the program, the TLC
configurations that check them on small instances, and proofs checked by TLAPS.

## 1. The system

All paths below are under `src/src/floorterminal/`.

| component | code | state it keeps | operations |
|---|---|---|---|
| delivery journal | `storage/delivery.py` | ordered entries: method, arguments, binding, phase (`queued`, `sending`, `attention`), retry time, expiry | `enqueue`, `replace_reference`, `retry_safe`; capacity 512 |
| write facade | `services/delivery.py` `DeferredIntegration` | none | six operations the workflow calls; each returns a local reference and appends an entry |
| delivery coordinator | `services/delivery.py` `DeliveryCoordinator` | active entry, one-slot results queue, pause, wake time | `recover`, `poll`, `_start`, `_dispatch`, `_apply`, five review operations, `close` |
| local operations | `app.py` `perform`, `poll_events` | `busy`, the local-save worker, the events queue | one local operation at a time; its callback runs on the UI thread |
| state store | `storage/state.py`, `core/config.py` | the live document, the committed snapshot, the file | `transaction`, `save`, roll back |
| connector runtime | `integration/runtime.py` | per-worker client, discovered capabilities | `execute`; sorts an HTTP outcome into a class of error |
| request budget | `core/rate_policy.py` | rolling window of requests, cooldown | `admit`, `cool_down` |
| incident workflow | `controller/workflow.py` | the active incident: phase, crew, record reference | report, diagnose, repair, crew changes, release, planned work |
| incident groups | `controller/groups.py`, `storage/incidents.py`, `core/topology.py` | parked incidents, focus, shared assets | begin, focus, park, clear |
| incident history | `services/history.py`, `storage/history.py` | staged records in the state file, the SQLite archive | stage, write, acknowledge, prune |
| crew directory cache | `services/roster.py`, `core/roster.py` | cached people, retry time | refresh job that shares the network worker |
| updates | `update/` | activation journal, version links, boot state | stage, activate, confirm health, roll back |
| settings and authentication | `core/config.py`, `core/settings_auth.py`, `core/auth_throttle.py` | configuration, failed attempts | save, verify, throttle |
| audit, housekeeping | `storage/audit.py`, `storage/housekeeping.py` | bounded writer queue, log files | append, rotate, prune |
| connector definitions | `integration/definition.py` and others | none | validate and fill templates |
| user interface | `ui/`, `audio.py`, `i18n/` | what is drawn | starts operations above |

**How they interact.** There are three kinds of thread. The UI thread runs the
100 ms loop: `poll_events` takes the event of a finished local operation and
runs its callback, and `DeliveryCoordinator.poll` looks at the journal. The
local-save worker runs one operation of `app.perform` at a time, inside a
transaction of the state store, and posts an event. The delivery worker is a
thread that makes one HTTP request (with its lookups) and puts the outcome in a
results queue of one slot. Every change to the journal goes through a
transaction of the state store, which ends in an atomic replacement of the
state file, or in a roll back of memory to the committed snapshot.

**One delivery.** `poll` chooses the first ready entry and marks it active;
`_start` runs a local operation that saves the phase `sending`; its callback
`_dispatch` starts the network thread; the thread puts an outcome in the
results queue; a later `poll` takes it out and runs a local operation `_apply`
that removes the entry (and, for a creation, substitutes the record's external
identifier everywhere), queues it again, or holds it for an administrator; its
callback frees the slot. If that save fails the outcome goes back into the
queue and nothing is sent again. After a restart `recover` looks at an entry
found in `sending`: it is queued again only if the connector declares the
operation retry-safe, and held otherwise.

**What is hard.** Three threads hand one slot around; the process may stop
between any two of these steps; a save may fail; an answer may be lost, and a
request that the terminal gave up on may still arrive, even after a review; the
administrator may select another connector at any time; help messages expire
while everything is paused. `PROJECT.json` lists each hazard at its line.

**What makes each component correct.**

* Delivery: no update is lost, none is carried out twice without a person's
  decision, lanes keep their order, nothing about a record goes out before the
  record exists, updates stay on their system, the slot never leaks, expiry is
  processed, the queue drains.
* State store: a failed transaction leaves memory and file as they were; no
  partial document is committed by an outer transaction.
* Incidents: the displayed incident, the parked ones and the journal agree on
  the record each belongs to; none is lost by parking it, no two stop the same
  group; a shared asset is ONLINE only when its last incident released it.
* History: every closed incident reaches the archive once, whatever the order of
  staging, writing and acknowledging.
* Roster: only a whole list, read anew for the connector in use, replaces the
  saved one; a refresh somebody asked for ends.
* Request budget: never more requests in a window than configured, whoever sends
  them and however often the connector is made anew.
* Updates: what is installed is what was approved, and a newer candidate is never
  given up; at any power loss some bootable version is selected; an unconfirmed
  version is supervised and undone if it cannot start; one found healthy is not.
* Settings and authentication: an open incident keeps its stations; a pause earned
  by wrong passwords is served across restarts.
* Audit: memory is bounded and a record that was accepted is written.

## 2. Modules

| module | what it is |
|---|---|
| `OutboxContract` | the abstract specification: what the journal promises, with no process, disk or network |
| `Delivery` | journal, facade, coordinator, local operations, reviews, stops and restarts, the service as the code uses it |
| `MCDelivery` | instances of `Delivery` for TLC |
| `DeliveryProofs` | `Delivery`: types, ownership of the slot, save before write, answers kept, at most once, with their proofs |
| `DeliveryOrder` | `Delivery`: the order of lanes and creations, nothing lost, routing, and the refinement of `OutboxContract`, with their proofs |
| `HistoryContract` | the abstract specification of the local history: one archive that moves forwards |
| `History` | staged snapshots and links in the state file, the writer thread, the SQLite archive, retention, stops and restarts |
| `MCHistory` | instances of `History` for TLC |
| `HistoryProofs` | `History`: types, nothing lost, retention, the refinement of its contract, with their proofs |
| `Update` | activation journal, launcher and boot state, version slots and link, health confirmation, restore |
| `MCUpdate` | instances of `Update` for TLC |
| `UpdateProofs` | `Update`: types, something launchable is selected, trials are supervised and only end by their own health, with their proofs |
| `IncidentBook` | the abstract specification of the floor: which incident stops which groups, and how far it is |
| `Incidents` | the incident workflow: the view, the parked incidents, what each operation journals |
| `MCIncidents` | instances of `Incidents` for TLC |
| `IncidentsProofs` | `Incidents`: the document can always be loaded, the refinement of `IncidentBook`, the order of each record's updates, references, assets, with their proofs |
| `Roster` | the crew directory, its refresh job on the delivery worker, the request budget |
| `MCRoster` | instances of `Roster` for TLC |
| `RosterProofs` | `Roster`: types, the budget, the saved list, with their proofs |
| `Intake` | packages from a drive to a slot: scan, staging, channel, approval, installation |
| `MCIntake` | the instance of `Intake` for TLC |
| `IntakeProofs` | `Intake`: types, what is selected, what leaves the staging directory, with their proofs |
| `Terminal` | operations and their transactions, the Settings panel, the administrator's password and its throttle |
| `MCTerminal` | the instance of `Terminal` for TLC |
| `TerminalProofs` | `Terminal`: types and all three properties, with their proofs |

How they fit together: `Terminal` is about the transaction every operation runs
in, and about the two other writers of files on the screen's thread. `Incidents`
takes an operation as one atomic commit and says what it does to incidents and
journal; `Delivery` takes what is journaled as given and delivers it; `History`
does the same for the local archive. `Roster` borrows the worker of `Delivery`.
`Intake` ends where a version is selected, and `Update` begins there. The modules
are checked apart: their product is out of TLC's reach, and what one assumes of
another is named under its abstractions.

Some operators stand just before the one they resemble and are used nowhere (`CaptureUnreported` before `Capture`,
`UnlinkedAll` before `Unlinked`, ...). Each is a plausible mistake in that piece
of code; `PROJECT.json` lists under `mutants` which property notices it.

### Delivery

*State.* `journal` is the committed document, as far as delivery is concerned:
the phase of every entry, whether its arguments still hold a local reference
(`waits`), the reference and the binding of each incident's record (`ref`,
`home`), and whether delivery pauses. Entries are numbered in the order they
were recorded, instead of by UUID; what never changes after recording is in
`intent` and `binding`. `op` is the local operation that owns `app.busy` and
how far it got: `running` until its worker ends, `done` or `failed` until its
callback ran. `active`, `http` and `result` are the coordinator's slot, the
network thread and the results queue. `seen`, `effects` and `stray` are the
outside world: the service's deduplication memory, how often it carried each
entry out, and requests under way that nobody waits for any more. `reviews`,
`settled`, `issuer` and `asked` are history variables the properties need.

*Actions.*

| action | code |
|---|---|
| `BeginOperation`, `QueueUpdate`, `QueueAgain`, `OperationFails`, `EndOperation` | `app.perform` around a transition of the workflow that calls the facade and `enqueue` |
| `PollResult`, `PollExpired`, `PollStart` | the three branches of `DeliveryCoordinator.poll` |
| `ExpireSaved` | the operation that holds an expired help message |
| `PrepareSaved`, `PrepareBreaks` | `_start.prepare`: validation, connector of the worker, the saved `sending` |
| `Dispatch`, `DispatchFails`, `PrepareGivesUp` | `_dispatch` and `_start.failed` |
| `SendRequest`, `Serve`, `Respond`, `Reject`, `Refuse`, `LoseAnswer` | one request in the network thread and its outcome |
| `AckSaved`, `AckDone`, `AckFailed` | `_apply` and its two callbacks |
| `RetryReviewed`, `DismissReviewed`, `ConfirmReviewedAsset`, `LinkReviewedRecord` | the review operations (`DismissReviewed` stands for the two that only remove a message) |
| `SelectConnector`, `WindowPasses`, `PauseEnds` | Settings and the clock |
| `Stop`, `Restart` | shutdown, crash or power loss; launch and `recover` |
| `StrayArrives`, `RenameSettles` | the network and the file system |

*Outcomes.* `ok`; `unusable` (a 2xx the connector cannot use); `rejected` (3xx
and 4xx: permanent); `refused` (no connection, budget, 425, 429: certainly not
carried out); `uncertain` (408, 5xx, a timeout or a lost answer after the
request was written). `sent` tells whether a write had been handed over.

*Abstractions.* The arguments of an update are reduced to the record they name
and one content value. Back-off times and the quota pause become one flag that
is raised by every transient failure and falls at any later moment, so that
every schedule of retries is included. Field validation, disk errors and a full
journal are one event, `OperationFails`, that may happen to every local
operation. One local operation of the workflow records one update; several
updates of one transition are committed together in the code, so the model has
more interleavings, not fewer. The refused request of a trial version changes
nothing and is not an action.

*What is assumed of the outside.* A status of 3xx, 4xx, 425 or 429 means that the
write was not carried out. A service whose connector declares an operation
retry-safe deduplicates by key, for ever, within one system. A request the
terminal gave up on may arrive at any later time, or never.

### OutboxContract

An update is `pending`, `held` or `closed`. It is closed by an answer only
after the service carried it out, and by a person only while it is held. The
service may carry it out at any time after it was recorded (a late request),
but only when everything it is ordered behind is closed, and at most once per
authorisation if the service does not deduplicate it. `Delivery!KeepsContract`
is the refinement: `stage` is read off the journal, `after` is `Before`, `once`
holds for every update that is not retry-safe or is bound to a system.

### History

*State.* `pending`, `turn` and `links` are `history_pending` and the waiting
links of the state file; `phase`, `version`, `named` and `jobs` are what the
rest of the document says of an incident: how far it is, how many different
snapshots were made of it, whether its external identifier is known, whether
the delivery journal mentions it. `rows` and `linked` are the two tables of the
archive. `active`, `job`, `result`, `resting` and `cleanup` are the
`HistoryCoordinator` and its thread; `op` is the local operation that owns
`app.busy`. `aged` holds the incidents completed more than 24 hours ago.
`reclaimed` is a history variable.

*Actions.*

| action | code |
|---|---|
| `BeginOperation`, `Transition`, `OperationFails`, `EndOperation` | `app.perform` around a workflow transition or a delivery acknowledgement that stages a snapshot: `ReportIncident`, `Change`, `Release`, `CreationAnswered` (`replace_reference`), `UpdatesAnswered` |
| `PollCapture`, `PollNothing`, `PollAcknowledge`, `PollError` | the branches of `HistoryCoordinator.poll` |
| `Maintain`, `Store`, `WorkerFails` | the writer thread: retention and the write of a batch, one SQLite transaction each, and any error before, between or after them |
| `AckSaved`, `AckDone`, `AckFailed` | the acknowledgement and its two callbacks |
| `RestEnds`, `HourPasses`, `DayPasses` | the clock |
| `Stop`, `Restart` | shutdown, crash or power loss; launch |

*Abstractions.* A snapshot is a number and whether it shows a completed
incident: snapshots with different numbers differ in some field. Retention by
age, by number of rows and by size is one choice of any completed,
day-old rows the captured journal does not mention. The validation of a
snapshot is `OperationFails`. The refusal of an acknowledgement while a trial
version runs is `PollAcknowledge` followed by `OperationFails` and `AckFailed`.
The state file is durable when a save returns; what a power loss may undo of it
is modelled in `Delivery`.

### HistoryContract

For each incident, `kept` (what the archive shows) follows `newest` (what was
committed) and never falls, except to nothing when the incident is disposable:
completed more than a day ago with nothing left to report. `History!Contract`
reads `kept` off the archive rows.

### Update

*State.* `link` is the active link, `slots` the version directories with an
executable, `staged` the staging directory; `journal` is `journal.json` and
`boot` is `boot_state`. `proc` is the supervised process: off, in the launcher
between its two writes, starting, or up; `runs` is its version. `memory` is
`UpdateService._journal`, `shown` what the published status says, `dwell` and
`due` are how far the health check got, and `task` is the operation that holds
the install lock with the write it is at. `cut`, `starts` and `changes` are
history variables.

*Actions.*

| action | code |
|---|---|
| `LaunchPlain`, `LaunchCounted`, `WatchdogRestores`, `WatchdogRecords`, `WatchdogFails` | `floorterminal-launch`: start, count a start of a version on trial, switch back, record that, or fail to |
| `Prepare` | `UpdateService.prepare` and `initialise`: the journal is reconciled with the link |
| `SaveJournal`, `SaveBoot`, `SaveFails` | the two writes of `_persist`, of any operation |
| `SwapLink`, `SwapFails` | `_swap_link`, and what the service does after it |
| `Dwells`, `CheckHealth`, `Confirm`, `Prune` | `_maybe_confirm`, `confirm` and `prune` |
| `Refresh` | `_refresh` |
| `StagePackage` | `_scan_media` up to `media.stage` and the removal of older packages |
| `Promote`, `ActivationRefused`, `ActivationIntended` | `activate` before its writes |
| `Restore` | `rollback` before its writes |
| `Exit` | the restart after a change, a crash, or the loss of power |

*Abstractions.* Signatures, manifests, checkpoints and compatibility checks are
decisions made before `Promote` or `Restore`, or `ActivationRefused`. Of the
history only the versions never confirmed are kept (`pending`), without its
limit of 40 entries. Attempts above the limit are one value. Renames are durable
in their order. Damaged files, an installation without slots and a second run
of `install.sh` are left out. The launcher starts the terminal, so a change
always ends in a restart. A version in `Dead` ends before `prepare` whenever it
is started.

### Incidents

*State.* `view` is the incident the top-level fields of the saved document
describe (or none), `parked` the other open ones, as the same fields under their
identity; `outbox` is the delivery journal, reduced to what an entry is about, the
binding it has and whether it names a local reference. `link` and `tracking` are
the connector in use (or none, or the mode without journal) and the switch for
assets. `releasing` is a confirmed release whose transaction is under way. `life`,
`told` and `ledger` are history variables: what became of an identity, the last
state journaled for an asset, what was journaled about an incident (nothing, its
creation, its end; `broken` is anything out of that order). An operation journals
a batch of updates; `Keyless` leaves out the one that `enqueue` finds in the journal
already, and `Written` the whole batch in the mode without journal.

*Actions.* Each is one operation of `app.perform` and commits the new view with
all its updates, or nothing if the journal has no room (`Commit`).

| action | code |
|---|---|
| `SelectLine`, `SelectZone`, `SaveFailures`, `RemoveStation` | the choice of stations and failures before a report |
| `Report`, `StartPlannedWork` | `report_downtime` (with `begin_incident`, the record, the asset, help messages and the operator's own repair), `start_planned_work` |
| `StartRepair`, `UpdateActiveCrew`, `ChangeStatus`, `RequestHandover` | repair, crew, status, the call for help after an own repair |
| `EscalateView`, `EscalateParked` | the deadlines of the incident in view and of a parked one |
| `ConfirmRelease`, `FinishWork`, `ReleaseFails` | back to production: the captured confirmation and the transaction, with the next parked incident fetched |
| `Focus`, `FocusNew` | another incident, or none, is brought into view |
| `Deliver` | a delivered creation substitutes its identifier everywhere |
| `SaveSettings`, `CreateConnector` | the connector chosen in Settings, and by the wizard |
| `Restart` | the document is loaded and validated |

*Abstractions.* A station is identified with its group. Release times, the
history of engineers, the wording of messages and `call_team` are left out; what
is under way when an operation starts is the transaction of `Terminal`, so that a
step here is a whole operation. Time is a deadline that may have passed. The code
lets Settings switch asset tracking while incidents are open; nothing then takes
back, or makes up for, what was journaled before. The constant `Retrack` says
whether that happens: both configurations set it to `FALSE`, because `AssetFollows`
is about a terminal where it does not.

### IncidentBook

An incident has a phase (`none`, down, repairing, planned work, `RELEASED`) and a
set of stopped groups; a new one stops groups nobody else stops, it moves through
its phases one step at a time, and a released one never returns.
`Incidents!KeepsBook` reads both off the view and the parked copies: focus
changes, deliveries, Settings and restarts must be no step at all.

### Roster

*State.* `cache` is the saved list, `refresh` the saved record of the cycle
(pending, by hand or daily, failures, the wait), `job` what the worker does with
the pages it has read, `progress` the pages kept from one attempt to the next,
`sent` and `cool` the request window and the cooldown, `pause` the coordinator's
pause, `outbox` how many deliveries wait. `real` counts what was really sent in
this minute, a history variable.

*Actions.*

| action | code |
|---|---|
| `Request`, `StartDaily`, `Start`, `Midnight` | `request_roster`, the daily cycle, `_poll_roster` and `_start_roster` |
| `Read`, `ReadFails` | one page of one of the two directories: read, over the limit, out of budget, unreachable, asked to pause, refused |
| `Acknowledge` | `_acknowledge_roster`: adopt the list, or wait longer |
| `Enqueue`, `StartDelivery`, `FinishDelivery`, `TestConnector` | the others who use the worker and the window |
| `Reload`, `Restart` | another connector or team; a stop (the window is lost, the record is not) |
| `PassTime` | the next deadline |

*Abstractions.* Time is counted in minutes, rounded up, jumps to the next
deadline and does not pass while a page is on its way. A save that fails changes
nothing and is no step. Whether a version on trial or an idle terminal allows a
cycle is a free choice.

### Intake

*State.* A package is an identity with a version and the oldest version it may
replace; a copy of it is whole or damaged. `drives`, `staging` and `slots` say
where copies are; `active`, `trial` and `installed` what is selected and what
runs; `blocked` the versions found in conflict, `shown` what the panel offers,
`known` and `cache` what was announced. `prompt` and `approved` are the
administrator's dialog and its answer, `unchanged` whether the data an installation
was checked against is still the same, `lock` the install lock, `job` the scan of each of the two
threads (worker and panel).

*Actions.*

| action | code |
|---|---|
| `WorkerScan`, `PanelScan`, `ScanTry`, `StageCopy`, `ScanFinish`, `ScanEmpty` | `_scan_media` and `stage`, from the newest candidate down |
| `Reread`, `Publish` | `_refresh` |
| `CheckChannel` | the announcement, with its progression |
| `OpenPrompt`, `ClosePrompt`, `Approve` | the update panel and the password dialog |
| `InstallStart`, `Promote`, `Switch`, `Restart` | `install_staged`, `activate`, `promote_staged`, the switch and the restart |
| `Confirm`, `Stop`, `ChangeDrive`, `Damage`, `DataChanges` | the health check (in `Update`), power, and the world |

*Abstractions.* Signatures and schemas are one Boolean: a copy is genuine and
whole, or refused. Free space, more than 64 packages on a drive and the restore
of an older version (in `Update`) are left out.

`NewerKept` speaks of candidates that may still be installed: a release candidate
staged while another one ran is given up for any stable version once a stable one
runs. It excepts conflicts in two ways. If one drive holds another package of the
newest staged version and an older installable one, the scan blocks the version,
stages the older package in its place and discards the newer; the next scan no
longer knows the conflict. And a stop between a copy and the discarding of the
others leaves two whole candidates: if the newer one is then contested, the scan
does not fall back to the other, and an older package from a drive replaces both
(`Contested`).

### Terminal

*State.* The files: `saved` (the document, as the parts of each operation that
are done, the scope of the open incident, the selected stations and the staged
history record), `zones` (the configuration), `verifier` (the password) and
`record` (the throttle), `damaged` those that cannot be read. In memory: `live`,
`config`, `busy`, the operation `op` on the worker thread and how far it got, the
events queue `result`, the panel, the modal dialog, the throttle. `wrong` and
`owed` are history variables: the wrong passwords recorded, and whether a pause is
owed.

*Actions.*

| action | code |
|---|---|
| `Perform`, `OpMoves`, `OpQueues`, `OpSwallows`, `OpRaises`, `OpRefused`, `OpCommits`, `OpSaveFails`, `Deliver` | `app.perform`: nested transactions, a best-effort caller that swallows a failure (`fail_transaction` marks it), validation, the save and its roll back, the callback |
| `WriteSettings`, `ApplySettings`, `ApplyFails`, `CloseSettings` | the panel writes the configuration, then applies it |
| `AskAccess`, `Cancel`, `RightPassword`, `WrongPassword`, `UnrecordedFailure`, `BeginReplacing`, `ReplacePassword`, `NotReplaced`, `AuthorizationEnds`, `EnterAgain` | the administrator's dialog |
| `PauseEnds`, `Stop`, `Start`, `RefuseToStart`, `RestoreVerifier`, `DamageRecord`, `DamageFile`, `RepairFile` | the clock, power, and the files |

*Abstractions.* The line has one incident and every station is its own group (`Incidents`
has several). An operation is a local move and two updates that belong to
it. A password is its verifier. `SettingsCredentials.replace` reads the file and
compares it with the verifier that was matched (`BeginReplacing`), hashes the new
password three times, and then writes (`ReplacePassword`): the screen's thread does
nothing else in between (`Listens`), while power, the worker thread and a system
administrator who exchanges the file go on. `verify_settings_password` reads the
verifier once; what is exchanged during its hashing counts as exchanged after the
step, which is the same, since nothing but the outcome of the comparison depends
on it. Three recorded failures or more mean a pause, of
any length. The identity stage, the loop over mismatched new passwords and the
definition editor are left out. Two limits of the model to know of:
`Settings.save` writes the selected connector before the configuration, so a
failure between them takes effect at the next start only, and an `OSError` of the
second write is not caught there.

## 3. Runs

| run | instance | shows |
|---|---|---|
| `delivery_records` | a creation, a status and an asset event; one review, one stop; a file system that may undo the latest rename at power loss | creation first, no dangling reference, save before write, answers kept |
| `delivery_sites` | the same updates, two connectors; one review, one stop, one switch | at most once, bound updates stay on their system, nothing is lost, lane order, the contract |
| `delivery_expiry` | a creation, a comment and a help message that expires; with `DiskSpec` | nothing is lost, expiry is processed and the slot freed, whatever the service does |
| `delivery_progress` | with `DiskSpec` | the queue drains, if the site works |
| `history` | a connected and a standalone incident, batches of one, one stop; with `DiskSpec` | no snapshot and no identifier lost, what retention may remove, the contract; a pass ends and the queue empties, if the archive works |
| `update_switch` | three versions, the newest unable to start, three changes, failing writes | something launchable is selected, trials are supervised and undone, health is confirmed by its own process and respected |
| `incidents` | two incidents, two groups that share an asset, a connector taken out of use between incidents | the document loads, assets and records follow the floor, the book of stops |
| `roster` | two connectors, one with a list over the page limit; deliveries, tests, faults, stops | the budget, the saved list, a refresh asked for ends |
| `intake` | five packages, two of one version, one that needs an intermediate step, one a release candidate; two drives | approved is installed, newer kept, fit is offered |
| `terminal` | two stations, three verifiers, three operations, four guesses, two faults | whole operations, stations of open incidents, pauses |
| `wizard_switch`, `roster_livelock` | violations | section 6 |

The type invariants of the proved modules and `SlotOwned` are theorems and not
checked again by the runs.

*Bounds of `Delivery`.* `MaxItems` entries (2 or 3) are ever recorded; with
three there is a creation, an update that waits for it and one of another lane,
or two updates of one lane behind their creation, and every pair of an order,
which is what the properties speak of. A stop can
happen at any point of a delivery. `MaxReviews` bounds the retries an
administrator authorises in all, and `MaxSwitches` the changes of connector.
`MaxOutbox` is the capacity (512 in the code), smaller than the entries of
`delivery_records` and `delivery_sites`, which therefore meet a full journal. The two
connectors of `delivery_sites` are exchangeable and TLC uses that.

*Bounds of `History`.* Two incidents let one be completed and reclaimed while
the other is staged. `MaxVersion` snapshots of an incident (2 or 3) are enough
for a first one, one that is captured and one that replaces it meanwhile.
`MaxPending = 1` and `Batch = 1` (256 and 32 in the code) make the queue full as soon
as one incident waits: the transitions of the other one, and the answer to its
creation, are then refused until the archive has worked. With `MaxPending = 2`, where
a snapshot waits for another pass, all properties hold as well.

*Bounds of `Update`.* Three versions give one that is installed, one on trial
and one to supersede it; `MaxChanges = 3` allows a change, its restore and another
try. With `RetainedSlots = 2` (3 in the code, which accepts no less than 2) the
third version makes `prune` remove one. `Limit = 2` (3 in the code) tells the first
start from the last one permitted.

*Bounds of `Incidents`.* Two incidents over two groups are what parking,
overlap and a shared asset need; identities are exchangeable and TLC uses that.
The journal has room for three entries, so that operations are refused in the
middle of an incident. The connector `s1` takes assets, statuses and team
messages, but no comments and assignments, so that both branches of `_supports`
are taken. Deadlock is checked.

*Bounds of `Roster`.* A budget of three requests lets a refresh of three pages
meet deliveries and a test within a minute; lists of two pages (whole) and three
(over the limit) reach every branch of the reader. `MaxEvents = 3` faults, changes
and stops in all. The delays and lifetimes are those of the code (complete pages 5
minutes, partial 30, at most 60 between attempts).

*Bounds of `Intake`.* The terminal starts with a release candidate, version 1.
Version 2 is claimed by two packages, version 3 can only replace version 2 or newer,
version 4 is a release candidate, which a stable terminal refuses: conflict, blocked
version, a step over an intermediate one and a candidate that may no longer be
installed all happen. One drive is watched by the worker, the other only
by the panel. `MaxEvents = 3` drives exchanged, damages, changes of data, stops.

*Bounds of `Terminal`.* Three operations: one that begins an incident, one during
it, one that ends it. Four guesses are one more than make a pause. Two faults
(a failed write, a stop, a change of a file), in any two places.

In the other runs deadlock is not checked: a terminal whose operator rests, and whose
bounds are used up, may really stop.

*Fairness.* `LoopFairness`: threads end (each HTTP request has a timeout), the
loop runs callbacks, a pause ends, a stopped terminal is started again. `Poll`
is strongly fair: an operator who keeps starting operations only disables it for
a while, and `poll` runs in the same tick that clears `busy`.
`DiskFairness` adds that a save tried again and again works at last. What no
code can guarantee is the antecedent of a property and not part of the
specification. `Drains` holds if `SiteWorks`: every step of each entry's
delivery is possible now and then, the entry's own attempts included. An
entry that always fails with a transient error is tried first every time and
pauses all others. `QueueEmpties` holds if `ArchiveWorks`: a pass can be started
and its writes work, if tried again and again.
`SupervisorFairness`: the service unit has `Restart=always`, a version that
cannot start ends, an operation goes on. The unit's burst limit, ten starts in
120 s, is not modelled. `Roster`: the poll of the main thread, the worker and the
clock go on (weak fairness of their steps together); nothing is assumed of
operators, faults or the service. `Intake`: the worker looks again every few
seconds and gets the install lock in the end (strong fairness of its steps), and
an installation that was started goes on. `Incidents` and `Terminal` have no
liveness property: what they promise depends on people. `DeadVersionUndone` holds if `LauncherWorks`: the
launcher's writes work, if tried again and again.

## 4. Theorems

`DeliveryProofs` proves for every value of the constants that satisfies the
three named assumptions of `Delivery`:

* `TypeCorrect`: `Spec => []TypeOK`. `TypeOK` is inductive as it stands. That
  needs the dependent types `Operation`, `Call` and `Report`: an operation on
  an entry names a recorded position and one that talks to a service names a
  connector, otherwise `Serve` could not be shown to keep `seen` and `effects`
  in their types.

* `SlotNeverLeaks`: `Spec => []SlotOwned`, and `SavedBeforeSent`:
  `Spec => []DurableBeforeWire`. Neither is inductive. `SlotInv` adds where each
  stage of an attempt can stand (`Stations`: an acknowledgement carries the
  entry of the slot, a request has not been answered before it was made, ...),
  that the entry of a request or an outcome is `sending` in the document
  (`InFlight`), and that the document in memory and the older file agree on what
  was recorded (`Documented`). Lazy renames are included.

* `AnswersAreKept`: `Spec => AnswerKept`, with `AnswerSaved` (a saved acknowledgement
  of success has removed its entry).

* `CarriedOutAtMostOnce`: `Spec => []AtMostOnce`, assuming `LazyRename = FALSE`. The inductive invariant
  `OnceInv` is a balance: for an update without deduplication, the effects it
  had, the requests for it that may still arrive and the write it may still make
  without a person (`Unspent`) are together at most one more than the reviews
  that authorised a retry (`Allowance`). Serving a request turns a permission
  into an effect, a timeout turns it into a stray request, a retry adds one to
  each side. For an update with deduplication it says that the service knows
  the key of what it carried out (`Remembered`). The assumption is needed: with
  lazy renames the same property is violated (section 6).

`DeliveryOrder` proves, lazy renames included:

* `RecordsComeFirst` and `NothingDangles`: `Spec => []CreationFirst` and
  `Spec => []NoDanglingReference`. The invariant
  `OrderInv` says of a document taken as an argument that a pending entry waits
  exactly while its record is local, and that a record is local exactly while its
  creation is pending (`Sound`). It is kept both for the journal and for the file a
  power loss would bring back. What was sent, or may still arrive, was preceded by
  nothing undecided in either of the two (`SentDecided`): an entry is prepared only
  when nothing before it is undecided, and saving `sending` makes the document of
  that moment the older file. A step then only ever settles a document further
  (`Settles`), so that what was decided stays decided.

and, assuming `LazyRename = FALSE`:

* `ImplementsOutbox`: `Spec => KeepsContract`, the refinement of `OutboxContract`.
  Each action maps to one step of the contract or to a stutter, under the refinement
  mapping `Stage`, `After` and `Once`. Besides `OnceInv` and `OrderInv` it needs
  `Carried`: what was answered with success was carried out.
* `NothingIsLost`: `Spec => []NothingLost`, from the steps of the contract: what it
  closed was carried out or settled (`Owed`).
* `LanesKeepOrder`: `Spec => LaneOrder`. Once a later update of a lane was carried
  out, an earlier one is decided (`LaterIsDecided`, from `SentDecided`), so that
  no call works on it and only a late request can carry it out. By `Owed` it
  was carried out before or closed by a person; by the balance `Allowance`, or by what
  the service remembers, a request left over beside that effect is one that a person
  authorised. The assumption is needed: a power loss that undoes the save of
  `sending` leaves such a request without any review.
* `RoutesAreBound`: `Spec => []BoundRouting`. The invariant `RouteInv` ties the
  binding of an update to the home of its record (`UpdatesFollow`), the home to the
  binding of the creation (`CreationsAtHome`), and the identifier to the home
  (`IssuedAtHome`), so that whatever is selected meanwhile does not matter.

`HistoryProofs` proves for every value of the constants that satisfies
`HistoryAssumption`:

* `HistoryTypes`, `NewestIsKept`, `IdentifierIsKept`: `Spec => []TypeOK`,
  `Spec => []NewestKept`, `Spec => []IdentifierKept`.
* `ReclaimsOnlyDone`: `Spec => ReclaimedWhenDone`, about the steps of retention.
* `ImplementsHistory`: `Spec => KeepsHistory`, the refinement of
  `HistoryContract`.

They rest on one inductive invariant, `HistoryInv`. That nothing is lost needs
to know that a batch is in one place at a time (`OneBatch`), that what waits to
be acknowledged is in the archive as it was captured (`Written`), and that an
archive row is never ahead of the document (`Following`). That retention is
right needs `Shielded`: the identities captured as protected still cover the
completed rows the journal mentions, because a completed incident without jobs
can no longer get one.

`UpdateProofs` proves for every value of the constants that satisfies
`UpdateAssumption`:

* `UpdateTypes`: `Spec => []TypeOK`, and `AlwaysLaunchable`:
  `Spec => []Launchable`. The invariant `UpdateInv` adds that the version to go
  back to is installed wherever a record says `probation`, also in the journal
  and in a record about to be written (`Returns`), and that slots are removed only
  while the journal and the boot state both say `confirmed` (`Removal`): the
  order of the writes of `confirm` before its pruning.
* `TrialsAreSupervised`, `FallbackIsAccepted`, `OnlyItselfIsConfirmed` and
  `HealthyIsSpared`: `Spec => []Supervised`, `Spec => []AcceptedFallback`,
  `Spec => ConfirmsItself` and `Spec => WatchdogSpares`. `TrialInv` adds what the
  running process remembers of a trial (`Believes`: its record names the active
  version and the marks of the journal, and what it found due is the version it
  runs itself), what each operation is about to write (`Underway`), and, as long as
  no operation was cut off between its records, that an active version on trial is
  on trial in both records, and that a boot state which still says so for another
  version would go back to the one that is active (`Watched`). The last case is a
  watchdog whose boot state could not be written.

`IncidentsProofs` proves for every value of the constants that satisfies
`IncidentsAssumption`:

* `AlwaysLoadable`: `Spec => []Loadable`, and `ImplementsBook`:
  `Spec => KeepsBook`, the refinement of `IncidentBook`. The invariant
  `IncidentsInv` is the statement `Document` about a view and its parked copies,
  written over arguments so that it can be said of the document before and after
  a step, and `Lived`, that an identity is given exactly while it is open. The many
  operations fall into seven kinds of step (`Kinds`): those that keep every
  incident, move the one in view, choose stations, begin, end, park and fetch.
  What keeps the document valid is then proved once per kind, and so is the step
  of the book. It needs `Document` in full: that a fetched incident does not meet
  the one that is parked in its place rests on all scopes being disjoint.
* `AlwaysReferencesFollow` and `AlwaysLedgerKept`: `Spec => []ReferencesFollow` and
  `Spec => []LedgerKept`. The steps are sorted once more, by what they journal:
  operations that journal nothing, work on an open incident, begin one, end one, a
  delivery, Settings (`JournalSteps`). `JournalInv` adds `Journaled` to `IncidentsInv`:
  every open incident is bound to the connector in use (`Frozen`; the wizard of
  section 6 is what breaks it), an incident with a local reference has its creation
  in the journal (`Referred`), and so, before it, has each update that names one
  (`Follows`), only a released incident's record is being closed (`ClosedLast`), and
  the ledger agrees with what is open, free or released (`Entered`). Deduplication is where it
  could go wrong: an update left out because the journal holds its equal must be
  neither a creation nor the end of a record.
* `AlwaysAssetFollows`: `Spec => []AssetFollows`, assuming `~Retrack`. `AssetInv` says
  exactly what was told of every asset: Offline on the connector in use if tracking
  is on and an open incident stops one of its groups, else Online; and that each
  open incident has recorded that it is Offline, without which a release would not
  say Online. The other theorems of `Incidents` do not need that assumption.

`RosterProofs` proves for every value of the constants that satisfies
`RosterAssumption`:

* `RosterTypes`: `Spec => []TypeOK`; `BudgetIsKept`: `Spec => []BudgetKept`, from
  `Counted`: the shared window counts exactly what was sent;
* `CacheIsKept`: `Spec => CacheKept`, from `Sound`: nothing read before the cycle
  began is kept, and an attempt that ends well has every page of the list.

`TerminalProofs` proves for every value of the constants that satisfies
`TerminalAssumption`, besides `TerminalTypes`, all three properties of its run:

* `OperationsStayWhole` from `Exclusive` (who excludes whom) and `Whole`: where an
  operation on the worker is, and that one of whose nested transactions failed is
  marked, so that it cannot be committed;
* `TopologyStays` from `Topology`: what Settings wrote and has not applied yet
  still fits the incident in memory;
* `PausesAreServed` from `Delay`: memory and record count every recorded wrong
  password, or the record is damaged and counts as a pause.

`IntakeProofs` proves for every value of the constants that satisfies
`IntakeAssumption`:

* `IntakeTypes`: `Spec => []TypeOK`. That needs a newest candidate to exist: the staging
  directory stays finite, and strict inclusion of finite sets is well-founded
  (`NewestIs`).
* `SelectsAsApproved`: `Spec => AsApproved`. `Locked` says which steps are taken
  with the install lock, so that a scan and an installation exclude each other;
  `Installing` that from the checkpoint to the switch the package at hand is the
  approved one and not in conflict, and that its slot is there before it is selected.
* `NeverGivesUpTheNewest`: `Spec => NewerKept`. `Scanning` follows a scan: while it looks
  (`Gathered`), no candidate that is staged is newer than the one it keeps, which is still
  to be tried unless its version is blocked; what it copies is no older than anything
  still to be tried (`Picked`), so that no candidate is newer than what it
  selects, unless contested (`Chosen`). The worker's scan and the panel's look at different
  drives; the invariant holds for each, because only the holder of the lock changes
  the staging directory, and damage takes no package away.

Every safety and action property that a run checks is thus a theorem. What is only
model-checked is liveness: `SlotFreed`, `ExpiryIsProcessed` and `Drains` of
`Delivery`, `WriterFreed` and `QueueEmpties` of `History`, `DeadVersionUndone` of
`Update`, `RefreshCompletes` of `Roster` and `PackageOffered` of `Intake`. Liveness
under fairness and `ENABLED` are out of TLAPS' reach. Six theorems assume
more than the modules do, as said above: `LazyRename = FALSE` for at most once, the
contract of the outbox, nothing lost, the order of lanes, and routing; `~Retrack`
for the assets.

## 5. Not modelled

* Audit log and housekeeping: a bounded queue to one writer and the removal of
  old files; planned, and the first candidate for another module.
* Connector definitions, request assembly and mapping, signatures and manifests:
  pure functions of their data, without state or interleaving. `Delivery` and
  `Roster` have their outcomes, `Intake` whether a package is genuine.
* What is drawn, audio, branding, translations, and the scripts that build and
  package: presentation and tooling.
* Of the incident workflow: release times, the history of engineers, `call_team`
  and wording, as said in section 2. Known and not stated as a property:
  `escalate_group` records a message for a parked incident without looking
  whether the connector takes messages (`controller/groups.py:203-205`).

## 6. Where the code and its documents disagree

Two are kept as runs that end in a violation:

* `wizard_switch`: Settings refuses another connector while an incident is open,
  but the connector wizard selects the one it creates at once. The release of the
  asset is then journaled for a connector that takes no asset updates, and the
  asset stays Offline where it was reported.
* `roster_livelock`: an attempt that ran out of the request budget counts as a
  failure even if it read a page. The delay doubles until it outlives the pages
  read so far, and with one request a minute a list of four pages is never
  complete, whatever the service answers. The documentation promises progress in
  just this case.

The others need no run of their own; the definitions named here state what a
document says and are violated when they are added to the configuration given:

* `NewestEntryIsCurrent` (`delivery_records.cfg` with `Intents <- CrewIntents`,
  `Values = {v1, v2}`, `MaxItems = 4` and `MaxOutbox = 3`): a
  crew set to A, then B, then A again while the first assignment is still in the
  journal: `enqueue` finds the first entry equal and appends nothing, so that the
  service ends with crew B.
* `RecordStaysWithItsSystem` (`delivery_sites.cfg` with
  `Intents <- DependentIntents` and `MaxSwitches = 2`): an incident begun without a
  connector has an empty binding; its record may be created on one system and its
  later updates sent to another one selected meanwhile, under the first one's
  identifier.
* `AtMostOnce` (`delivery_records.cfg`, where renames are lazy): the directory of
  the state file is not synced after the rename, so that a power loss can undo
  the save of `sending`; recovery then repeats a write without review. `LaneOrder` is
  violated there too, for the same reason.
* `DelayedNeverFollows` (`delivery_sites.cfg`): "a delayed OFFLINE cannot follow a
  newer ONLINE" (`docs/offline-delivery.md:158-159`). An OFFLINE whose answer was
  lost is held; a person confirms it as present, or releases it and the second request
  succeeds; the ONLINE behind it is delivered; then the first request of the OFFLINE
  arrives after all. No code in the terminal can prevent that. What does hold is
  `LaneOrder`: it takes a late request and a person's decision.
* `StartsWithinLimit` (`update_switch.cfg`): every start that reaches `initialise`
  writes the boot state with no attempts, so that a version on trial that ends
  later, also by the exit that asks for "supervised recovery", is never undone.
* `OnlyHealthConfirms` (`update_switch.cfg`): a restore during a trial that is cut
  off before the link is switched leaves the trial version active, confirmed in
  the journal and not supervised. `Supervised` and `AcceptedFallback` therefore
  except histories in which that happened (`cut`); `WatchdogSpares` those in which
  a confirmation was cut off between its two records.
* `ReplacedAsVerified` (`terminal.cfg`): "The password changed; cancel and authorize
  again" (`core/settings_auth.py:82`) is decided before the new password is hashed. A
  password file that a system administrator puts in place between that comparison
  and the write is overwritten.

## 7. Plan

Done: `Delivery` and its contract, `History` and its contract, `Update`,
`Incidents` and its book, `Roster`, `Intake`, `Terminal`, and the theorems of
section 4.

Left:

1. `Audit`: the bounded writer queue and the retention of its files.
2. `Update`: a slot promoted but never activated that becomes the version to
   restore; a confirmation that failed once.
