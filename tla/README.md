# TataTuya in TLA+

TataTuya is a macOS desktop application that reads electricity meters through
the Tuya cloud, keeps their readings in an encrypted local database, and
computes what a tenant owes between two readings. This directory holds TLA+
modules translated from its source (`src/src/tatatuya`), the configurations
that TLC checks them with, and theorems about them that TLAPS proves.

## 1. Inventory

| Component (source) | State it keeps | Operations | Interacts with |
|---|---|---|---|
| **Protected storage** (`infrastructure/database.py`, `infrastructure/secrets.py`) | database file, temporary, rollback original, migration marker, lock file; two Keychain items; `_prepared`, `_database_key` | `initialize`, `connect`, recovery, conversion, first creation | everything that reads or writes data |
| **Schema migrations** (`infrastructure/migrations.py`) | `schema_migrations`, tables and indexes | `migrate` | run by `initialize` in its transaction |
| **Device cache** (`repositories/devices.py`) | one row per device: names, product, online, energy code, unit and scale, eligibility, presence, specification, times | `upsert`, `mark_all_missing`, `get`, `list_all` | device and reading services |
| **Readings** (`repositories/readings.py`) | reading rows, unique external keys | `add_all`, `prepare_capture_phase`, `import_cloud_daily`, ordered queries | reading service, cloud history, billing, history |
| **Calculations** (`repositories/calculations.py`) | saved calculations, price preference | `add`, `latest`, upsert of the preference | billing |
| **Settings** (`repositories/settings.py`, `services/settings_service.py`, `ui/dialogs/settings.py`) | metadata rows in the database, Client Secret in the Keychain, verified flag | load, verify, save | Tuya client |
| **Tuya client** (`infrastructure/tuya/client.py`, `signing.py`, `parsers.py`) | region, access token of this client, pending request | `authenticate`, `list_devices` page by page, specifications, statuses in batches, report pages; transport with deadline and limits | services |
| **Report logs** (`infrastructure/tuya/report_logs.py`) | cursor, seen cursors, pacer clock, remaining allowances | `list_events`, retry after a rate limit | cloud history |
| **Discovery** (`services/device_service.py`) | none of its own | `discover`: a complete listing, then the cache in one transaction; `ensure_energy_specification` | client, device cache |
| **Capture** (`services/reading_service.py`) | results so far, reservation of time | refresh of all meters, status of one meter, persisted transaction | client, device cache, readings |
| **Cancellation** (`domain/cancellation.py`) | cancelled flag, deadline, reserved seconds | `cancel`, `checkpoint`, `reserve_after_remote`, `wait` | everything that may block |
| **Cloud history** (`services/cloud_history_service.py`) | none of its own | import of at most one event per local date | report logs, readings |
| **Billing and history** (`services/billing_service.py`, `domain/billing.py`, `history_service.py`) | none of its own | default interval, preview, save | readings, calculations |
| **Energy arithmetic** (`domain/energy.py`) | none | scaling by exponent, unit, canonical text and its bound | capture, billing |
| **Workers and shutdown** (`ui/workers.py`, `ui/app.py`, `ui/main_window.py`, dialogs) | active threads, pending quit, pending refresh, open dialogs | start, cancel, finish, quit | services |

What is hard in each, and what makes it correct:

- *Protected storage*: crashes between renames, several instances, a Keychain
  that answers late. No committed row, key or secret may be lost; no plaintext
  copy may stray; a restart must open the database.
- *Capture*: cancellation and deadlines race the answers of the cloud; partial
  batches; a transaction that must save what was received even when the user
  has cancelled. Every usable reading is saved exactly once or reported lost.
- *Discovery and device cache*: an incomplete page list must not mark devices
  missing; specification and eligibility must survive updates that
  know nothing about them.
- *Cloud history, report logs*: cursor cycles, repeated pages, retries under
  pacing; re-imports must not duplicate or replace readings.
- *Billing*: the interval chosen must still exist when the calculation is
  saved; preview and save must agree; a remembered price belongs to a currency.
- *Settings*: a secret and metadata that live in two stores and are saved one
  after the other; the verified flag must be about the saved credentials.
- *Workers and shutdown*: quit exactly once, after all workers ended, without
  new ones starting; the window must not be left disabled.
- *Energy arithmetic, migrations, token handling*: boundaries and ordering.

How they interact. The GUI thread runs every window and dialog; each operation
that may block is a *workflow* on a `WorkflowThread` with a deadline and a
`CancellationContext`, and its result comes back as a queued signal. A workflow
opens the protected database (`Database.initialize`, `connect`), reads the
settings and the Keychain, calls the Tuya client, and writes through the
repositories. Application instances share the database file, its lock file and
the Keychain, and nothing else. The modules below follow these boundaries: what
one module treats as a single answer (a listing of report logs, a captured
reading, a finished worker) is the promise of the component beneath it.

## 2. Modules

| Module | Models | Run by | Proofs |
|---|---|---|---|
| `ProtectedStore` | abstract: rows are never lost, an open store is encrypted | (refined by `StorageMigration`) | |
| `StorageMigration` | `Database.initialize` / `connect`, Keychain access | `MCStorageMigration` | `StorageMigrationProofs` |
| `DeviceTable` | schema migrations, the device columns, the paged listing of devices | `MCDeviceTable` | `DeviceTableProofs` |
| `Capture` | refresh and individual status, from the listing to the stored readings | `MCCapture` | `CaptureProofs` |
| `Desktop` | window, dialogs, workers, event loop, shutdown | `MCDesktop` | `DesktopProofs` |
| `Settings` | Settings dialog, connection test, save across Keychain and database | `MCSettings` | `SettingsProofs` |
| `Transport` | one HTTP request of `QtNetworkTransport` | (part of `ReportLogs`) | with `ReportLogs` |
| `EventListing` | abstract: a complete listing of the reported events, or none | (refined by `ReportLogs`) | |
| `ReportLogs` | token, specification and pages of a report log | `MCReportLogs` | `ReportLogsProofs` |
| `CloudImport` | import of the recent days of the report log | `MCCloudImport` | `CloudImportProofs` |
| `Billing` | preparation, preview and save of calculations | `MCBilling` | `BillingProofs` |

`PROJECT.json` maps every definition to the lines it translates. A definition
whose comment begins with *Mutant* is not part of a model: it is a definition
of the same module changed as a plausible bug would change it, and shows that
the property named beside it in `PROJECT.json` can be broken by the code.

### Protected storage

`disk` is the directory: main database, temporary export, rollback original and
marker, each with its kind (absent, torn, plaintext, encrypted), its rows, the
key it opens with and whether it still holds the Client Secret. `past` holds
the directories a power loss may bring back: every change is *unsynced* until
the fsync the code makes of the directory. `pc` walks through `initialize`:
lock, recovery (`_recover_interrupted_migration`), classification by header,
creation or conversion (`_migrate_plaintext_database`, one label per file
operation between two crash points), schema, release; `resume` says where a
recovery returns to, because the conversion's handler runs it too. `Fault`
raises at any checkpoint, `Kill` ends an instance anywhere (its Keychain helper
may still add its key later, `HelperLate`), `PowerLoss` ends all and chooses a
directory of `past`. `ProtectedStore` is the promise to the rest of the
program; `StorageMigration` implements it under the refinement mapping
`FoundRows`, `FoundForm`, `Opened`: what a recovery started now would find. The
unlinks of original and marker, with no fsync between them in the code, are
assumed to reach the disk in the order of the program.

### Device table

`db` is the committed database (`columns` of the versions whose statements took
effect, the `ledger` of `schema_migrations`, the `rows`), `draft` the open write
transaction of `writer`, `mutex` the interprocess lock. A start reads the ledger
once under the lock and runs every missing version in a transaction of its own;
a script fails when what it adds exists already. A refresh then takes the
listing page by page, marks all rows missing, upserts the listing and
revalidates specifications; a status request reads the row, waits for the cloud
without a transaction and writes what it read with the answer. `Upserted` is
the SQL of `upsert`, column by column. `account` is the cloud: devices come,
leave, and get another product or specification at any time. `Abort` is a kill,
a cancel, a deadline or an error at any step.

### Reading capture

`job[i]` is a workflow: its step, time left, what remains to be specified and
asked for, the response being saved, the result so far. `known` is the
committed device table, `draft` the table in the open write transaction and
`writer` its holder. Discovery marks all devices missing and upserts the
listing, specifications are revalidated in the same transaction, the commit
ends it; then each chunk is requested under `reserve_after_remote` and its
usable readings are inserted in one `BEGIN IMMEDIATE` transaction, which waits
for the lock for at most the time that is left. The writes of metadata wait too
(`Block`, `Busy`), but for the whole busy timeout, during which the deadline may
pass. `Elsewhere` holds the lock for everything that is no capture: an import, a
calculation, the settings, of any instance (`OtherWork`). A cancel, the tick of
the clock and every failure may come between any two steps; `Interrupt` is the
progress handler that `connect` leaves installed. `listing` is a ghost: the
devices that the last committed listing named.

### Main window, workers and shutdown

`queue` holds the zero timers, `threads` the workers with results and finished
signals under way, `owned` the `WorkerOwner`, `active` the window's own list,
`dialogs` the nested `exec()` loops, `window` the flags and the buttons, and
`phase` the `ShutdownCoordinator`. One action is one entry into Python code from
the event loop. A worker's result is delivered before its finished signal, the
owner's slot runs before the window's or the dialog's, and timers run in the
order they were posted. `Hasty` lets the user act between two zero timers. A
dialog that is left while its worker runs is `closing`; the end of the worker
posts its rejection (`rejecting`), which is a callback of its own. `NeverStuck`
says that an idle window offers what it should (`IdleOffers`), and that every
ending that was asked for has a worker or a callback that brings it about
(`EndingGoesOn`).

### Settings

`keychain` and `meta` are the two stores, each with the number of the save that
wrote it last; `ui[i]` the dialog, `job[i]` its worker, `applied[i]` what
`apply_settings` was last told. A save walks through resolving an empty secret
field, writing the Keychain, reading it back, committing the metadata and
returning; `Break`, `Expire`, `Close` and `Crash` come anywhere between. The
ghost `tested` remembers the pairs that Tuya accepted.

### Report logs

`ReportLogs` composes two machines. `Transport` is one `send_bounded`: `net`
has the reply's status, what is still to come, what Qt has buffered and the
code not read, the body so far, the flags of the callbacks and the time to the
deadline. Headers, chunks, the end, the deadline timer and the cancellation
timer come in any order, the first final one quits the loop, and `Arrived`
judges what was recorded as the code does after the loop. `list` walks through
the import's remote half above it: token, specification, then for every page
the delay of a retry, the pace of the requests, and the request itself.
`left` and `cancelled` are the cancellation context, which every checkpoint
reads. `reports` is what the cloud knows, and it may grow while the log is
listed: a page holds every event up to its next cursor, and else what the cloud
pleases (repeated rows, other values, a cursor seen before, another total,
pages without end). `EventListing` says what an import may expect of all that:
every event reported before the listing began, once and with a value it was
reported with, or an error. `ReportLogs` implements it, and `CloudImport` takes
it as its `List`.

### Cloud import

`log` are the events the cloud will report, `imported` the committed rows,
`writer` the write lock. An event is a time and what was read at it, the key
that the code hashes; the cloud may correct it (`Correct`), and the corrected one
is another event of the same time, which a further import in another zone may
store beside the first. Values of different times are never compared, so that
each time counts its own. A local date is computed from a zone offset as the code does, and the window begins at the
midnight of the first of the recent dates. `Lookup` and `Insert` are separate
steps, because the look-ups read before the lock is taken; the unique indexes
of schema version 4 are the guard of `Insert`.

### Billing

Readings are numbered by id and ordered by time. A context is prepared by
separate reads (`ReadingsRead`, then `Prepared`), a dialog shows a preview from
it, may be reloaded by an import (which replaces the context and not the
currency that the save closure holds), and a save reads the preference anew
before it inserts calculation and preference in one transaction. `created`
ranks `created_at_utc`, which is taken before the commit: calculations may be
committed in another order than they were created in, or share a time, but the
clock is assumed not to be set back. After a commit the dialog closes, or stays
open when the deadline passed since. Three ghosts relate a calculation to its
dialog: `shown` is the bill that the preview showed, in the currency of the
dialog's context, when Save was clicked; `unsaved` and `settled` say that since
the dialog was prepared no calculation was saved and no currency changed.

## 3. Runs

Deadlock is checked in every run, except in `Desktop`, whose application exits
and whose window may be idle with no clicks left.

| Run | Instance | Shows |
|---|---|---|
| `storage` | 2 instances, 2 keys, 2 rows, 3 faults, fair | `NothingLost`, `SecretKept`, `OpenedMeansSealed`, `RecoveryDefined`; that the code implements `ProtectedStore`; that some instance finally opens the database unless a torn marker is on disk |
| `storage_torn_marker` | 1 instance, 1 key, 1 row, 1 fault, fair, expected to fail | a kill between the creation and the write of the marker: no later start opens the database |
| `device_table` | 2 instances, 1 device, 2 products, 2 specifications, 4 versions, 2 pages | a row never mixes two answers, the schema is that of the ledger, a meter marked missing was missing |
| `capture` | 1 instance, 3 meters, chunks of 2, 4 time units of which 2 are reserved, waits of 2, fair | what is reported is stored, by whole responses, once per run; the cache changes by complete listings; the reserve is kept; every workflow ends, in time, and gives the lock back |
| `capture_cancelled` | 2 meters, expected to fail | a cancel after a response can lose it: the progress handler interrupts the inserts |
| `desktop` | 3 threads, 3 clicks, hasty user, fair | captures exclude each other, triggers stay off meanwhile, threads stay owned, the idle window is never stuck, a requested quit happens |
| `desktop_quit_active` | 2 threads, 4 clicks, expected to fail | the application may quit with a running worker |
| `settings` | 1 instance, 2 accounts, 3 saves, fair | verified means tested, the secret goes first, what was applied is stored, a closing dialog closes |
| `report_logs` | 2 events in 3 reports, 2 pages, 1 retry, 3 time units, fair | allowances and rate are kept across retries and pages, a listing is complete or fails, and it ends |
| `cloud_import` | 2 instances, 4 times, 2 zones, 2 scales, or 2 values of the events of one time | one row per day and event, complete imports, the earliest event of the day, no lock left behind |
| `billing` | 2 instances, 3 readings, 2 prices, 2 currencies, 2 calculations | saved as shown, prices keep their currency, intervals run forward and connect |
| `billing_reloaded` | the same, expected to fail | a reloaded dialog shows one currency and saves another |

Some properties are conjunctions: `LockShared` (`LockReleased`, `WaitsInTime`);
`OncePerRun`, `TriggersDisabled`,
`SecretFirst`, `PricesKept`, `Coherent` and `BudgetsKept` include the type
invariant of their module; `RecoveryDefined` (`NoStrayOriginal`,
`NeverAmbiguous`, `OnlyTornRefuses`), `NeverStuck`, `PricesKept` and
`ForwardOnly` name their parts in the modules.

Why the bounds are enough. The hazards need few actors: two instances for every
race over the file, the lock, the days or the preference; three faults for a
crash within the recovery of a crashed recovery; a full and a partial chunk
(three meters, chunks of two) for the batch logic; three worker threads because
a dialog's worker, a forgotten import and a window's worker are the most that
overlap; three saves for a failed one between two good ones; two zones one time
unit apart and days of two units, so that an event moves to another date and a
window may begin inside a day; a third reading that is older and out of line,
or newer, for every order of id, time and value. In `device_table` a row's
columns are independent of other rows, so that one device with two products and
two specifications meets every merge, two pages are the least that let a device
leave or come between them, and the versions start from 0, 1 or 2 and pass the
one that alters the table. In `report_logs` two pages, three rows and one retry
let a page repeat, contradict and exceed those before it and a retry fall
before a further page; bodies of one and two units lie at, below and above both
limits (1 and 2); with three time units the deadline may come before, in and
after every wait.
`RemoteMax`, `SaveMax`, `Reserve` and `Budget` make every timeout reachable with
time to spare and without; in `capture` the other holder of the lock keeps it as
long as it likes, which stands for any number of other instances, while the runs
of a second instance over the same rows are those of the theorems. `InterruptRows` stands for the 1000 SQLite
instructions between two polls, about fifteen inserts. `MaxClicks`, `MaxSaves`,
`MaxCalculations`, `MaxReadings`, `MaxRows` of the storage, `MaxFaults` and
`MaxTime` bound user and environment only, and stop no step of the code;
`MaxPages`, `MaxRows` and `TotalRaw` of `ReportLogs` are limits of the code.
In `billing` the currency changes, and an import starts, only while a calculation
may still be saved: after the last one no property can tell either apart.
In `cloud_import` the state constraint `OneChange` lets a behaviour either change
the specification or correct an event, which are two reasons for one look-up to
miss; the theorems have no such bound. `Corrected` are the times whose events
may be corrected. In `billing` two calculations suffice for every order of
creation and commit. Symmetry is used only in runs without temporal formulas
that need fairness.

Fairness. A workflow has a deadline, its remote calls have timeouts and the
Keychain helper is killed at its own, so every enabled step of a worker is
finally taken or fails (`WF` on a workflow or worker); time passes; the Qt event
loop delivers timers and signals (`WF` on `Loop` and `Signal`). In `ReportLogs`
that is `WF` on `Tick`, on the import's thread (`Step`) and on Qt's timers
(`Timers`), and nothing on `Reply`: the cloud owes no answer. No fairness is
assumed of the cloud's content, of faults, or of other work that holds the
write lock. Of users one thing is assumed, in `StorageMigration`: `WF` on `Run`
covers `Start`, so that an application which was killed or has failed is started
again some time. `OpensUnlessMarkerTorn` is about what such starts come to and
says nothing of a user who gives up.

## 4. Proofs

`StorageMigrationProofs` proves for any number of instances, keys, rows and
faults, from the assumptions named in `StorageMigration` (`NobodyAssumption`,
`KeysAssumption`, `BoundsAssumption`):

- `TypeCorrect`: `Spec => []TypeOK`;
- `Inductive`: `Spec => []IInv`;
- `NothingIsLost`, `SecretIsKept`, `NoOriginalStrays`, `OpenedIsSealed`,
  `RecoveryIsDefined`: the safety properties of the run `storage`;
- `Implements`: every step maps to a step of `ProtectedStore` or a stutter;
- `StartsComeCloser`: a start goes in no circles, and undisturbed ends in an
  open database or in front of a torn marker;
- `TornMarkerLocksOut`: such a marker stays, and no instance opens any more.

`NothingLost` is not inductive: that a recovery would find every row says
nothing of the instance in the middle of a conversion, whose next rename needs
to know that the temporary file is complete, fsynced and opens with the key in
the Keychain. `IInv` adds three things. `SafeInv` describes the directory as it
is and every directory a power loss may bring back: outside a conversion
(`Quiet`) or with a marker (`Marked`), and always with a file that holds
everything. `LockInv` says that the labels that change it are under the lock,
so that one instance's step cannot disturb what another knows. `StepInv` is
what each label knows. The proof of the step has a lemma for each group of
actions (`RecoveryStep`, `PreparationStep`, `MigrationStep`, `CommitStep`,
`PowerLossStep`, `HelperStep`); `SafeKept` and `OthersKept` carry the part that
all share. The safety theorems then follow from `IInv` alone, and the
refinement from `IInv` with `LockedOpened`, by which no instance is open while
another converts the file. `RecoveryIsDefined` includes that no check of the
code fails on what kills, power losses and late helpers left behind: the only
refusal is that of a torn marker. `StartsComeCloser` counts the steps that are
left at each label (`Left`); a recovery is counted twice, since the one that the
handler of a conversion runs ends in its exception and the first one of a start
goes on to all the rest. `TornMarkerLocksOut` needs `Legible`: no label that
removes a marker is reached in front of a torn one.

`CloudImportProofs` proves for any number of instances, any clock bound, length
of a day, zone offsets, window, values and scales, from `NobodyAssumption`,
`DaysAssumption` and `ZonesAssumption` of `CloudImport`:

- `Invariant`: `Spec => []IInv`, and from it
- `TypeCorrect`, `NoDuplicates`, `NoDayLost`, `EarliestChosen`, `LockReturned`:
  the five properties of the run `cloud_import`.

`OnePerDayAndEvent` needs the drafts: the rows of an open transaction and the
committed ones are distinct by day and event (`Kept`), which another instance's
commit could break if a second import held a draft; `LockHeld` says that none
does. `ImportComplete` needs to know, between lookup and commit, that every
candidate already passed has a row among the committed ones and the draft
(`Kept`). `EarliestOfDay` rests on arithmetic: the request begins at a time with
no local date on both sides of it (`Boundary`, lemmas `DivisionBound` and
`SinceIsMidnight`), and the reduction takes the least time of a date
(`DailyIsEarliest`). Each action has a lemma; `OneImport` carries
what all steps of one import share. The offset of a zone is a constant: a day of
another length (daylight saving) is outside the theorem as it is outside the model.

`DeviceTableProofs` proves `Coherent`, `SchemaWhole` and `MissingWasGone` for any
number of instances, devices, products, specifications, versions and pages
(from the six assumptions of the module). For the schema, the invariant says
that the ledger is always a prefix of the versions and equal to the columns
(`WholeSchema`), and that only the holder of the mutex is between reading the
ledger and the end of its scripts (`Locking`), so that what it has read is
still true. For the rows, every draft row is of one answer whichever row it is
merged from, the stale row of a status request included. For the listing, a
device is found or was gone at some time of the listing, or lies beyond the
cursor.

`CaptureProofs` has two invariants. For any number of instances, meters, chunks
and times (`NobodyAssumption`, `BoundsAssumption`, `DevicesAssumption`), each
job is `Sound`: of the response it holds, all readings are stored or none,
depending on the step (`Settled`, `Unsaved`); meters still to be asked have no
reading; the time of a request leaves the reserve. From it follow
`ReportedIsSaved`, `OncePerRun`, `ResponsesWhole`, `LockReleased` and, as an
action property, `ReserveKept`. For one instance a second invariant ties the
job's draft to the committed rows and to its listing, and yields
`PresentIsListed` and `SupportedBeforeSaved`; they are not claimed for two
instances, since another refresh may commit between a run's refresh and its save.
For any number of instances, `WaitsAreBounded` proves `LockShared`: the lock is
given back at every end, and waiting for another's lock never carries a run
beyond its deadline once a response has arrived, and by at most one busy timeout
before that. That metadata writes may overrun the deadline is as the code is: only
`add_all` limits its wait to the time that is left. `RunsComeCloser` says that
every step of a workflow lowers a measure of its run (`Rest`: devices still to be
specified and asked for, and the stage of the current chunk), which no cancel,
clock, answer or other instance raises.

`DesktopProofs` proves `OneCapture`, `TriggersDisabled`, `OwnedUntilFinished`
and `NeverStuck` for any number of threads and clicks (`NoThreadAssumption`,
`UserAssumption`). None is inductive. `Owned` says whose a thread is: the
owner has every thread that is not free, the window at most one of them, and
whose job is not a dialog's; dialogs wait for others only (`Waits`). `IdleInv`
gives a window without a worker its buttons back, Refresh once a start has
succeeded. What an idle window shows
needs its history: until something was loaded (`Early`), no capture exists or
is posted and `loading` is shown only while a bootstrap runs (`EarlyInv`), which
rests on the first callback of the queue (`StartInv`, `Once`) and on a running
application cancelling none of its window's workers (`Uncancelled`). `Kept`,
`WindowStarts`, `DialogStarts` and `Later` carry what the actions share, and
there is a lemma for each action. The endings have an invariant of their own
(`Ending`, theorem `Endings`): a closing application whose owner holds no thread
has `_finish` in the queue, an issued quit is in the queue, and every dialog
that is to be rejected has a posted callback of its own. `QuitsInOrder` is an
action property: requested, issued only while the owner holds no thread, carried
out, never taken back. Between issue and exit a posted refresh may still start a
worker (section 5).

`SettingsProofs` proves `VerifiedWasTested`, `SecretFirst` and `AppliedIsStored`
for the only instance and any accounts, secrets and saves (`MaxSavesAssumption`,
`AcceptedAssumption`). The invariant follows one secret through its copies: what
an empty field stands for (`Effective`), what the worker resolved (`WorkerInv`),
what the verified flag is about (`DialogInv`) and what the stores hold after
which step (`Stored`). With two instances `VerifiedWasTested` fails (section 5);
what is left of it for any number is `VerifiedIdMeansTested`, from the invariant
`SharedInv` (theorem `Shared`): the verified ID passed a test, with some secret.
`ClosingComesCloser` orders the last steps of a closing dialog.

`ReportLogsProofs` proves `BudgetsKept`, `RateKept` and `ImplementsListing` for
any events, limits, delays and interval. `Sound` holds of the transport after
every callback: not more than one byte over the limit of the recorded status.
`Accounted` ties it to the import: a request belongs to a step that waits for
it, its limit is at most the total allowance that is left, and the starts so far
took their intervals. `Covered` is the listing's: the rows hold every event
asked for up to the cursor. Each step then maps to `Ask`, `Answer`, `Fail`,
`Report` or a stutter of `EventListing`. How it ends: no request has more time
than the import (`RequestsInTime`), every step goes on to a later page, attempt
or stage in lexicographic order (`ListingComesCloser`), and after a cancel or
the deadline the next step is the last, but for a page or a refusal that had
already arrived (`StoppedEnds`).

`BillingProofs` proves `PricesKept`, `ForwardOnly`, `SavedAsShown` and
`BillsConnect` for any number of instances, readings, prices, currencies and calculations
(`PricesAssumption`, `ReadingsAssumption`). The earliest and the newest reading
are chosen by an order that imports make independent of the ids; that a finite
set of readings has a first one is proved from the well-foundedness of
cardinalities (`FirstExists`). `DialogInv` and `JobInv` say what a dialog knows of its
readings, of its price while no calculation was saved since its preparation
(`unsaved`), and of its currency while the setting was not changed (`settled`).
`BillsConnect` compares two calculations that may be far apart and committed in
another order than they were created in; its invariant (`Connected`) says of an
unsaved dialog that its default start is the end of the latest calculation, and of
a preparation under way that it has counted the readings after every calculation
it will compare with.

Only model-checked: the five liveness properties, since TLAPS does not reason
about fairness and ENABLED. What they rest on without fairness is proved for
every value of the constants, so that the runs are left with showing that some
step stays enabled and is finally taken:

| Liveness, checked by TLC | Proved without fairness |
|---|---|
| `OpensUnlessMarkerTorn` | `StartsComeCloser`, `RecoveryIsDefined`, `TornMarkerLocksOut` |
| `RunsEnd` | `RunsComeCloser`, `WaitsAreBounded`, `LockIsReleased` |
| `QuitHappens` | `Endings`, `WindowGoesOn`, `QuitsInOrder` |
| `ClosingCloses` | `ClosingComesCloser` |
| `ListingEnds` | `ListingComesCloser`, `RequestsInTime`, `StoppedEnds` |

## 5. Where the code differs from what is said of it

Four runs end in a counterexample on purpose; `PROJECT.json` quotes the lines:

- `storage_torn_marker`: the marker exists before it has content;
- `capture_cancelled`: a cancel may interrupt a capture's inserts;
- `desktop_quit_active`: `_finish` tests, then posts the quit;
- `billing_reloaded`: after an import has reloaded a calculation dialog, it saves
  in the currency that it was opened with.

Seen while modelling, and not given a run of their own:

- `bootstrap_workflow` is cleared by a successful bootstrap only. After a failed
  start, saved settings enable Refresh, and the end of the next worker turns it
  off again for good (`ui/main_window.py:364`), although PRODUCT_SPEC.md:103-104
  disables it only until credentials are complete. `NeverStuck` speaks of
  Settings and Status always, and of Refresh unless that flag is still set.
- A retry after a rate limit and an error body are not charged to the total
  allowance of a listing, and the number of events is never compared with the
  announced total (`tuya/report_logs.py`). Both are as the code is; the
  properties of `ReportLogs` do not depend on them.
- A closing window disables Refresh, Settings and Status, not Calculate and
  History of the rows (`ui/app.py:94`; ARCHITECTURE.md:683 says new actions are
  disabled). `QuitHappens` holds all the same.
- A save is called verified by client ID and region (`ui/dialogs/settings.py:319`).
  An empty secret field is read from the Keychain by the test and again by the
  save; between them another instance may have stored another secret. Hence
  `VerifiedWasTested` is checked for one instance.
- A workflow that is cancelled or late after its commit reports nothing or a
  failure (`ui/workers.py:61`): settings are stored without being applied, a
  calculation may be saved twice. `AppliedIsStored` speaks of what was reported.
- A calculation saved by another instance while a calculation dialog is open
  changes the price that an empty field stands for, so that the saved total may
  differ from the preview. `SavedAsShown` promises the entered price and the
  consumption always, and the rest for dialogs that nothing has overtaken.
- A calculation saved from a dialog that was overtaken may have the latest
  `created_at_utc` without being the one committed last; the next default start
  then leaves a gap or overlaps. `BillsConnect` excepts it.
- After a change of the meter's scale, importing a week again fails with an
  identity conflict, since the external key is looked up before the day
  (`repositories/readings.py:128-140`); ARCHITECTURE.md:816-818 has the day first.

## 6. Not modelled

- Sidecar files, file permissions and the development secret store: cleanup
  around the storage protocol whose hazards are listed with their reason.
- `domain/energy.py` and the decimal totals of billing: arithmetic on decimals
  without state, over ranges that TLC cannot enumerate usefully.
- The shapes of JSON responses, request signing, redaction and the check of
  addresses: pure conversions. `ReportLogs` and `DeviceTable` model what a
  response is taken for. `UrllibTransport` is not used by the application.
- Texts, formats and what dialogs display, the read-only history, logging,
  paths, packaging and the inspector (`scripts/inspect_tuya.py`).

Abstractions that a reader should know of. In `ReportLogs` the content of a page
is chosen when it arrives, which is sound because new reports only add to it;
the cloud may lie about everything except that a page holds the events up to
the cursor it names. `CloudImport` takes its listing in one step, at a time
between the beginning and the end of the paging. `Capture` keeps of the device
table what a refresh needs; `DeviceTable` has the columns, and lets a transaction
end at every step instead of modelling each reason. `PROJECT.json` lists each
part with its status and reason.

## 7. Plan

Done, in this order: storage with its proof, capture, desktop, settings, cloud
import with its proof, billing; then the report logs over the transport with the
listing they implement, the device table with its migrations, and the proofs of
all modules. Left:

1. Sidecar files in `StorageMigration`, with the cleanup that a cancel skips.
2. `CloudImport` and `ReportLogs` as one module, so that the import's listing and
   its transaction share deadline and cancel flag.
3. `Energy`: scaling and canonical text over bounded decimals, against integer
   arithmetic.
