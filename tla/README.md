# TLA+ verification of Mileage Logger

Mileage Logger turns the location events an OwnTracks phone sends into an
odometer, a trips table and monthly reports.  It is one uvicorn process with
several threads on one PostgreSQL database.  This directory holds TLA+ modules
of its stateful parts, TLC configurations that check them on small instances,
and TLAPS proofs for every value of the constants.

Paths such as `trip_processor.py` are under `src/mileage_logger/` (services in
`services/`).  "The repository's README" is `src/README.md`.

## 1. The system

| component | state | operations | who runs them |
|---|---|---|---|
| ingestion (`api/routes.py`, `owntracks.py`) | `owntracks_locations`, `sites` | store a payload unless an exact copy is there, publish waypoints, then run a processing pass | coroutine on the event loop that never yields in between |
| processing pass (`trip_processor.py`) | `trip_processing_checkpoints`: last row taken, odometer anchor (miles, time); `_PROCESSING_LOCK` | load checkpoint and new rows, advance and stamp the odometer, regenerate days one by one, purge | the endpoint, and the `AutomaticTripProcessor` thread on a timer |
| trip generation (`mileage.py`) | `trips`, `deleted_trips` | confirm transitions by dwell, pair leaves with arrivals, add, update or suppress trips | the pass, one commit per day |
| trip edits (`web/routes.py`, `mileage.py`) | the same tables | edit, delete, forget a deletion, add by hand, resequence odometers, align to a Home reading, emergency rebuild | request threads, without the lock |
| manual reading (`web/routes.py`, `trip_processor.py`) | the checkpoint anchor | overwrite the anchor, realign the trips | request thread, without the lock |
| retention and summaries (`retention.py`, `owntracks_rollups.py`) | `owntracks_monthly_summaries` | raise the summaries of the months about to lose rows, delete old processed rows; show totals of a month | end of a pass; pages read at any time |
| backups (`backups.py`) | files in the backup directory, `_BACKUP_RESTORE_LOCK` | back up table by table, write a file, prune; restore all tables | asyncio scheduler (in a worker thread), request threads |
| gas prices (`gas_prices.py`) | `gas_price_snapshots`, `monthly_gas_prices` | fetch and store a snapshot, average, upsert by scheduler, page or user | asyncio scheduler, request threads |
| health monitor (`app_health.py`) | state file, time of the first latency issue | collect, compare, notify, write the state | its own thread |
| logins (`web/auth.py`, `web/routes.py`, `login_failures.py`) | counts and lockouts per address in memory, `web_login_audits` | look up the lock, compare, count, record the attempt, block the address | request threads |
| Cloudflare blocks (`cloudflare_blocks.py`, `web/routes.py`) | `cloudflare_ip_blocks`, and the access rules at Cloudflare | create a rule and store its row, delete the rule and remove its row | request threads |
| expenses, waypoints, passkeys | small tables | check and then write | request threads |

Components meet in the database (READ COMMITTED, sessions that write only the
columns they changed, no autoflush) and in two locks.  `_PROCESSING_LOCK`
serialises passes and nothing else, so every other writer can fall between two
steps of a pass.

What is hard about it: two workers and the user write the same rows; rows
arrive late and in any order, because the phone queues while offline; a pass
commits in several steps and may fail or die between them; the same day is
generated after every payload, from more rows each time; rows are deleted that
later computations look back to; retries and restarts repeat what was done.
`PROJECT.json` lists each of these hazards at its line.

What makes the components correct (section 3 says where the code falls short of it):

* pass and odometer: every row is taken once, whatever fails; the odometer is the
  driven distance and never runs backwards; no row is purged uncounted; the days
  a row can change are generated again; no row waits for ever.
* trips: one trip per drive; generating a day twice changes nothing; what the
  user entered or deleted stays so; edits keep the miles between trips.
* summaries: what a page shows of a month does not depend on what was purged.
* backups: retention never deletes the backups it promises to keep, and a
  backup that was missed is made.
* health messages: a message per change and none for no change, whatever fails; latency
  is told when it lasts; the checks go on.
* restore: a file read while the application goes on can be restored, and the
  restored database counts no payload twice and hides none from the odometer.
* logins and blocks: a lockout binds whatever threads race with it, its end is
  no fresh start; a block was earned; rules at Cloudflare and rows here stay
  together, and where they part the loss of an answer or a row did it.
* gas prices: the price of a month comes from that month, stands once the month
  is over, and is kept up to date while it lasts; one that a user entered stays.

## 2. The modules

| module | models | actions |
|---|---|---|
| `OdometerProcessor` | `run_automatic_trip_processing` and its two callers, retention's deletion, the manual reading | `StoreRow`, `RequestTimer`; `AcquireAndLoad`, `CountRow`, `GenerateDay`, `CommitPass`, `PurgeAndRelease`; `PassFails`, `Crash`; `BeginSave`, `CommitSave`, `AbandonSave` |
| `WaypointTransitions` | dwell confirmation, transitions of a day, path miles, the walk of `generate_trips` | none: operators over sets of rows |
| `TripGeneration` | what a generation makes of the trips found, its commit, and the user's operations on trips | `StoreRow`, `BeginGeneration`, `CommitGeneration`, `GenerationFails`, `EditTrip`, `DeleteTrip`, `ForgetDeleted`, `AddTrip`, `AlignTrips` |
| `MonthlySummaries` | the purge transaction and pages that read a month meanwhile | `StoreRow`, `BeginPurge`, `RefreshSummaries`, `DeleteAndCommit`, `PurgeFails`, `ReadRows`, `ReadSummary`, `ClosePage` |
| `Backups` | backup scheduler, emergency backups, pruning | `BeginScheduled`, `BeginEmergency`, `WriteFile`, `Prune`, `JobFails`, `Restart`, `StorageFails`, `StorageRecovers` |
| `AppHealth` | the health monitor's loop, the notifier and its state file | `HealthChanges`, `CheckHealth`, `CheckRaises`, `Deliver`, `RecordSent`, `RecordSame`, `SendFails`, `WriteFails`, `MonitorRestarts` |
| `OdometerLedger` | what the passes promise, without workers, locks, sessions and failures | `Store`, `Take`, `SetReading`, `Delete` |
| `BackupRestore` | the tables of a backup read one by one while the application goes on, and their restore | `StoreRow`, `LoadPass`, `CommitPass`, `FailPass`, `Purge`, `SaveSite`, `DeleteSite`; `BeginDownload`, `BeginAutomatic`, `ReadTable`, `FinishBackup`, `BackupFails`; `RestoreUploaded`, `RestoreRetained` |
| `WebLogins` | logins with their lockouts and audit rows, Cloudflare blocks by failures and by hand | `Login`, `VerifyWrong`, `VerifyRight`, `LockoutEnds`, `Commit`; `BlockForm`, `FindBlock`, `CreateRule`, `StoreBlock`; `Unblock`, `DeleteRule`, `RemoveRow`; `Restart` |
| `GasPrices` | the daily snapshots and the monthly price, by scheduler, forms, pages and by hand | `NextDay`; `BeginRefresh`, `BeginSnapshot`, `BeginEnsure`, `BeginManual`; `Fetch`, `FetchFails`, `FindSnapshot`, `SaveSnapshot`, `TakeAverage`, `FindMonthly`, `StoreMonthly` |
| `*Proofs` | theorems of `OdometerProcessor`, `TripGeneration`, `WebLogins`, `BackupRestore`, `Backups`, `GasPrices` and `MonthlySummaries`; those of `AppHealth` are the last part of `WebLoginsProofs` | |
| `ArithmeticFacts` | lemmas on division, on sums over sets, and the induction they rest on, for the proofs | |
| `MC*` | instances for TLC | |

A definition named for a slip (`LastTakenOffByOne`, `EditTripUnmarked`, ...) is
a wrong variant of the definition behind it.  No specification uses it: a property
is tested by putting the variant in place of the definition.

### OdometerProcessor

One record per worker holds what its session has loaded and not yet written.  A
pass has loaded the checkpoint (`base`) and writes, at its first commit, only the
columns that differ from it: `Flush`.  The first commit is that of the first day
that holds a confirmed transition; the later ones write trips only.  When the
process dies or the pass raises, what is not flushed is gone.  `folds` and
`generatedFrom` are history variables: which committed pass took a row as new, and
which rows the generation of a day has seen.

Abstracted: miles are whole tenths, given by a table of distances (the
coordinates, the snapping to waypoints and `haversine_miles` are in the table);
a message of `Transition` is one that survives dwell confirmation; trips are not
modelled here, so that the odometer repair behind the days commits or not at
will.  The miles a pass counts are those of the code: rows in (tst, id) order,
behind the row the checkpoint points at, counted when later than the loaded
anchor.

`OdometerLedger` is the abstract specification: a number of rows, how many of
them were taken, the miles and the rows deleted.  The refinement mapping `Ledger`
in `OdometerProcessor` gives it the number of stored rows, the checkpoint's last
row, its miles and the purged rows; a pass is one `Take` at its first commit, and
everything else a worker does, fails to do or loses in a restart is a stutter.

### WaypointTransitions and TripGeneration

Waypoints and rows lie on one road, so that distance, "inside the radius" and
"clearly away" are each one number.  `EnterConfirmed` looks for the first row
behind an arrival that confirms or rejects it; `DayTransitions` adds the first
arrival behind a day that ends on the road; `TripsFound` walks over them.
`TripGeneration` stores the result: a generation reads when it begins, and its
commit inserts new trips and writes the changed columns of others (`Merged`), so
that a user's edit in between is overwritten column by column as it is by the
session.  The unique indexes are judged on the outcome of a commit.

Abstracted: rows carry the odometer the pass gave them; all days are in one
month; the days of a pass are generated in any order; a transition row always
names its waypoint; the odometer a manual trip starts at is any entry; notes,
coordinates, last-visited times and the clamp to the last second of a day are
left out.  `Late` are the rows the phone may deliver behind later ones.  The user
acts at any time, also during a generation.  `reports`, a history variable, holds
the miles a user entered and has not lost to a known cause: it leaves out an entry
made while a generation under way is about to rewrite that trip.  `rerouted` and
`discarded`, two more, hold the trips whose route was ever edited, and the trips the user
deleted and has not allowed again, with their last signature and whether it is an edited one.

### MonthlySummaries

Days are instants.  A purge takes the rows stored when it begins, raises the
summaries of the months of expired rows, deletes and commits; rows are stored and
pages read in between.  A page reads miles and count from the rows in one step and
the summaries in the next (in the code each total does both, in this order).

### Backups

A file is its instant and its reason.  Scheduler and emergency request each have a
backup under way: written, then pruned, then (the scheduler) asleep for the
interval.  An outage makes writing fail and may leave any file undeleted; a
restart begins with a startup backup at once.  A backup is assumed to take less
than one instant, hours in the code.

### BackupRestore

Four tables stand for all of `BACKUP_TABLES`: rows, waypoints, the checkpoint and
trips, in this order, which covers each kind of reference there is between
tables: an id remembered without a foreign key (the checkpoint's last row), and
one with (a trip's waypoint).  The lock keeps backups and restores apart; payloads,
passes, purges and waypoints go on between the reads.  A restore replaces all
tables in one transaction that waits for an open pass (`TablesFree`), and sets the
sequence to the highest id it restored.  Rows carry their payload and the
checkpoint the payloads it has counted, as history, so that one id given twice is
two things.

A purge deletes any of the rows behind the checkpoint: what it goes by is their tst, which
has nothing to do with their ids.

Abstracted: a pass that loads no row; the last waypoint visits; encoding and the
checks of form, which are `Valid`; the kinds of file, of which only the last is kept.

### WebLogins

One record per thread is the request it serves, at the call it is about to make.
The lock of an address is looked up in `Login`, the credentials are judged in
`VerifyWrong` or `VerifyRight`, and the audit row is committed by `Commit`, or by
`StoreBlock` when the failures lead to a block.  A call to Cloudflare succeeds, fails,
or succeeds without its answer arriving; a commit succeeds or fails.  `Restart`
loses counts, locks and what is under way.  `judged` counts the attempts judged under a lock and
behind the last one; `strays` and `severed` are the rules whose row, or whose removal, was lost.

Abstracted: passwords and passkeys are right or wrong; the length of a lockout is
left out, so that one may end at any time; addresses parse; the diagnostics
page's tables of the rows are read-only.

### GasPrices

One record per thread is its request: which price it is about, what it has
fetched, and the row its session has loaded.  The provider's answer, the look-up and the
commit are three steps; an insert that meets another's row fails, and an update
writes only the columns that differ from what was loaded (`Column`).  The scheduler refreshes without
end.  `entitled`, a history, says that the request asked for its
price while the month was current, or began when the month had none.

Abstracted: one state and one provider; whole prices; the buffer added to the
price when it is shown; the text of the provider's page.

### AppHealth

The issues a check finds are a set of keys (for disks with their severity), which
is the signature that the code compares; wording, priorities and titles are left
out.  `check_once` is `CheckHealth` and then either `Deliver` and `RecordSent`, or
`RecordSame` when nothing is due.  Only the telling catches its exceptions, so that a
check may also raise while it collects (`CheckRaises`) and end the thread for good; only
a restart of the process makes another.  `saved` is the state file: a set of one
signature, or empty when the file cannot be read.  Times are kept as durations
that stop growing at `Sustained`, so that the clock needs no bound.  `unrecorded`
is a history variable: the last message that arrived may not be the one in the file.

## 3. What the runs check

Runs that pass:

| run | instance and bounds | shows |
|---|---|---|
| `processor` | three payloads of one drive over two days, late or not, two workers, fair timer, one racing reading, one failure or crash, retention of zero days | `FoldedExactlyOnce`, `PurgedRowsWereFolded`, `StampsFollowTime`, `OdometerIsPathLength`, `RegeneratedUnlessFailed`, `StoredRowsAreFolded`, `ImplementsLedger` |
| `trips_inorder` | eleven rows over two days: a site driven past, a bounced arrival, a loop, the way home; any of them may be missing | `DayTripsDisjoint`, `GenerationConverges` |
| `trips_user` | four rows over two days, one of which may come late; two user operations of any kind at any time, also during a generation | `UserMilesKept`, `GapsSurvive`, `DeletedStayDeleted`; unique trip ids |
| `summaries` | five rows in two months of three days, retention of three days, a clock that outlives them all | `ShownCountsEveryRow`, `ShownHoldsMonthMiles` |
| `health` | eight health states that change at will, an interval of two and a latency delay of three instants, two accidents, one of which may end the thread | `RecordedIsTold`, `NoRepeat`, `LatencyNotToldEarly`, `ToldWhatHolds` |
| `backups` | three days of two instants, two recent files instead of four, one emergency, one restart, one outage | `NewestKept`, `DailyKept`, `StartupBackupMade` |
| `restore` | three payloads, one waypoint, two backups, two restores of either file | `RowsReachOdometer`, `CountedOnce`, `FilesRestorable` |
| `logins` | two threads, two addresses of which one is allowlisted, a lock after two failures and a block after three, two rules ever made | `FewJudgedUnderLock`, `LocksAgainAtOnce`, `AutoBlockEarned`, `RulesAreKnown`, `RowsHaveRules` |
| `prices` | one thread beside the scheduler, two requests, three days in months of two, two prices from the provider and one of a user | `PricesAreOfTheirMonth`, `PastPricesStand`, `PriceKeepsUp` |

Why the bounds are enough: with three rows a pass can find none, one or two rows
behind its checkpoint while one more is stored before, during or after it, and
be late in each place; two workers are all there are; one failure reaches every
pair of steps, and a second one meets the same states again because a failed
pass leaves only committed columns behind.  `Retention = 0` makes every row of
yesterday expire in the run, the case in which purging could outrun counting.
Readings race with passes there, so that the ledger
lets a pass lower the miles; that it does not where readings do not race is proved
(`PassesImplementLedger`).  The two days of the trip runs have a quiet midnight between them.  For backups,
two recent files are fewer than a day can hold, so that the daily rule matters.  For
the monitor, a latency delay that is no multiple of the interval makes it shorten
one wait and keep another; a second accident can strike while the first is mended.
In `trips_user` the late row changes a trip that an earlier generation wrote, so
that a user's entry can fall before, into and behind its rewriting; one operation
prepares (an edit, an alignment) what the second meets.  In `restore` the second
backup may read what the first restore left, and the second restore go back behind
it; three payloads are one below, one at and one above a checkpoint.  In `logins`
the block needs one failure more than the lock, which is the order in which an
expired lockout matters; two threads are the fewest that race, and `LockBinds`
proves the general bound; two rules let one address be blocked, unblocked and
blocked again.  Every step of `restore` is bounded, so that it stops
(`CHECK_DEADLOCK FALSE`).  In `prices` the third day is the first of the next month.

Runs that show a disagreement between the code and what the repository says of it:

| run | what happens |
|---|---|
| `processor_reading_race` | a reading saved between a pass's load and its first commit is overwritten: `.vscode/SKILL-trip-processor.md` relies on the lock, which the reading does not take |
| `trips_midnight` | a drive across midnight gives two trips to the same arrival, the second inferred by the generation of the day it ends on |
| `trips_edited_deletion` | a trip whose route was edited before it was deleted is generated again, for its deletion record names the edited route: `DeletedPairsStay`, which says what the repository's README says of the deleted transition pair |

`trips_edited_deletion` has the instance of `trips_user`.

Met while modelling, and not given runs of their own; where a property has to step
around one of them, its comment says so.

Passes, trips and summaries:

* the first day's commit carries the checkpoint, so that a failure before a later
  day leaves that day ungenerated until one of its rows comes again
  (`RegeneratedUnlessFailed`);
* miles entered while a generation rewrites the trip lose their manual mark and
  then their value, although `tests/test_mileage.py:1916` has an edit preserved
  (`UserMilesKept` excepts them);
* trip odometers aligned to a Home reading go back to the old ones at the next pass;
* a row that arrives behind a later one is never counted nor stamped, and neither is
  one with the tst of the last row of the pass before (hence `InOrder`, which is
  strict; found when its proof failed); a trip inferred from an arrival stays when its departure arrives late
  (hence `trips_inorder` delivers in order); a trip edited, during a generation, into the
  route of one that is about to be added beside it, and then deleted, does not keep that one from
  being added (found when a proof failed; `discarded` has it as rerouted); a start odometer estimated below zero is
  clamped, and is then not the trip's miles away from its end;
* a manual trip put among trips that overlap: what lies behind it is measured from the trip
  that ended last, not from the one before it (`GapsSurvive`; found when its proof failed);
* a waypoint entered twice without a leave in between, first from outside its
  radius and confirmed only by a row behind the second entry, is the arrival of two trips that
  overlap: Home is left at 0, a row 2 miles away at 1, Work is entered (4 miles) at 3, a
  row 2 miles behind it at 4, entered again (5 miles) at 5 and stayed at till 9.  The rows of
  `trips_inorder` have no such arrival; for every set of rows `DayTripsDisjoint` is not true;
* the miles shown of a month fall by its first segment when the last row before the month
  is purged, because only the summaries of months that lose rows are raised; the repository's README
  says that totals remain stable after a purge (`ShownHoldsMonthMiles` is about the miles
  between rows of the month);
* rows of a month that arrive after part of it was purged are not added to its
  summary; `pdf.py:193` reads the trips and the total of a report in two
  statements.

Backups and restore:

* a file whose checkpoint is above all its rows, because they were purged or
  because one came and was counted while the tables were read, sets the id sequence below the checkpoint:
  the rows stored next get ids no pass takes (the exception `ahead` of
  `RowsReachOdometer`; `create_full_backup` calls its result a snapshot);
* a waypoint saved during the read, with a trip that refers to it, makes a file
  whose restore fails on the foreign key (the exception `saved` of `FilesRestorable`).

Gas prices, logins and health:

* a refresh writes its average over the price a user entered for the current month, although
  the repository's README (41-43) says that a saved manual average is used when present
  (`PriceKeepsUp` claims nothing of such a month; `PastPricesStand` says what is kept once it is
  over);
* the average of an overlapping refresh can be stale until the next one (hence "again
  and again" in `PriceKeepsUp`);
* `_monthly_gas_context` (`routes.py:812`) swallows the `IntegrityError` of its
  insert without a rollback, so that later queries of the page fail;
* a rule whose answer or row is lost blocks an address without a row to unblock
  it by (`strays`); a removal whose end is lost leaves a row without a rule, and removing it
  fails as often as it is tried (`severed`);
* a check that raises ends the monitor's thread, although `_run` is documented to go on
  until it is stopped: counting the lockouts (`app_health.py:155`) walks over a dictionary
  that login threads change (`CheckRaises`; `ToldWhatHolds` excepts an ended monitor);
* when the health state file cannot be written behind a message (a full disk), or
  the message arrived although its request failed, the restored message may
  never be sent, which is what `unrecorded` excepts.

`LateRows` (`OdometerProcessor`, `MonthlySummaries`), `SavesMayRace` and `Late`
(`TripGeneration`) are switches of the environment, not of the code: a run turns off
what a run or an item above shows the code does not withstand.

### Fairness

`OdometerProcessor`: weak fairness of the timer's request and of the steps of
each worker.  `AutomaticTripProcessor._run` loops until it is stopped and
`_process_once` catches every exception; a thread that is inside a pass runs on;
the lock is released on every way out.  Failures are bounded, so that one pass is
not failed for ever.  Nothing is assumed of the phone or the user.

`Backups`: weak fairness of the scheduler's task, which catches every exception
and retries, and of the end of an outage, an assumption about the environment.

`AppHealth`: weak fairness of time and of the steps of a monitor that lives; accidents are
bounded, health may change for ever.  Nothing is assumed of a check that raises before it
tells: it ends the thread, after which no step of the monitor is enabled, and
`ToldWhatHolds` claims nothing then.

`GasPrices`: weak fairness of the scheduler's refresh and of its queries, which
loops for ever and catches every exception; strong fairness of the provider's
answer: it may fail any number of times, but answers again and again.  Nothing
is assumed of users' requests, which are bounded.  `PriceKeepsUp` is about months for which
no user entered a price.

The other modules have safety properties only.

## 4. What is proved

`OdometerProcessorProofs` proves for every set of payloads, every distance table,
every bound and both environment switches:

| theorem | statement |
|---|---|
| `TypeCorrect` | `Spec => []TypeOK` |
| `RowsFoldedExactlyOnce` | `Spec => []FoldedExactlyOnce` |
| `OnlyFoldedRowsPurged` | `Spec => []PurgedRowsWereFolded` |
| `PassesImplementLedger` | `Spec => ImplementsLedger` |
| `TakenRowsRegenerated` | `Spec => []RegeneratedUnlessFailed` |
| `StampsRise` | `Spec => []StampsFollowTime` |
| `OdometerIsDrivenPath` | `Spec => []OdometerIsPathLength` |

The assumptions are those of `OdometerProcessor` (types of the constants).
`FoldedExactlyOnce` is not inductive: nothing in it says that the rows a running
pass will count at its commit are the ones behind the checkpoint then.  The
invariant that is, `IInv`, adds `PassesFollowCheckpoint`: a worker inside a pass
holds the lock, so there is one; until it has flushed, its loaded checkpoint and its new
rows are those of the table; afterwards the table's checkpoint is where it read
up to; and purged rows are behind the checkpoint.  `TypeOK` is proved
inductive by itself, one lemma per action; then one lemma per action shows that
`IInv` is kept.  The key lemma is `LastTakenInterval`: the rows a pass finds are
all ids from the checkpoint up to the largest one, none of which was purged.
The other theorems add to `IInv`, each as much as it needs:

* `LInv`, for the ledger: the miles a pass will write are those it loaded plus
  what it counted, and must not be less than those of the table by then.
  `MilesKept`: where readings do not race, the miles an uncommitted pass has loaded
  are the table's, it only adds to them, and it adds only for new rows.  Each action
  maps to a step of the ledger or to a stutter.
* `GInv`, for the days: of each new row of a running pass, its days are generated from
  a table that holds it, or still lie ahead (`PassesGenerate`); of each row taken, its
  days are generated, or it is a new row of the running pass (`TakenGenerated`).  The
  rows a pass still needs are in the table, for rows are deleted only when a pass ends.
* `RInv`, for the odometer.  `NeverFalls`: the stamps of the table rise with tst and none is above or
  after the anchor (`Rising`); the stamps a pass has not written yet rise from the
  anchor it loaded to where it is, and no row it still has to count is older (`Ascends`).
  `PathFollowed` says how far along the path the checkpoint is (`OnPath`), and how far
  the pass: its miles are those of the path to the last row it handled, and the rows behind that
  one are those it has to do (`FollowsPath`).  The lemmas about one row or
  one commit (`CountRises`, `CommitRises`, `CountFollows`, `CommitEndsPath`) are about
  values; the actions only supply them.

`TripGenerationProofs` proves, for every road of waypoints, every set of rows (late or
not), dwell, threshold and entry:

| theorem | statement |
|---|---|
| `TripInvariant` | `Spec => []TripInv` |
| `TripTypeCorrect` | `Spec => []TypeOK` |
| `UserMilesAlwaysKept` | `Spec => []UserMilesKept` |
| `DeletedNotGenerated` | `Spec => DeletedStayDeleted` |
| `GapsAlwaysSurvive` | `Spec => GapsSurvive` |

It assumes what `WaypointTransitions` and `TripGeneration` assume of their constants:
waypoints have places and no two rows have one instant, and numbers are numbers.  No
property of trips is inductive by itself, because a generation writes what it made of a table the user
has changed since.  `TripInv` (checked by TLC on the instance of `trips_user` before it was
proved) is

* `Typed`: the table, what a generation has read and what it will write are finite sets of
  trips that end no sooner than they start, with unique ids;
* `Reported`: a trip whose miles the user reported is marked manual and has them;
* `Discarded`: an automatic trip that was deleted with the route it was generated with is on
  record in `deleted`;
* `Under`, while a generation is active: what it read keeps its place, and it is about to
  rewrite none that was reported (`ReadKept`); what it read is in the table where it was, unless
  the user deleted it, with its signature unless its route was edited, and what it did not
  read is the user's (`ReadMatches`); what it will add is new, and no trip deleted without having
  been rerouted (`AddsNew`).

`DeletedNotGenerated` is about trips whose route nobody had edited, whenever they are deleted:
`discarded` says so, not the record `deleted`, which the code consults.  Without that
condition the statement is `DeletedPairsStay`, which `trips_edited_deletion` refutes.

A generation folds over the trips found, sorts the table and writes odometers
along it, so that most of the module is about values.  `FoldExists` and
`GeneratedFold` say by induction on the length that such a fold exists; `GeneratedIn` that an
invariant one `AddOrUpdate` keeps (`Results`) holds at its end.  Sorting is by
rank: every finite set of trips has one sequence in the order of `Precedes`
(`RankExists`, `SortedIs`, `ChronologicalIs`).  An edit moves odometers by `ResequencedIs`, and times and
order of no trip; the miles before a trip are those from the one that `RightBefore`s it
(`MilesBeforeIs`), so that they are kept by tables in which the same trip is right before, as
far from it (`SameMilesBefore`); `GapsMade` and `GapsAgain` say that resequencing
gives such tables.  The walk over transitions enters by
its type only: each trip found starts and ends at waypoints and rows.

The last part of `WebLoginsProofs` proves of `AppHealth`, for every set of health states,
interval, duration and bound on accidents:

| theorem | statement |
|---|---|
| `AppHealthTypeCorrect` | `HealthSpec => []HealthTypeOK` |
| `FileFollowsMessages` | `HealthSpec => []RecordedIsTold` |
| `NoMessageTwice` | `HealthSpec => NoRepeat` |
| `LatencyToldWhenSustained` | `HealthSpec => LatencyNotToldEarly` |

It extends both modules, which is why those of `AppHealth` are named `HealthInit`,
`HealthNext` and so on.  The assumptions of `AppHealth` are the types of the constants and that a
restart, which clears the lockouts, leads to one of the health states.  The inductive invariant
`MonitorInv` adds to `RecordedIsTold` that a message in flight is the last one told, and that the
clock of high latency runs no longer than the time since a check found it low; both action
properties follow from it in one step.

`WebLoginsProofs` proves, for every set of addresses, finite set of threads, allowlist,
limit and bound:

| theorem | statement |
|---|---|
| `LoginsTypeCorrect` | `Spec => []TypeOK` |
| `LockoutsRepeat` | `Spec => []LocksAgainAtOnce` |
| `LockBinds` | `Spec => []FewJudgedUnderLock` |
| `NoForgottenRules` | `Spec => []RulesAreKnown` |
| `ShownBlocksBlock` | `Spec => []RowsHaveRules` |
| `BlocksAreEarned` | `Spec => []AutoBlockEarned` |

It assumes `LoginAssumption`.  The base is `Typed`: types, and that a request past
its first step has an address.  `LocksAgainAtOnce` is not inductive until
`Counting` relates the count to what was judged: from the first lockout on it is at the
limit, before that it is the number of failures judged.  `FewJudgedUnderLock` follows from `Overlaps`:
the attempts judged under a lock and the threads still about to judge one are together
fewer than the threads, since every such thread passed the look-up before
the lock fell.  Rules and rows are one invariant, `Handed`: the rule of a row about to be removed is
gone (`Removed`), a rule about to be stored is there and has no row yet
(`Stored`), and no other thread stores or removes it (`Apart`).
`BlocksAreEarned` needs that a request with a count at the threshold carries an
audit row until it is stored (`Earned`).

`BackupRestoreProofs` proves, for every set of waypoints and any number of payloads,
backups and restores:

| theorem | statement |
|---|---|
| `RestoreTypeCorrect` | `Spec => []TypeOK` |
| `RestoredRowsReachOdometer` | `Spec => []RowsReachOdometer` |
| `RestoredRowsCountedOnce` | `Spec => []CountedOnce` |
| `FilesCanBeRestored` | `Spec => []FilesRestorable` |

It assumes `BoundsAssumption`.  The two properties of rows and odometer say nothing of
a file until it is restored, so that the invariant `IInv` has to follow it from the
read on: tables are `Coherent` when rows above the checkpoint are not counted and
those below are; the rows a backup has read stay coherent with the tables that
go on (`RowsReadHold`: none is gone uncounted, none above the checkpoint is counted)
until the checkpoint is read after them; an open pass holds the rows between
checkpoint and the last row it loaded (`PassHolds`); ids to come are
above rows and checkpoint (`IdsAhead`).  `FilesRestorable` needs that the waypoints of
the database stay among those read (`SitesRead`).  Both arguments
rest on the order of the tables; TLC finds `FilesRestorable` violated when it is
reversed, and the other two when a restore does not wait for an open pass.

`BackupsProofs` proves, for every retention and every bound:

| theorem | statement |
|---|---|
| `BackupsTypeCorrect` | `Spec => []TypeOK` |
| `NewestBackupsKept` | `Spec => []NewestKept` |
| `DailyBackupsKept` | `Recent >= 2 => (Spec => []DailyKept)` |

It assumes `RetentionAssumption` and `BoundsAssumption`.  `NewestKept` is inductive
with the types and the finiteness of the files.  At a pruning, either the kept recent files
are all at least as new as the file that is gone, or one of them is older; then every
file that is not older is one of the recent ones, and is kept.  `DailyKept` needs two recent
files (the code keeps four, `backups.py:42`): with `Recent = 1` TLC finds a job that is
begun just before midnight, prunes by the day it began on and keeps nothing of the day
but its own file.  The strengthening `DaysKept` says what two files protect: a backup was begun at
this instant or the one before; where one was begun before, at most one file is newer, the other
worker's (`OneNewer`).

`MonthlySummariesProofs` proves, for every set of rows, month length and retention of a
month or more:

| theorem | statement |
|---|---|
| `SummariesTypeCorrect` | `Spec => []TypeOK` |
| `NoEventIsLost` | `~LateRows => (Spec => []ShownCountsEveryRow)` |
| `NoMileIsLost` | `~LateRows => (Spec => []ShownHoldsMonthMiles)` |

`LateRows` is the switch of the environment that the run turns off, too: rows that come
to a month after its purge raise no total.  The two properties speak of pages only; the
invariant `SInv` follows the totals to them.  A month that lost a row has a summary that
holds all of it (`SummariesHold`), and so has one that is about to lose rows in the
summaries of an uncommitted purge (`PurgeHolds`), because the retention
is not shorter than a month: the month was over, and whole, when its first row
expired.  Between the two reads of a page, its rows or the stored summary
cover the month (`PageHolds`), wherever the commit of a purge falls.

`GasPricesProofs` proves, for any number of threads, prices, months and requests:

| theorem | statement |
|---|---|
| `PricesTypeCorrect` | `Spec => []TypeOK` |
| `PricesStayInTheirMonth` | `Spec => []PricesAreOfTheirMonth` |
| `PricesOfThePastStand` | `Spec => []PastPricesStand` |

The invariant adds what a request holds between its steps (`Sound`): the price it is about to store
was entered by a user or lies between snapshots of the month it is for, and a row it has
seen is still there.  That the rounded average lies between the smallest and the largest
snapshot, for any number of days, is a lemma on sums and quotients.

Five of these modules rest on `ArithmeticFacts`.  Induction over data is taken
from two theorems of the library that have no operator parameter: strict inclusion
of finite sets is well-founded (`FS_StrictSubsetOrderingWellFounded`), so that every nonempty
collection of sets has a minimal one (`WFMin`).  `FiniteInduction` is what they give, and the sums
over sets (of miles, prices, segments) are bounded, split and typed by it.

Model-checked only: `DayTripsDisjoint`, which is not true for every set of rows (section
3), and `GenerationConverges`, which compares two walks over a whole day of
transitions for rows that come in order.  Out of the prover's reach: liveness
under fairness (`StoredRowsAreFolded`, `StartupBackupMade`, `PriceKeepsUp`, `ToldWhatHolds`).

## 5. Not modelled

* Emergency rebuild and backfill of trip odometers: one computation over all
  trips and one commit, started by hand or behind a pass.  The commit is that of
  `CommitPass`; what they compute for trips that contradict each other is a
  choice of the code's for which nothing in the repository states a promise.
* `PATCH /trips`, and detaching trips from a deleted waypoint, in
  `TripGeneration`: the first writes any column of a trip it is given, the second
  clears a reference no generation reads; `BackupRestore` has the reference.
* Report expenses: a count, a comparison and an insert in a table that nothing
  but the report reads; threads that add at once pass the limit of five by at most their
  number less one.
* Reading, hiding and exporting login audits; diagnostics and PDF report: they
  render what is stored.
* Limp mode: the 503 answer while the database is away is one check in front of
  each request; a connection lost in the middle is the failure of the step under
  way in every module.
* Passkeys and web sessions: WebAuthn ceremonies and signed cookies are the work
  of libraries; what is kept here is one challenge per session.
* Parsing of payloads, configuration, logging and the command line: formats without
  state of their own.
* Migrations and deployment: one-off scripts, containers and proxies.  That there is
  one process is an assumption of every module.

## 6. Running

    tlc -config processor.cfg MCOdometerProcessor.tla
    tlapm OdometerProcessorProofs.tla

| configurations | module |
|---|---|
| `processor`, `processor_reading_race` | `MCOdometerProcessor` |
| `trips_*` | `MCTripGeneration` |
| `summaries` | `MCMonthlySummaries` |
| `backups` | `MCBackups` |
| `restore` | `MCBackupRestore` |
| `logins` | `MCWebLogins` |
| `prices` | `MCGasPrices` |
| `health` | `MCAppHealth` |

The proof modules are `OdometerProcessorProofs`, `TripGenerationProofs`,
`WebLoginsProofs`, `BackupRestoreProofs`, `BackupsProofs`, `GasPricesProofs` and
`MonthlySummariesProofs`; `ArithmeticFacts` has the lemmas they share.  `PROJECT.json` maps every definition to the lines it models and
names, for every property, a wrong variant that violates it.
