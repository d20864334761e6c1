# Olive Branch: formal models

TLA+ models of the Olive Branch server and of the rules its app keeps
(`scaffold/packages`, `scaffold/server`, `scaffold/tools`, `scaffold/db`,
`scaffold/demo/src/play.ts`), TLC runs over small instances and TLAPS proofs for
every size. Paths below are relative to `src/scaffold/`.

Olive Branch lets a parent and a child who live apart leave recorded messages
for each other's days ("play this at her bedtime"), call, play, and keep what
she makes until it is hers. What has to be right is less the screens than the
protocols behind them: a message goes out once, at the right moment in *her*
day; its bytes exist while it may still be delivered and are gone when their
clock has run out; two parents who write at once do not undo each other; whoever
was shut out stays out; nothing strands a child at a table, a page or a call.

1. Inventory · 2. Modules · 3. Properties and runs · 4. Fairness · 5. Proofs ·
6. Where the code and what it says disagree · 7. What is not modelled · 8. Plan

## 1. Inventory

### 1.1 Server and database

**Delivery policies and gate** — `packages/delivery-engine`, `packages/time-engine`.
Stateless: `materialize()` maps an intent, a child's timeline and schedule and a
clock to an instant or a reason not to have one; `gate()` decides on arrival
whether the child may be reached. Hard: her date is not UTC's, day-parts wrap
midnight, travel days have two zones, sweeps are late. Correct if nothing is sent
long after its moment, an undated message takes the earliest slot, a named night
is never moved, and deferral ends.

**Delivery queue** — `delivery_intent`, the SQL functions of migrations 0001 and
0002, `tools/scheduler.mjs` (`rematerialize`), `packages/messaging`,
`packages/db/src/pool.ts`. One row per message, row locks, one advisory lock.
Processes: API server, scheduler, manual runs, workers. Hard: every pair of them
interleaves, the sweep reads a context and writes later, processes die holding
locks. Correct if every message is returned once and on time, a delivered one is
left alone, a schedule belongs to the context it names, and no row waits forever.

**Recordings and retention** — `packages/storage`, `pipeline.ts`, `pool.ts`
(`applyRetentionOnOpen`), the job `reap-media`, migrations 0004 and 0005. Hard:
storage and database fail separately, two clocks are set by different functions,
two requests open one message, an outbox resends. Correct if bytes outlive their
message, go by their own clock, never become undiscoverable, and go at all.

**Networked game tables** — `server/game_tables.mjs`, `packages/game-sync`, the
app's channel and board. In-memory seats, signed tokens, sockets, rate buckets.
Hard: a token is spent before its socket exists and never withdrawn, three
handlers end a table. Correct if nobody waits for a peer who is not there, no
socket outlives the table, an honest move is neither refused nor lost.

**Database sessions, API dispatch** — `pool.ts` (`withSession`), `packages/api`,
`server/routes.mjs`. Hard: handlers open a session inside another one; edges,
devices and days change between the awaits of one request. Correct if nothing
leaks, nobody waits forever, and a request that is refused leaves nothing behind but
the attempt it was counted as, or the challenge it used up.

**Guardian credentials, device pairing, push** — PIN attempts and lockout,
challenges, passkey sign counts, sessions; short pairing codes; device tokens and
the shared mint of the provider's token. Hard: rows read without a lock, ten
guesses at once, an answer that is lost. Correct if guesses are bounded, what is
for one use is used once, and whoever was shut out stays out and is notified no more.

**Guardian invites, call sessions, records, child records, shared rows, a day
between two homes** — all in `pool.ts` and `routes.mjs`: two people, two requests,
one row. Hard: most functions read in one session and write in another; some take
a row lock, some an advisory lock, some rely on a unique index, some on nothing.
Correct if what was decided is still so when it is written.

**Nightly jobs and migrations** — `tools/scheduler.mjs`, `tools/migrate.mjs`:
processes that are killed, stopped, or started twice. **Signed media links** —
`server/signed_media.mjs`, `storage.ts`: links that outlive a restart or a reap.

### 1.2 The app's own rules

Packages whose state is handed from call to call by `demo/src/play.ts` or the
Flutter client: **child lock** (`child-lock`), **offline outbox** (`offline`),
**family graph** (`can()`), **signals**, **custody schedule and presence**,
**circle** (observers, asks, pings, siblings), **growing up** (`maturation`),
**games** (`games.ts`, `games2.ts`, `games3.ts` and the opponent of `play.ts`),
**live session layers** (`stream`, `live`, `around`, `pane`, `camera`), **shared
canvas**, **quiet activities and the story shelf**, **keepsakes**, **first run**.
Single-threaded; what is hard is a long sequence of legal calls, boundaries of
dates and ages, and what one call leaves for the next.

### 1.3 Interactions

    client --POST /media--> object storage
    client --POST /messages--> API --persistCapturedMessage--> delivery_intent + media_artifact
    scheduler --materialize()--> delivery_intent (pending -> ready | expired)
    child_tz_interval, day_part --trigger--> delivery_intent (ready -> pending)
    worker --claim_due_intents--> delivery_intent (ready -> delivered)
    client --POST .../opened--> delivery_intent (delivered -> opened), media_artifact (expires_at)
    scheduler --reap-media--> object storage, media_artifact, reap_tombstone
    outbox --POST /media, POST /messages--> API           (until an answer is heard)
    API --notifyDevices()--> device_token --> provider    (one mint for all sends)
    client <--WebSocket--> game_tables <--WebSocket--> client
    every request --withSession--> pg.Pool
    every request --can()--> guardianship, paired_device, child

`PROJECT.json` lists every component with its status and the reason for it.

## 2. Modules

| Module | What it is |
|---|---|
| `Materialize` | Operators: zones, day-parts, `materialize()`, `nextReachableWindow()`, `gate()` |
| `MessagePromise` | Abstract specification: five phases per message, handed over at most once |
| `Delivery` | The queue, `EXTENDS Materialize`; implements `MessagePromise` |
| `MediaRetention` | Recordings and the reaper; its `intent` follows `MessagePromise`'s phases |
| `GameTable` | One table with its two clients and the network between them |
| `SessionPool` | Requests and the connection pool |
| `Access` | `Api.handle()` over every registered route, the two of `game_tables.mjs` included |
| `FamilyGraph` | `can()` over the edges of a person |
| `PinGate`, `Passkey`, `Pairing`, `Push` | PIN attempts; challenges, keys, sessions; pairing codes; push tokens |
| `Invites`, `Calls`, `Records`, `ChildRecords`, `SharedRows`, `HouseDay` | What two people write about one child |
| `Nightly`, `MediaLinks` | Jobs and migrations; signed links |
| `Kiosk`, `Outbox` | The child lock; the offline outbox |
| `Signal`, `Custody`, `Circle`, `GrowingUp`, `Keepsakes`, `FirstRun` | Rules of her days and years |
| `Games`, `Contests`, `Playroom` | The games, and the opponent who answers |
| `LiveCall`, `SharedCanvas`, `QuietTime` | Around a call, on the canvas, on her own |
| `MCDelivery`, `MCServer`, `MCAccounts`, `MCHousehold`, `MCRules` | Instances for TLC; `MediaRetention`, `Outbox` and `SessionPool` are run directly as well |
| `Materialize_proofs`, `Delivery_proofs`, `MediaRetention_proofs`, `Server_proofs`, `Accounts_proofs`, `Household_proofs`, `Rules_proofs` | Theorems |

`PROJECT.json`'s `map` gives the source lines of each definition that stands for
code of its own; a helper that spells a part of a mapped definition (a WHERE
clause, a comparison, the shape of a row) is covered by that definition's lines and
not listed again. Names are the source's where TLA+ allows it. An action is one transaction, one callback, or one
stretch of code between two awaits. Operators introduced by "Mutant:" are not
part of a model: each is a plausible bug in the definition that follows it, and
putting it in that definition's place breaks the property paired with it in
`PROJECT.json`.

**Composition.** `MCServer`, `MCAccounts`, `MCHousehold` and `MCRules` put
components that share no state into one run: a variable `focus`, chosen in the
initial state and never changed, names the one whose next-state relation moves;
the others keep still. Their state spaces therefore add instead of multiplying,
and a property of the run is a conjunction of properties of its components,
spelled `About(parts, P)` in `MCRules`.

### 2.1 Delivery, retention

Time is an integer count of ticks; a zone is the distance of its midnight from
UTC's. That keeps what the code depends on — `LocalDate` is not UTC's date, a
date's zone is that of its noon UTC, a zone changes along a timeline — and drops
zone names, formatting, and the gap and overlap of daylight-saving nights, which
Luxon resolves (`time.ts:45-75`). `dayPartFor` and the gate's `find` take the
first matching row; matching parts of one kind and date are taken not to overlap.

| Action of `Delivery` | Code |
|---|---|
| `Capture`, `Persist`, `LoseCapture` | `POST /messages`: `captureMessage()` derives the expiry, `persistCapturedMessage()` inserts, in two transactions |
| `Open` | `POST /inbox/:id/opened`, compare-and-swap on `delivered` |
| `Deactivate` | `deactivateAccount()`: deletes the sender's undelivered rows and waits for their locks |
| `ChangeContext` | a write to `child_tz_interval` or `day_part` with its trigger `invalidate_for_child()` |
| `EffectiveDate` | `CURRENT_DATE` passing a day-part's effective bound: the rows change, no trigger fires |
| `SweepStart` ... `SweepEnd`, `SweepCrash` | `withJobLock()` and `runRematerializeSweep()`: advisory lock, SELECT, one read of each child's rows, one UPDATE per row |
| `ClaimSelect`, `ClaimUpdate`, `ClaimAbort` | the sub-select and the UPDATE of `claim_due_intents`; rows are locked in between |
| `ExpireStale` | `expire_stale_intents()` |

`childCtxFor()` is modelled by what it does: its `::text` casts drop every bounded
interval (section 6). `basis` records the context a schedule was computed in;
`fires` is a history variable. Policies other than `at_daypart` and `on_local_date`
are never captured. `claim_due_intents` and `expire_stale_intents` are complete in
SQL but no production code calls them yet; they are modelled as defined, for any
number of workers. Outside `seed-dev.mjs` no code edits a child's context rows; the
triggers exist for the day it does, and so does `ChangeContext`.

In `MediaRetention` upload and send are separate; `Resend` is the outbox repeating
a key whose answer was lost, within `Retry` of the first attempt, which inserts a
second pair of rows. Opening is four steps, because `applyRetentionOnOpen()` works
on its own connection. `ReapBlob` and `ReapRow` are separate because storage and
database are; `LoseTombstone` is the tombstone's write failing as well.

### 2.2 The server

`GameTable`: Node runs one callback at a time, so each action is a callback — the
HTTP open, the join before and after its authorization query, the upgrade that
lands (`Land`) or does not (`Miss`, later `Rollback`), close events, messages, the
sweep timer. Clients are the app's own boards; their sockets die and garble frames
at will. `SessionPool`: a request is the sequence of connects and releases its
route performs. The ordinary route is `OrdinaryRoute`: its handler calls an accessor
of the pool inside the outer session, as do 48 of the 49 routes that run in one (the
inbox alone does not); `Nesting` clients call those, `Flat` ones the inbox and the
routes that set `skipOuterSession`. `GET medications` opens its two inner sessions at
the same time (`routes.mjs:2631`), where the model opens them in turn. A connect takes
an idle connection or queues without a timeout (the repository sets none); a failure
runs the `finally` blocks. `Access`: a route is
what it declares and the steps of its handler in their order; edges end, devices
are revoked and days pass between any two. `stood` is a history variable: which of
the things that give a caller standing with a child, a paired device or her family,
have held at some moment since the request arrived. What a step stores belongs to
the module of its component. Three steps commit before they refuse, and so does the
model (`RefusalLeaves`): a wrong controls PIN is counted and may lock
(`attemptPinFor`), a code typed on a device of the other role uses up a try
(`redeemDevicePairingCode`), and a passkey's challenge is consumed before the
assertion is looked at. `Nightly`: the loop, runs by hand, a stop, a kill at any
step; two operators who migrate. `ReadBody` is the reading of a file that the ledger's
checksum is of, `ExecFile` the second reading of it, by `execFile()` or `psql -f`, and
its execution; a file may be edited in between, and the history variable `slipped`
remembers which was.

### 2.3 Accounts and households

Each request is a record of how far it is; each database session is a step of its
own, and locks appear where the code takes them: `SELECT ... FOR UPDATE` on an
invite, an `app_user` row, a `child` row; `pg_advisory_xact_lock` on the note log.
Instants read before a wait are kept in the request. A hash is what it is a hash
of; a signature, a PIN or an assertion is right or wrong. `Calls` abstracts what
`can()` reads of an edge to whether it is live; `FamilyGraph` models `can()`.
In `Push` a registration is up to four transactions: the gate on `deactivated_at`, the
upsert, the deletion of another owner's row, which commits, and the upsert again, each
of which may fail; `DeactivateOwner` is the part of `deactivateAccount()` about devices.
`Records` counts notes instead of writing bundles out. `CertifiedInLastYear` is a
count of the rows of twelve months, as the SQL's `count(*)` is.

### 2.4 Rules of the app

Each module follows the functions of one or more packages and, where `play.ts`
holds the state, its calls. Dates are days (`Custody`, `Keepsakes`) or real
`<<year, month, day>>` triples (`FirstRun`, because its rules are about 29
February); shuffles draw any card; boards are small (5x5 checkers, a 2x2 sea) with
the rules unchanged. `MCRules` also holds two loops that are callers of
`Materialize`: two sweeps over an unchanged intent, and a delivery that retries at
`deferTo`, the contract in `gate.ts` (its one production caller,
`notify.ts:262-282`, reports `gated_quiet_hours` and does not retry).

Where the code is a chain of early returns, the definition is a chain of IFs: the
cases overlap (an edge may be expired and closed), and the order decides which
reason is given.

## 3. Properties and runs

| Run | Properties | Instance |
|---|---|---|
| `MCDelivery` | `FiredOnce`, `NeverEarly`, `ScheduleSound`, `DeliveredIsHers`, `KeepsPromise` | 2 messages, 2 workers, 1 scheduler, 1 sender, a child who moves |
| `MCResolved` | `Resolved` | 2 messages, batch of 1, day-parts deleted and restored |
| `MCStaleSchedule` | `ScheduleMatchesContext` (violated) | 1 message |
| `MCTimeline` | `NightOnHerTimeline` (violated) | 1 message, a child on a trip |
| `MCMedia` | `DeliverableHasMedia`, `ReapedInOrder`, `NeverLengthens`, `OverdueHandled` | 2 artifacts, 1 key, 2 openers, batch of 1 |
| `MCTombstone` | `TombstoneRetried` (violated) | 1 artifact |
| `MCServer` | `WhatIsSharedHolds`, `TableEndsForBoth`, `SingleUse`, `WhatIsOpenedEnds` | 1 table; 3 clients and 2 connections; 2 schedulers, 2 jobs; 2 operators, 2 files |
| `MCPoolGridlock` | `NoGridlock` (violated) | 2 nesting clients, 2 connections |
| `MCAccounts` | `PinHolds`, `LoginsHold`, `PairedOnce`, `PushHolds`, `ShutOutStaysOut`, `EveryoneIsAnswered` | 2 requests of each kind |
| `MCHousehold` | `InviteHolds`, `CallsHold`, `RecordsHold`, `RowsAreWhole`, `OverIsOver`, `HandoverEndsAccess` | 2 or 3 requests of each kind |
| `MCRules` | `WordsArrive`, `EdgesDecide`, `RequestsAreServed`, `LockHolds`, `DaysAreFair`, `GamesAreFair`, `SettledStaysSettled`, `StepsKeepTheRules` | one component at a time |
| `MCOutbox` | `SafeArrives` (violated) | 2 recordings |

Each passing run also checks the type invariant of its modules (`TypeOK`,
`ServerTypeOK`, `AccountsTypeOK`, `HouseholdTypeOK`, `RulesTypeOK`). The comment
above a property quotes the code it is about; `PROJECT.json`'s hazards say which
property watches which line. The grouped properties and their parts:

* `WhatIsSharedHolds`: connections come back (`NoLeak`), who holds one while waiting is
  inside a nested session (`HoldAndWait`), and the pool locks up only when every
  connection is held by such a request (`GridlockIsNested`; together `PoolHolds`); a job
  runs once at a time (`JobOnceAtATime`), the exit code is honest (`ExitIsHonest`), no
  night is off its hour or doubled (`NightsAreHours`), every file of the ledger was
  executed and its row names a version that was, unless the file was edited between
  its two readings (`LedgerIsTrue`).
* `WhatIsOpenedEnds`: tables (`Ephemeral`), requests (`Answered`), nights
  (`NightEnds`), processes told to stop (`StopIsHeeded`).
* `PinHolds`: guesses between two locks are bounded although the attempts are
  counted and verified in different statements; no PIN after deactivation.
  `LoginsHold`: one session per challenge, a cloned key is caught, no key outlives
  its account's deactivation. `PushHolds`: one mint in flight; whoever registered
  a device last has its row, unless she took it back, was deactivated, or another
  registration displaced her, finished or not; a deactivated guardian keeps no device
  and is given none, but for registrations already past the gate. `ShutOutStaysOut` and `EveryoneIsAnswered` are their
  temporal companions.
* `InviteHolds`: accepted or revoked and never both; one account per invite.
  `CallsHold`: no token without the right, both sides told alike of recording.
  `RecordsHold`: the chain verifies, the free tariff is kept, handed over once.
  `RowsAreWhole`: doses, letters, favourites, availability, overrides, emergency
  cards, and the rows of a day between two homes (`ThemeByHerGuardians`,
  `HoursAreOfHers`, `DelayIsTrue`, `NotesFade`). `OverIsOver`: the instants of an
  invite, the end of a call, a list sent alone, the parents' access.
* `WordsArrive`: `materialize()`, the gate and the outbox. `EdgesDecide`: an edge
  more never hurts, a closed one is as none. `RequestsAreServed`: the order of a
  request's checks, what a refusal leaves (`RefusedLeavesOnlyTheAttempt`), signed links. `DaysAreFair`, `GamesAreFair`: what must hold in
  each state of her days and of the games. `SettledStaysSettled`,
  `StepsKeepTheRules`: what a step may never do.

What the passing runs show:

* However sweeps, claims, expiry, moves and deactivation interleave, a message is
  returned to a worker once, never before its instant, and never touched again.
  The queue implements `MessagePromise` under the mapping `PhaseOf`.
* Rows no sweep can resolve do not starve the ones behind them: a row whose expiry
  has passed leaves the batch, so the batch drains.
* The artifact's clock outlasts the message's, even for the twin row that a resend
  creates, provided the outbox gives up before the grace does (`Retry + 1 < Grace`,
  four hours against seven days). Opening never lengthens it, although the clock is
  read and written in a transaction of its own: the first opener's row lock
  prevents the race.
* A table ends for both seats however it ends. The turn the server keeps and the
  ones the boards keep agree on every frame in flight.
* Parents who write at once do not undo each other where the code takes a lock;
  `LastWordStands` says what remains where it takes none: a list replaced by one
  request alone is stored as sent (`SentAloneIsWhole`).
* The day's rules agree with each other: what is shown as free is free, a countdown
  keeps its word, the chain of handovers has no gap, the ceiling holds.

### Bounds

* Delivery: three ticks a day, the clock stops at `MaxTime`; the queue compares no
  more than two instants, and three ticks hold a slot, its grace and the time after
  it. Two messages are enough for a batch that leaves one behind, two workers for a
  race. Messages and workers are symmetric: no definition chooses one.
* Media: two artifacts, because rows interact only when they share a key or compete
  for the batch.
* GameTable: the seats are two by design; three moves and a bucket of two reach a
  continuation followed by a move, the shape of the turn bug the comments call
  "Finding A", and the refusal of a third. `MCRules` checks the moves, on a clock
  that stands still; `MCServer` how tables end and buckets refill, on a longer clock
  and without moves.
* SessionPool: two connections, and fewer nesting clients than connections in
  `MCServer`, because `Answered` (in `WhatIsOpenedEnds`) is false without it; nothing in
  the code enforces it, which `MCPoolGridlock` shows with as many. What `PoolHolds` says
  does not depend on it (section 5).
* Push: one of the two devices may lose its app (`Leaving`), one guardian may be
  deactivated; two registrations and one notification in flight.
* Accounts and households: two requests on one row are every race of two; the third
  writer of `SharedRows` is the one who sends alone. Limits (`PIN_MAX_ATTEMPTS`,
  `DEVICE_CODE_MAX_ATTEMPTS`, TTLs, the tariff) are the least that can be reached
  and passed. Section 5 removes these bounds where it can.
* Rules: the named bounds (`Max...`, `Last...`) end each component's history after
  every kind of step has followed every other; dates span a year's turn, leap years
  and the orders' effective bounds. `MaxDefers` is the code's.
* `CHECK_DEADLOCK FALSE` where a bound stops the system. `MCPoolGridlock` finds its
  violation as an invariant.

## 4. Fairness

* `Delivery!LiveSpec`: weak fairness of the sweep as a whole and of the clock.
  `loop()` (`tools/scheduler.mjs:548-571`) runs every job again after each sleep
  until it is told to stop, and Compose restarts the container
  (`docker-compose.prod.yml:107,153,217`). Nothing is assumed of workers or users.
  `Resolved` itself assumes that from some point on sweeps do not crash; the child's
  context may change forever.
* `MediaRetention!LiveSpec`: weak fairness of the reap job as a whole, so deleting
  may fail forever. `OverdueHandled` assumes an end of crashes and of tombstones
  that cannot be written. `HealthySpec` adds that deleting is not prevented forever,
  to show that `TombstoneRetried` fails even then.
* `MCServer`: the event loop serves close events and rollbacks, the interval timer
  fires (`AtTable` restricts this to behaviours about the table); callbacks of the
  pool that are ready run; a scheduler that runs goes on. Beginning a request,
  failing, being killed are not fair.
* `MCAccounts`: a request begun is worked on. `PinGate` needs strong fairness: a
  request waits for row locks that others take in turn, and Postgres queues them.
  Sends and the mint end, as `fetch` does; nobody has to ask for anything.
* `MCHousehold`: strong fairness of the steps of each request of `Records`, for the
  same reason.
* `MCOutbox`: the timer that retries fires, and an attempt comes to an end.

## 5. Proofs

All theorems hold for every value of the constants that the named assumptions of
the modules allow (`TimeAssumption`, `DeliveryAssumption`, `RetentionAssumption`,
`RowAssumption`, `TableAssumption`, `PinAssumption`, `InviteAssumption`,
`ChildRecordsAssumption`, `SharedRowsAssumption`, `NeverAssumption`, ...): any
number of messages, accounts, rows, devices, requests in flight, workers and
processes, any limit, lifetime and tariff. The bounds `Max...` remain, as guards,
at any value. Assumptions say that a limit is a number, that a marker for "nobody"
is not somebody, and, once, what the code relies on: `Retry + 1 < Grace`.

Almost no checked property is inductive. What makes it so is, in each component,
a statement of what a process that has read but not yet written may rely on:

| Module | Theorem | Says | The invariant behind it |
|---|---|---|---|
| `Materialize_proofs` | `NothingDumpedLate`, `NamedNightFixed`, `NamedNightStaysPast` | what `materialize()` schedules is at most `Grace` in the past and not expired; a named night does not move, and once past stays past | one lemma per policy; sets of integers bounded below have a least element |
| | `RollsToTheEarliest` | an undated intent goes to the earliest slot not past grace | slots come in the order of their dates (`LaterDateLaterSlot`), since a trip shifts the clock by less than a day |
| `Delivery_proofs` | `TypeCorrect`, `NoDoubleFire`, `NothingEarly`, `SchedulesAreSound`, `DeliveredStaysHers` | `TypeOK`, `FiredOnce`, `NeverEarly`, `ScheduleSound`, `DeliveredIsHers` | `HeldDue`: a row a claim holds is ready, due, and held by it alone |
| | `Refinement` | `Spec => KeepsPromise`: `Delivery` implements `MessagePromise` | the same, step by step |
| `MediaRetention_proofs` | `RetentionTypes`, `DeliverableAlwaysHasMedia`, `OpeningNeverLengthens`, `AlwaysReapedInOrder` | `TypeOK`, `DeliverableHasMedia`, `NeverLengthens`, `ReapedInOrder` | an artifact's clock is no earlier than its message's until it arrives, and what the reaper read is still overdue |
| `Server_proofs` | `TableTypes`, `TableAlwaysEndsForBoth`, `SeatsAreSingleUse` | `TypeOK`, `TableEndsForBoth`, `SingleUse` | `SeatsAgree`: the flags of a seat against its socket |
| | `HonestMovesArrive` | `FairPlayInTurn` and `NoLostMove` (in `GamesAreFair`) | `Turns`: the server's turn against both boards and every frame in flight; `Begun`: nothing is played before both are there |
| | `PoolNeverLeaks`, `PoolAlwaysHolds` | `NoLeak`; `PoolHolds`, for any number of nesting clients | a request holds what it has yet to give back, who waits is about to connect; a connect inside a session is in nobody's script but a nesting client's |
| | `NightsAlwaysHold` | `JobOnceAtATime`, `ExitIsHonest`, `NightsAreHours` | `GoodNight`: a sleep ends on the hour, a day or more after the last night; the answer so far is that of the jobs so far |
| | `LedgerAlwaysTrue` | `LedgerIsTrue` | `ReadsOK`: what is about to be executed is what the checksum is of, and what is about to be recorded was executed, unless the file slipped; a file that cannot run twice was executed in one version |
| | `ServerTypesHold`, `WhatIsSharedAlwaysHolds` | `ServerTypeOK`, `WhatIsSharedHolds` of the composed run | `ServerInvariant`: the four above at once |
| `Accounts_proofs` | `PinAlwaysHolds`, `PinTypesHold` | `PinHolds` | a counted attempt and its request agree |
| | `LoginsAlwaysHold`, `PasskeyTypesHold` | `LoginsHold` | a challenge consumed belongs to one request; a sign count written was the greater |
| | `AlwaysPairedOnce`, `PairTypesHold` | `PairedOnce` | a request past the row lock knows its code's row |
| | `PushAlwaysHolds`, `PushTypesHold` | `PushHolds` | whoever waits for a mint is known to it and one of them started it; a row's id is nobody else's; who is past the gate when her account is deactivated was registering a device that is remembered |
| | `AccountsTypesHold`, `AccountsHold` | `AccountsTypeOK` and the four above, of the composed run | `AccountsInvariant` |
| `Household_proofs` | `InviteAlwaysHolds`, `InstantsAreFinal` | `InviteHolds`, `InviteInstantsFinal` | `DecisionStands`: what was found of a row under its lock is so until it is written |
| | `CallTypesHold`, `CallsAlwaysHold`, `CallsEndOnce` | `CallsTypeOK`, `CallsHold`, `EndedOnce` | one request starts a call, and until it has answered every word of the call is its own |
| | `RecordsAlwaysHold`, `RecordTypesHold`, `AccessEndsWithHandover` | `RecordsHold`, `RecordsTypeOK`, `NoAccessAfterHandover` | `NotedOK`, `CertifyOK`, `TakingOK`: the tip, the count and the archive as read under the three locks; `RecordHolders`: who holds a lock still has something to write |
| | `ChildRecordsHold` | a dose is given once, refused because of a real one; a letter opens once | `IndexIsUnique`: the unique index holds one given dose, committed or not |
| | `DaysHold` | theme, hours, delays and notes of a day between two homes | what a policy let through was a guardian's at that moment; a note carries the instant it fades at |
| | `RowsAreAlwaysWhole`, `HouseholdTypesHold`, `HouseholdHolds`, `WhatIsOverIsOver` | `RowsAreWhole`, `HouseholdTypeOK`, the three of the components and `OverIsOver`, of the composed run | `HouseholdInvariant` |
| `Rules_proofs` | `LockAlwaysHolds`, `KioskTypes`, `LockHoldsInTheRules` | `LockHolds` | the lock's count is no smaller than the wrong PINs that cost nothing |
| | `LinksServeAsMinted` | a link serves the whole upload it was minted for, while it lasts | what was minted names an upload that came to its end |
| | `AnEdgeMoreNeverHurts`, `AClosedEdgeIsNone`, `EdgesAlwaysDecide` | the same of `can()` for any edges and query; `EdgesDecide` | `OneEdgeDecides`: `can()` allows exactly if it allows on one of the edges; observers: one invitation of a person in force at a time |
| | `RequestsAreAlwaysServed`, `AccessTypesHold` | `RequestsAreServed`, `AccessTypeOK` | `AccessInv`: what no check has shown yet a step to come will ask for, and after an effect no step refuses, but for those that commit the attempt they refuse; both read off the steps of every route (`EveryRouteIsOK`) |
| | `WordsAlwaysArrive`, `OutboxTypesHold` | `WordsArrive`, `OutboxTypeOK` | `OutboxInv`: what was recorded is queued, on its way, stored or was refused to her face; an item that has no key has no upload she heard of; the gate's count is the number of postponements |
| | `WhatWasSettledStays` | three parts of `SettledStaysSettled`: `NamedNightNeverMoves`, `PostponedForward`, `RefusedStaysRefused` | the same |
| | `DaysAreHers` | seven parts of `DaysAreFair`: `CeilingHolds`, `EveryTapReaches`, `TurnsComeRound`, `OneAnswerAMinute`, `RemainingIsTrue`, `HersToArrange`, `NeverNobody` | `DaysInv`: what is counted of her prompts is what she saw; a child no older than the one whose turn it is has had one turn more than who is older; no two published windows clash, and what was published presupposes the rung; the view of an item keeps who put it away; who is asked after is somebody who joined |
| | `WhatIsHersStays` | `GrantsOnlyGrow`, `FadedStaysFaded`, `QuietIsQuiet` | the same; a rung is recorded by its name alone |

A composed run is one component beside others that keep still, so its invariant is
the conjunction of theirs (`RulesInvariant`, `HouseholdInvariant`, ...): every step
of the composition is a step of each component or leaves its variables alone.

`WordsAlwaysArrive` and `WhatWasSettledStays` are about the contexts of `MCRules`,
for every grace, horizon, number of postponements and length of the day; the first
needs `Day > 3`, since a trip there shifts the clock by up to three ticks and two
zones are no more than a day apart. `RollsToTheEarliest` needs the same of any
context (`ZonesWithinADay`), and a day-part that begins at one wall clock on all its
days (`OneWallClock`): then a slot of a later date is a later slot, and the code,
which stops at the horizon, has not missed an earlier one.

In `Nightly`, the loop sleeps by its own count and never looks at the clock again,
so `NightsAreHours` holds because no tick passes while a sleep that is over has not
been woken from (a guard of `TickPasses`): the sleep then ends where the arithmetic
of `msUntilNextRun()` said it would, and two instants at the same hour are a day
apart or more (`HoursApart`).

In `Delivery`, no single statement guarantees `HeldDue`: the sweep leaves a held
row alone because it only takes pending rows, the trigger because a due row is not
invalidated, expiry and deactivation because they wait for locks, a second claim
because of `SKIP LOCKED`. In `Records`, the tariff's sliding year is proved with
`CertifiedOnTariff`: the free certified exports of any twelve months that end with
the new one are among those that were counted for it under the lock of the
requester's row, because no other of hers can be inserted meanwhile. Hash-chain
entries have no common set (a hash is what it is a hash of), so sequences are
sequences of anything there (`IsList`).

`PoolAlwaysHolds` and `WhatIsSharedAlwaysHolds` assume nothing of how many clients
nest. That no request waits forever (`Answered`) needs `Cardinality(Nesting) < Size`,
which the code does not enforce: it is checked on an instance that has it, not proved,
and `MCPoolGridlock` shows what happens on one that has not.

Only model-checked:

* every liveness property (`Resolved`, `OverdueHandled`, `WhatIsOpenedEnds`,
  `ShutOutStaysOut`, `EveryoneIsAnswered`, `HandoverEndsAccess`): the prover does
  not reason about fairness and ENABLED;
* what `DaysAreHers`, `HonestMovesArrive` and `WhatIsHersStays` leave of
  `DaysAreFair`, `GamesAreFair` and the two groups of action properties, and
  `RulesTypeOK` as a whole: the games, dates, letters and counts there are computed
  by recursive functions, selections and folds over sequences, induction over which
  is out of the prover's reach.

## 6. Where the code and what it says disagree

* **A bounded time-zone interval is ignored** (`MCTimeline`). `childCtxFor()`
  (`pool.ts:1193`) casts interval bounds with `::text`; Luxon does not read that
  format and every comparison is false. A message for a night of a trip goes out on
  home time. The scheduler avoids the same cast elsewhere and explains why
  (`scheduler.mjs:198-202`).
* **A schedule can outlive the zone it was computed in** (`MCStaleSchedule`). The
  sweep's UPDATE checks the state, which the trigger leaves `pending`; a context
  change between read and write goes unnoticed, which `0002_delivery_sweep.sql:5-7`
  lists as closed.
* **A tombstone ends retries** (`MCTombstone`). `docs/scheduler.md:49` and
  `0004_auth_and_reaper.sql:62` say it drives them; the query at 0004:85 leaves
  tombstoned artifacts out.
* **Nearly every route nests sessions** (`MCPoolGridlock`). Of the 49 routes that run
  inside the outer session all but `GET .../inbox` call an accessor that opens another
  from the same pool; as many such requests at once as the pool has connections wait
  for each other for good, the deadlock that `api.ts:139-149` describes and
  `skipOuterSession` closes where it is set.
* **What is told to be safe may never go** (`MCOutbox`). `offlineChildView()` says
  so of every waiting item; after `MAX_ATTEMPTS` an item is never tried again.

Met while modelling, without a run; the models follow the code:

* Delivery: `nextReachableWindow()` counts dates in UTC and may skip the rest of her
  local day (`materialize.ts:174`); the default daily sweep drops a message sent
  after it for the same evening (`scheduler.mjs:540`, against
  `materialize.ts:55-57`); `orphan_risk` does not list a row whose blob is gone; a
  lost answer to `POST /messages` makes two messages.
* Jobs: `migrate.mjs` may die between executing a file and recording it, and
  nothing keeps two operators apart; it hashes one reading of a file (`:161`) and
  executes another (`:70`, `:91`), so the ledger may name a version that never ran; a
  sweep may answer 500 after its effect.
* Accounts: a registration whose retry fails leaves the device without a row, its
  former owner's included (`pool.ts:2169-2170`), and one that was past the gate when
  its account was deactivated still lands (`pool.ts:2088-2105` says so); a sign count that returns to 0 is accepted; a login in flight when its
  account is deactivated gets a session once its key is registered elsewhere; two
  outstanding codes may share digits; a kiosk may be locked out by someone else's
  mistypes. `recordPinAttempt` is superseded and unused.
* Households: two concurrent availability writes may leave both lists; `revoke()`
  re-stamps earlier observer invitations; an observer is granted publishing on
  joining a call; no route sets `escalated`; a running-late of under half a minute
  rounds to 0 and hits a CHECK (500), as do over-wide numbers and non-dates; an
  arrival after midnight has no delay; `isSingleGuardianViable` and
  `isLiveGuardian` ignore validity; some `LIMIT 1` have no `ORDER BY`.
* Growing up: `adjustRung` counts names without looking whether they differ;
  `recordGrants` uses `LADDER` and not the adjusted rungs, and neither
  `authorizeExport` nor `requestDeletion` looks at them; `exchanges()` may list a
  handover from one parent to herself; `countdown` ignores `effectiveTo`.
* Play: a tic-tac-toe reply on a full board plays `undefined`; the memory reply
  looks at six cards only; `kimAdvance` has no guard; taking back after handicaps
  replays moves the fresh game refuses; a chess position set from FEN never sees a
  repetition; `canvas.erase` lets observers erase.
* Around a call: `pane.avoid()` recomputes `displaced`, so a second `avoid()` never
  snaps home, and `play.ts` always sends it to `br`; a pane that failed does not
  show again; `camera.pipFor` says `os_native` where `probeOsPip` refuses;
  `readingChildView.canTurn` ignores whose page it is.
* Keepsakes and shelf: `letterTryOpen` tries the first letter only; `stReread` keeps
  a stale place and count; the last target of the find-scene is never placed.
* First run: the picker accepts 29 February in a derived common year; `pickMonth`
  after it is done keeps a stale year; an untruthful answer about the year is
  noticed only at age 0; going back and on without picking erases colour and
  birthday and resets who was chosen; "nobody yet" stays after somebody joined; a
  game grown into between the GET and the PUT of one visit is never shown as new;
  on 28 February of a common year the calendar celebrates a birthday that
  `ageFrom` has not reached; a year book counts taps as days.

## 7. What is not modelled

* Homework (image quality, OCR), content and presentation packages, catalogues,
  backups, the Flutter client's screens: no state that two actors share.
* Chess and other vendored code; pictures, wording, layout, contrast, translation,
  accessibility, print; markup tools.
* Signatures, hashing, the parsing of attestations: idealised. Push providers,
  LiveKit, object storage: external, by how the code uses them.
* Daylight-saving gaps and overlaps, zone names, day-part confidence, the
  enumeration of banked dates, the expiry digest.
* In the modelled parts: HTTP rate limits, `lastMove` chaining, canvas pointers,
  reverse banking, parent shows, the find-scene, `canOpenTable` and
  `siblingLinkFor`, the onboarding entry choice, month grid and hints, texts of
  bundles and their signatures. `PROJECT.json`'s component notes say where.

## 8. Plan

Done: the queue first, since every message goes through it; what shares its rows
(retention); where many actors meet (tables, pool, rows); the app's rules; proofs
of every safety property of `MCDelivery`, `MCMedia`, `MCServer`, `MCAccounts` and
`MCHousehold`, and of the lock, the links, the edges, the Api, the outbox, the words
on their way and most of her days in `MCRules`.

Left, in this order:

1. The parts of `SharedCanvas`, `LiveCall` and `Playroom` whose steps need no fold:
   each has an invariant of its own and would join `DaysInv`.
2. The games, of which TLC checks small boards: a proof would first need the
   recursive functions there restated as properties of each step.
