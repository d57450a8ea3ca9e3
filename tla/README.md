# Verification of rectime-api

TLA+ models of the backend of the HAL Nagoya sports day application, the TLC
runs that check them and the TLAPS proofs about them. Paths are relative to
`src/src/` unless they start with `src/`.

The application is one Cloudflare Worker: HTTP handlers (Hono), two crons and a
queue consumer, over D1 (SQLite), KV, R2, a Queue and one Durable Object. The
rule that shapes every model: **a D1 statement is atomic, a D1 `batch()` is one
transaction, and between two `await`s anything else may run.** There are no
locks except the Durable Object of the master import; everything rests on
conditional `UPDATE`s, unique indexes and optimistic version columns. So a step
of a model is one statement or one batch, with the guards of its `WHERE`.

## 1. The system

| Component | State | Operations | What is hard |
|---|---|---|---|
| **Push delivery** (`NotificationDeliveryRepository`, `NotificationDeliveryService`, `NotificationRetryService`, `FcmErrorPolicy`) | `notification_push_deliveries`: status, `attempt_count`, first/last attempt, `next_retry_at`, reason; `notification_schedules.send_status` | prepare, sweep, count, claim, renew lease, save retry, mark sent/failed, retire, complete | two consumers and two crons over one table, leases, lost answers, crashes between statements |
| **Delivery queue** (`infrastructure/queues`) | messages: `{scheduleIds}` or `{retryDeliveryIds}` | send batch, ack, retry | at-least-once, reordering, loss after `max_retries` |
| **Schedule stop** (`NotificationStop*`) | `send_status`, delivery statuses | stop one schedule, stop all of a deleted source | races with rows in flight |
| **Audience resolution** (`NotificationAudienceResolver*`) | `send_status` scheduled → resolving, `resolved_at` of audiences, recipients | find due, claim, resolve each audience, fail | availability is checked before the batch that inserts the recipients |
| **Notification admin commands** (`AdminNotificationCommand*`, `NotificationScheduleAction*`, `NotificationCreationRepository`) | notifications, schedules, audiences | create, edit, delete, cancel, resend | editing something that starts while it is edited |
| **Gathering notification sync** (`GatheringNotification*`, `GatheringSettingsTransaction`) | automatic notifications keyed by `(source_type, source_id)` with `source_hash`, `held_at` of their schedules, gathering settings of an event | apply settings (hold + edit), generate, reconcile every hour | the settings transaction and the generator are separate; generators race |
| **Login and sessions** (`presentation/auth`, `AuthStateRepository`, `RefreshSessionRepository`, `authService`) | auth states, refresh sessions, users, Microsoft links | start, callback, exchange, refresh (rotate), logout | two refreshes at once; a login or refresh in flight during logout |
| **Account deletion** (`AccountDeletionService`, `NotificationAccountDeletion*`) | `deletion_status`, KV marker, links, sessions, tokens, recipients | mark deleted, delete related data, retry purge daily | many steps over KV and D1, retried; races with logins and registrations |
| **Firebase tokens** (`FirebaseToken*`) | `firebase_tokens` (unique `fcm_token`) | register, unregister | transfer of a device between users |
| **Staff and user status** (`StaffService`, `UserStatusService`) | `users.role`, `is_live_active` | assign, revoke, suspend, restore | at least one active staff member must remain |
| **Master import** (`MasterImport*`) | KV session, D1 masters, Durable Object lock | preview, commit | a session read before the lock; waiters poll |
| **Events** (`EventService`, `EventRepository`) | events, venues, `lock_version` | create, update, delete | `lock_version` shared with the gathering settings |
| **Gathering members** | members of a group | replace by difference | two replacements at once give the union |
| **Place images** (`PlaceImageService`, `R2ImageStorage`) | R2 objects, image key of a spot or venue | replace, delete | compensation after an ambiguous failure |
| **Teams, scores, ranking** | teams, members, scores | update in three statements, add score, ranking | partial failure |
| **Students, teachers, classrooms** | master tables with `lock_version` | edit, import | stale edits |
| **FCM client** (`FcmService`) | cached access token | refresh once for many callers | single flight, expiry margin |
| **Query services, HTTP layer, DTOs, OpenAPI, crypto** | none | parse, format, wire, sign | nothing stateful |

How they interact. The gathering sync and the admin commands *create*
schedules (`scheduled`). Each minute the resolver cron turns due schedules into
`resolving` ones with recipients; the same cron then calls
`enqueueReadySchedules`, which inserts delivery rows, moves them to `sending`
and puts messages on the queue; the consumer claims rows and calls FCM. The
retry cron puts due rows on the queue again. Stopping, account deletion,
suspension and token changes cut in at any point. All of them meet only in the
database; no component calls another one back.

Per component, what makes it correct:

- *Push delivery*: no device is pushed twice by choice, no accepted push is
  reported failed, nothing is stranded or lost, a schedule completes exactly when
  its rows are settled, everything ends.
- *Audience resolution and admin commands*: content, audience and time are
  frozen once the schedule starts; recipients are complete when it leaves
  `resolving`; a held schedule never starts; every due schedule gets on.
- *Gathering sync*: what is sent shows the settings in force; a failing sync
  holds the old notice back; generators converge.
- *Sessions and account deletion*: a logged-out or deleted user ends up with no
  session, token or link, whatever was in flight; a purge is completed.
- *Staff*: some active staff member remains. *Master import*: a session is
  committed once. *Events, masters*: no lost update. *Place images*: no row
  refers to a deleted object. *FCM client*: no caller uses an expired token.

`PROJECT.json` lists the components with their sources and, under `hazards`, the
places where the modelled code is hard to test.

## 2. The modules

| Modules | Models | Composes / refines |
|---|---|---|
| `PushDelivery`, `PushDeliveryProps`, `PushDeliveryProofs`, `PushSafetyProofs` | push delivery, queue and consumer, stop | implements `PushLifecycle` |
| `NotificationSchedule`, `…Props`, `…Proofs` | audience resolution, admin commands | hands over to `PushDelivery` (`StartSending`), is rewritten by `GatheringSync`; implements `NoticeLife` |
| `GatheringSync`, `…Props`, `…Proofs` | gathering settings and their notice | uses the life of a schedule of `NotificationSchedule`; implements `NoticeLife` |
| `Accounts`, `AccountsProps`, `AccountsProofs` | sign-in, sessions, deletion and purge, devices, staff, suspension | takes over from `SignInStates`; its purge is what `GroupMembers`, `NotificationViews` and `NotificationSchedule` see of it |
| `SignInStates` | the `state` of a Microsoft sign-in | |
| `Masters`, `MastersProps`, `MastersProofs` | teachers, class rooms, students | its imports are the writes of `MasterImport` |
| `MasterImport`, `MasterImportProofs` | import session, lock, commit | |
| `Teams` | teams, scores, moves of class rooms | |
| `GroupMembers` | members of a gathering | |
| `Places` | events, venues, gathering spots and their images | |
| `NotificationViews` | lists, calendar and history of notifications | operators over the tables, read in several steps |
| `FcmClient` | access token cache of the FCM client | |
| `RecordsProofs` | proofs for `SignInStates`, `Teams`, `GroupMembers`, `Places`, `FcmClient` and `NotificationViews` | |

The order was: what sends (the three modules at the top, which share
the life of a schedule), then accounts, whose deletion cuts into
everything, then the parts that stand alone. Parts that share no variables
are checked by one run, `records`: its initial state picks a part and every
step is one of that part's, so their states add up and do not multiply.

## 3. The sending phase: `PushDelivery`

### State and code

| Variable | Code |
|---|---|
| `schedule` | `send_status` of a schedule, from `resolving` on |
| `delivery` | row per (recipient, token): `attempt` = `attempt_count`, `first`/`last` = ages of `first_attempt_at`/`last_attempt_at`, `next` = time left to `next_retry_at`, `config` = reason is `FCM_CONFIG_BLOCKED` |
| `token`, `active` | row of `firebase_tokens` exists; its user is undeleted and `is_live_active` |
| `queue` | messages, as a set (equal messages collapse; redelivery is explicit) |
| `consumer` | an invocation of the queue handler: program counter, message, age of its last clock reading, claimed ids, one `job` per claimed row |
| `retryCron`, `readyCron` | `enqueueDueDeliveries`, `enqueueReadySchedules` between their statements |
| `upsets` | crashes, thrown statements, configuration errors and suspensions so far |
| `accepted`, `uncertain`, `holder` | history: pushes FCM took, lapse or lost answer, last claimant |

Each action is a statement or batch; `PROJECT.json` maps it to its lines. The
claim is three statements in the code (SELECT candidates, batch of guarded
UPDATEs, SELECT what was claimed) and three actions here, with whatever runs in
between. A job goes `claimed` → (renew lease) → `calling` → (answer) → saved.

**Time** is kept as ages that saturate. Every statement compares with the clock
its caller bound, so a consumer and the retry cron carry the `age` of their
reading; a cron's clock is its scheduled time. `Tick` forgets times no
statement reads any more. `MaxStall` bounds how long an invocation outlives its
reading.

**Abstractions.** Messages, payloads and formatting are left out. The loop of
the ready cron treats its schedules independently. Pages of 90 retry ids and
chunks of 15 schedules are one message. One invocation of each cron exists at a
time. `sourceAllowed`/`manualOnly` of a stop are assumed to allow it. A failing
`ensureConfigured` ends the cron before it does anything and is a stutter.
Malformed messages are acked without effect and are not enumerated.

### The abstract specification

`PushLifecycle` says what the rest of the application relies on: a schedule
starts once with a fixed set of deliveries, each is settled once and for all,
a schedule completes only when all are settled, and `stopped` deliveries belong
to stopped schedules. Leases, retries, queues and clocks do not appear. The
mapping calls `pending`, `sending` and `retry_wait` "open".

### Runs

| Run | Question | Instance |
|---|---|---|
| `push_races` | `HonestOutcome`, `FreshLeaseIsExclusive`, `FenceNamesHolder`, `StatusesAgree` under two consumers, lapsing leases, lost answers, stop, token deletion, two devices of one schedule | 2 deliveries, 2 consumers, no upset, `OneRaceAtATime` |
| `push_overtaken` | `FenceNamesHolder` with a configuration error and a long stall: **violated**, see below | 2 consumers, 1 upset |
| `push_faults` | `TypeOK`, `NoStrandedDelivery`, `AttemptsBounded`, `ImplementsLifecycle` with every answer of FCM | 1 delivery, 2 milestones, rate limits, 1 upset |
| `push_liveness` | `EveryDeliverySettles`, `EveryScheduleEnds` | 1 delivery, 1 upset, fairness |

**Bounds and why they are enough.** Rows interact through their schedule
(completion) and two schedules through a token they share. The constraint
`OneRaceAtATime` of `push_races` splits the two: two consumers race for one device
alone, or one consumer serves two devices of one schedule, one row per batch and
message, as long as nothing is tried again. What lies outside is covered by the
proofs (section 13), which hold for any numbers and any maps from deliveries to
schedules and tokens. Races over a row need two invocations: the
fence and the claim compare one invocation with the row. `Offsets`, `Window`,
`Timeout` are the code's 10/30/120/300/900 s, 1020 s and 120 s
(`NotificationRetryPolicy.ts:1-12`) shrunk to ticks
that keep their order and the interesting coincidences: a lease of 0 ticks lapses
within one tick, the last milestone lies within the window, a rate limit reaches
beyond it. The 100 claims of a message are one in `push_races`, where it leaves the second row of the schedule
behind; `push_liveness` has a single delivery, so that a later message finds what was left at the limit is
not checked as liveness. `MaxUpsets = 1` allows one disturbance at any point, in any state;
redelivery, stops, token deletion and restoring a user are not limited.
Deadlock is checked in every run of this module: the crons never stop.

**Fairness** (`FairSpec`): weak fairness of each cron, each consumer and the
clock. The platform starts both crons every minute and invokes the handler while
messages are queued, and an invocation runs until it ends or dies; a dead one
gives its message back or loses it. No fairness on stops, users, faults or any
particular answer of FCM. Losing a message is allowed because the crons find
the rows again; that is what the run shows. Configuration errors count as
upsets: repeated for ever they keep a row waiting by design (no window, no limit
of attempts), so liveness is claimed for finitely many.

### What the overtaken run shows

The claim of a row blocked by a configuration error sets `attempt_count` back to
1 (`NotificationDeliveryRepository.ts:473`), so the pair (status,
`attempt_count`) that fences every write does not identify a claim. A consumer
that stalls longer than the lease plus the configuration delay (420 s) may save
its result over its successor's claim. Without configuration errors the pair does
identify the claim: `push_races` checks it and `SpecFenceNamesHolder` proves it. Compare `renewDeliveryLease`, commented 「attemptを所有するWorkerだけが、
送信直前にleaseを更新できる。」. It is a matter of a token that repeats, not of timing alone: a claim
counter that is never reset would close it.

A divergence without a run: `src/wrangler-nagoya.jsonc:76` requires the queue's
retry delay to stay "below the 6-minute delivery lease", while the lease in
force is 120 s (`domain/entities/NotificationRetryPolicy.ts`); the 6-minute
constant `NOTIFICATION_DELIVERY_LEASE_TIMEOUT_MS` is unused. Nothing in the
model depends on that order: a redelivered message may come at any time.

## 4. From creation to the recipients: `NotificationSchedule`

One notification with its schedules, until `PushDelivery` takes over.

### State and code

| Variable | Code |
|---|---|
| `automatic` | `source_type = 'gathering'`; chosen in `Init` |
| `notification` | the row: absent, present, deleted |
| `content` | the push texts, as a version that flips with each edit |
| `schedule` | rows: `status` = `send_status`, `started` = `started_at`, `resolved` = `recipients_resolved_at`, `due` = `send_at` has come, `held` = `failed_reason` is `AUTOMATIC_SYNC_PENDING` |
| `audience` | per schedule and target: none, open, resolved (`resolved_at`) |
| `recipients` | `notification_recipients` of a schedule |
| `exists`, `members`, `active` | targets that are there, their users, users with `is_live_active` and an active account |
| `resolver` | invocations of the minute cron between two statements |
| `editor` | staff requests between their check and their batch |
| `steady` | history: the users a started schedule has meant ever since |

The resolver (`FindDueCandidates` … `FailSchedule`) is one action per statement
or batch. Requests that check first and write later are two actions each
(`PatchNotification`/`ApplyPatch`, `DeleteNotification`/`ApplyDelete`); the
others are one statement. `World` holds what other components do to the same
rows: time, the gathering sync, the hand-over to sending, a stop, the deletion
of a target with its clean-up, the purge of an account, and users coming and
going.

**Abstractions.** The order of candidates (`send_at`, id) is left open and their
number is not limited. The `manualOnly` mode, for an invalid `EVENT_DATE`, only
narrows the candidates. A PATCH of the detail texts alone carries no guard and
nothing modelled reads them. `sending` stands for all that `PushDelivery` does
later.

### Runs

| Run | Question | Instance |
|---|---|---|
| `schedule` | `TypeOK`, `NobodyForgotten`, `RecipientsClosed`, `ImplementsNoticeLife`, `UnstartedReachedNobody`, `StartedIsKept`, `EveryDueScheduleGetsOn` | two instances in one, split by `RacesOrResend` |
| `schedule_vanished` | `NoEmptyAudience`: **violated**, see below | 2 resolvers |

**Bounds and why they are enough.** `RacesOrResend` keeps the run to two halves: two
overlapping resolvers with a staff request and a fault on one schedule, or one
resolver without faults and a resend of the same notification, with two
requests. Users are treated alike and independently,
so one is enough to be forgotten or added; two targets let one audience be open
while the other is settled, and one of them is a gathering (the source of an
automatic notification) and one a user (whose account may be purged). Schedules
interact only through their notification, which two of them with two requests
(create, resend or edit) show. `Returning` bounds who may join or be restored,
`MaxEdits` the requests, `MaxFaults` the faults. The safety properties are also
proved for every instance. `CHECK_DEADLOCK FALSE`: with the bounded requests used
up and all targets gone, nothing is left to do.

**Fairness**: each resolver cron, which runs every minute and ends or dies. Staff,
users and the sync are under no obligation. `EveryDueScheduleGetsOn` says that a
due schedule stops being a candidate; a hold or a later time do that too, and
`EveryNoticeGoes` of `GatheringSync` is about the hold. It is a statement about the
first half: in the second the constraint stops one resolver, so no
fair behaviour stays there for ever.

### What `schedule_vanished` shows

`resolveAudience` is commented 「対象消失は空Audienceとして確定せず、ServiceでScheduleをfailedにする。」
(`NotificationAudienceResolverRepository.ts:112`). The check is a statement of its
own; the batch after it does not repeat it. A class room deleted between the two is
settled as an empty audience and the schedule goes on without its users.

## 5. The notice of a gathering: `GatheringSync`

Saving the gathering settings of an event changes the time and holds the
automatic schedule in one transaction; then a *generator* rewrites the notice and
lifts the hold. Every save runs one, the hourly reconciliation runs one more.

### State and code

| Variable | Code |
|---|---|
| `gathering` | the row: new, live, deleted, and its `gathering_time` (`Unset` is `'99:59'`) |
| `notice` | the notification with its automatic schedule: `time` stands for `source_hash`, texts and `send_at`, which are functions of it; `held` as above; `cancelled` is a notification whose schedule has gone |
| `resend` | a schedule by which staff send the notification again |
| `gen` | the requests and the cron: program counter, the row a save read, the time the generator read, the hash it compares with, the attempts left in both loops |
| `now` | the clock |
| `created` | history: notifications ever created |

`SaveRead` reads the settings; `SaveCreates`, `SaveEdits`, `SaveDeletes`,
`SaveWritesNothing` and `SaveFails` are the outcomes of the transaction. The
generator's actions follow `generate` and, inside it,
`createOrUpdateAutomatic`: source, started, find, create (INSERT … SELECT with its
conditions) or write (compare-and-swap on `source_hash`), then read again and
clear. `lock_version` of a save is optional in the code, so a save with a stale
reading is possible and is modelled; with the version given it is one of the
outcomes.

**Abstractions.** One gathering: gatherings share no row but the event's
`lock_version`. With an invalid `EVENT_DATE` the generator does nothing and is left
out. Staff edits of an automatic notification are in `NotificationSchedule`.
Minutes are ticks: `Lead` for `minutesBefore`, `Cut` for the ten minutes of the
reconciliation, `Hour` for its period.

### The abstract specification both models implement

An automatic notification has many writers: generators and saves
(`GatheringSync` has them in full and the others in outline), resolvers, staff, purges and the
clean-up after a deletion (`NotificationSchedule` has those in full and the sync in
outline). `NoticeLife` says what all of them keep to: the notification is created once, for
a gathering that is there; its text changes only until it or a resend has started;
it does not start while it is held; once the gathering has gone nothing waits to be sent
and nothing new comes. Each of the two models implements it (`ImplementsNoticeLife`),
so what one takes for granted of the other's writers is no more than what
these do. In `GatheringSync` the text is the time it shows and there is one resend; in
`NotificationSchedule` it is `content`, the resends are all schedules but `First`, and a
manual notification never leaves the initial state. `FrozenOnceStarted` and `HeldNeverStarts` say
parts of this directly and are proved (section 13).

### Runs

| Run | Question | Instance |
|---|---|---|
| `sync_races` | `TypeOK`, `AtMostOneNotice`, `NoOrphanNotice`, `ImplementsNoticeLife`, `StaleIsBeingSynced` | 2 requests, 3 saves, 2 times, no fault |
| `sync_unset` | `StaleIsBeingSynced` when a save may take the time away: **violated** | 2 requests, 2 saves |
| `sync_released` | `ReleasedInSync`: **violated** | 1 request and the reconciliation |
| `sync_liveness` | `EveryNoticeGoes` | 1 request, 2 saves, 1 fault, fairness |

**Bounds and why they are enough.** The compare-and-swap has two sides, so two
requests and the cron give every pair of contenders and one more to overtake
them; three saves let the time change, change back and change again while a
generator is under way. `Attempts` is the code's 3. `StaleIsBeingSynced` is claimed
for saves between real times without faults only: a generator that fails leaves
its notice to the reconciliation, and one held back is `EveryNoticeGoes`' matter;
with a fault, a save whose stale reading equals the new time holds nothing and
may leave an outdated notice until the next full hour. Each attempt a generator
loses takes a save of its own, so three saves are the most three attempts are good
for: with a fourth TLC finds `StaleIsBeingSynced` violated, and up to there it is
proved for every instance (section 13).
`CHECK_DEADLOCK FALSE`: saves are bounded and a deleted gathering with no save left
is the end.

**Fairness**: requests and their generators end, the reconciliation and the
resolver cron come again and again, time passes. At `Horizon` the clock stops on a
full hour, so that the reconciliation keeps coming. Faults are finitely many; a
platform that fails for ever delivers nothing.

### What the two violations show

- `sync_unset`. The code leaves what a generator could not do to the
  reconciliation (`EventGatheringSettingsService.ts:226`, `:233`), but `reconcileAll`
  selects only gatherings that have a time. A generator that has read a time, and
  inserts the notice after another save took the time away, throws when it looks
  again; the notice stays scheduled for a time the gathering no longer has, not
  held, and nobody comes back to it.
- `sync_released`. Within ten minutes of `send_at` the reconciliation leaves a
  notice as it is, and lifts its hold all the same: an outdated notice that a
  failed or slow generator left held becomes free to be sent. The test
  「…同期失敗中はCronから除外し、復旧同期後に解除する」
  (`src/test/infrastructure/repositories/EventGatheringNotificationSync.test.ts:95`)
  expects the hold to last until the sync has recovered.

## 6. People and their accounts: `Accounts`, `SignInStates`

### State and code

| Variable | Code |
|---|---|
| `user` | `users`: `status` = `deletion_status` (or none yet, or taken back), `live` = `is_live_active`, `purged` = `purged_at`, `named`: the real name still shows, `by`: the Microsoft account a sign-in made it for |
| `traces` | what other tables say of a user: rows of `staffs`, `teachers`, `students` (with a number a sign-in finds), memberships, audiences, recipients, columns that name the actor |
| `link`, `session`, `device` | `microsoft_account_links`, `refresh_sessions`, `firebase_tokens`: whose each is |
| `marker` | KV `deletion_confirmation:<token>` |
| `bearers` | users that hold an access token, which is checked against the row of the user and never revoked |
| `req` | requests and the daily cron: program counter, user, account, client type, the ids it was given |
| `late` | history: kinds of rows written about a user after its deletion |
| `calls`, `breaks` | bounds: requests made, statements that threw |

A request is a process; every read and every write of `upsertUser`,
`createUserWithMicrosoftLink`, `rotate`, `logout`, `startAccountDeletion`,
`deleteRelatedData` and of the staff and status services is a step, in the
order of the code, with its `WHERE`. The compensation of a failed sign-in
(`UndoUser`) deletes the `users` row, which a foreign key forbids once the row
has become staff or a member. `Break` ends any request anywhere, which is what a
thrown statement or a dead Worker does; `LinkBroken`, `LinkErrorSwallowed` and
`LogoutDeviceFails` are the errors the code catches.

Everything that writes a column or a row the purge is there for is an action: of the
user itself (`UpdateUser`, `Register`, `Command`, `Rotate`, ...), of members and recipients
by a `SELECT` of active users (`AddMember`, `AddRecipient`), and of staff with no regard
for `deletion_status`: the PUT of a student or a teacher (`Rewrite`: `users.user_name`, and
the number of a student), the move of a student to a class room (`MoveStudent`), a
notification for the user (`TargetUser`, which asks for a `users` row only) and `AddStaff`.

`SignInStates` is what comes before: the `state` parameters `/login` and
`/delete-login` store and the exchange consumes. They share no table with the
accounts, so they are a module of their own. An exchanged code is where a
request of `Accounts` begins.

**Abstractions.** Whether the e-mail address of a Microsoft account names a
person is a constant (`Owner`). Access tokens do not expire (that makes more
behaviours possible, not fewer). Which of the free request slots or new ids is taken
makes no difference, so one is. A PUT by an admin is taken to leave the number or the
address the person has (`Owner` is a constant): a number that was made anonymous may come back, none moves to another
person. A resend copies audiences and recipients of a schedule, no users. Messages of errors are left out. `GET /me` and
its photo are not modelled: they refresh what a profile shows.

### Run `accounts`

Two requests in a row or at once, of any kind, by anybody; a student, a teacher, a
teacher that never signed in, room for two new users; five Microsoft accounts,
one of them a second account of the teacher and one a stranger; one failure at
any point; the cron at any time.

| Property | What it is about |
|---|---|
| `NoOrphanUser` | the `users` row and its link are two statements |
| `NotSplit` | a lookup, a check and an INSERT are apart; a person must not become two |
| `NothingOldIsLeft` | the purge by the request and by the cron interleave and die; `purged_at` must come last. What is written after the deletion is the exception, by kind: the code keeps neither requests authenticated before nor the PUTs of an admin out (section 14) |
| `OthersUntouched` | ids from clients and ids read earlier may belong to somebody else by now |
| `SomeStaffRemains` | two members of staff revoke or suspend each other |
| `EveryDeletionCompletes` | whatever died, the cron finishes the purge |

**Bounds and why they are enough.** The hazards are pairs of requests on one row:
two sign-ins of one account, a sign-in and the deletion of the user, a deletion and a
write authenticated before it, two revocations. Two calls with the cron as a third
process give all pairs. The safety properties are proved for every instance.
`CHECK_DEADLOCK FALSE`: with the calls used up and everything purged nothing is left.

**Fairness** (`AccountsFairness`): the cron runs every day (`StartPurge`) and
finishes what it starts unless it dies (`PurgeStep(Nightly)`), which counts as a break.
Requests are under no obligation: a request may stop half way for ever, and the
deletion is completed all the same.

## 7. Master data: `Masters`, `MasterImport`

`Masters` has the three tables with their `lock_version`, one `editor` per open
screen (what was read: version, name, the rooms or the reference shown) and one action
per batch that writes: POST, PUT with and without a version, PATCH, DELETE,
imports, suspensions, renaming by sign-in, anonymizing, and the deletion of a team, which counts
its rooms on (`RegroupRooms`). The version of a teacher
is bumped by every write to a room that concerns the teacher
(`bumpTeachersStatement`); that is what `MastersSavedAsRead` is about: the rooms an
editor was shown come from a query of their own, and only the discipline
of every other writer makes the version stand for them. A room whose teacher is
suspended is shown without one, and a save must not take away what it did not show.

`MasterImport` has the session in KV (`fileSession`), the rows in D1 (`stored`), the
Durable Object (`lock`: token and since when) and two requests that commit
(`committer`). The lock lapses after `LockTimeout` while its holder may still
write. A statement may throw at any point, with or without having taken effect: the `catch` takes
back what it knows of, which may itself fail half way (`BatchFails`, `UndoFails`), and the `finally` releases the
lock; only an invocation that dies leaves it locked (`CommitDies`). Students are written in one batch, class rooms in chunks that are taken back
when a later one fails, teachers in one batch after another with their `users` rows. Properties:
`FreshCommitIsExclusive` (nobody within the time shares it) and
`CommittedMeansImported` (a session that says committed has all its rows stored,
even though two commits may overlap after a lapse and one may take back rows).

**Bounds.** One editor against every other writer, two rows per table: versions
compare one reading with one row. Two committers, two rows (one chunk written,
one failing), a lock of one tick. All three properties are proved for every instance.

## 8. Teams: `Teams`

`squad` is `teams` joined with `team_scores`, `inTeam` is `class_rooms.team_id`,
`teamReq` what a request has read before it writes. `updateTeam` is five steps: rename, read
the current rooms, put each room let go into a provisional team, read the previous teams of the
new rooms, attach them and clean up. Deleting a team is one batch. An import of class rooms
(`ImportClass`, a chunk of one room) is taken back in two statements, the rooms by code and then the teams by name
(`TakeBackClasses`, `TakeBackTeams`); only the foreign keys keep the second from a team that was scored or given a
room in between. `ScoredTeamKept`: a team
with a score neither disappears nor is broken up, whoever scored or moved rooms in
between, and no room is in a team that is not there. Two requests under way,
two rooms, three ids: one team to take from, one to give to, one provisional. Ids are not used
again; scores are 0 or 1, as only zero is asked about. The ranking is a query over the scores.

## 9. Members of a gathering: `GroupMembers`

A PUT reads the members and writes the difference, so overlapping PUTs mix; the code
says so. `RosterBetween` says how far: at rest the members lie
between the intersection and the union of what the last PUT and those it overlapped
asked for, so that a repeated PUT (a double click) leaves what it asked for; and nobody purged is a
member again, though the check of the users is a statement of its own. Two PUTs, two
users, one gathering; users and gatherings are treated alike.

## 10. Places: `Places`

`row` is events (with `event_venues`), venues and spots; `refs` what refers to them;
`bucket` the objects in R2; `imageReq` requests that replace or delete an image or remove a row,
each call to D1 and R2 a step; `rowEditor` a form that saves with a version.

- `ImagesMatchRows`: an image a row shows is stored, unless the answer to the `UPDATE` that
  named it was lost (`doubted`, a history variable): then the `finally` of `setImage` deletes what the row
  now names. No other failure has that effect. And as long as nothing failed, an image of a place that is there is shown by it or in the hands
  of a request.
- `RowSavedAsRead`: a save with a version finds the row it read (its venues and image
  too, which are written by others and in other statements) and applies in
  full.

One venue, one spot, one event, two requests, four image keys (two at rest and two under
way), three turns and one fault: the races are about one key of one row, and a third replacement needs the
first to be done. A call of `replaceImageKey` fails before its commit (`ReplaceFails`) or after it
(`ReplaceAnswerLost`).

## 11. What is shown: `NotificationViews`

Each list is an operator over the tables: the admin list with filter, sort and page,
the detail with its counts, the calendar, the results of a schedule, the progress, and the history
of a participant. The tables change by the transitions the other modules have (create,
resend, resolve, settle, move, cancel, stop, delete, purge). The page of the admin list is
read in several statements and the model keeps them apart (`ReadCount`, `ReadIds`,
`ReadItems`); so it does with the rows and the total of a history, two queries under one `Promise.all`
(`ReadHistoryRows`, `ReadHistoryTotal`, in any order). The admin list compares instants (`julianday()`,
`Between`), the calendar whole seconds (`datetime()`, `BetweenSeconds`). `ViewsAgree`: over the same tables the
history lists every notification received once and its total
says the same, although a resend may have reached others; a history that is answered
lies, as long as the user is not purged, between what it was when it was asked for (`had`) and what it is
now: a page ends short of its limit only where the history did, and shows nothing twice (`HistoryAnswered`); counts of recipients add up and agree with
the results and the anonymized; a page keeps the order of its ids though items vanish
meanwhile; as long as nothing changes, the pages that are announced (`TotalPages`) hold every notification found
exactly once and none of them is empty; what the list shows of a schedule the calendar shows too, what the
calendar has beyond the list lies in the second of a bound, and each of its schedules is in the detail of its
notification. Two notifications, two schedules, one participant with
two devices, four changes, two instants to a second with a bound in the middle of one: enough for a resend that reaches somebody else, for a deletion between
two reads, and for a schedule in the same second as a bound but after it. List and history are two parts of the
run, as no property is about both requests at once. Views of one schedule do not depend on more than these.

## 12. The FCM client: `FcmClient`

`cached` is the token with its times, `exchange` the request for a new one that everybody
awaits, `send` the sends: `ensureConfigured` takes a token, drops it, and
`sendNotificationToToken` takes it again. `TokenInTime`: FCM never gets a token that has
expired, however long exchange and send wait, and whoever waits does so for an exchange that
is under way. 3600, 300 and 30 seconds shrink to 4, 2 and 2 ticks, which keeps
`FetchTime <= Margin` and that two fetches fit into the life of a token (the
assumption `FcmConstants`); proved for all such values.

Run `records` checks sections 7 to 12 with `SignInStates`, one part per behaviour.
`CHECK_DEADLOCK FALSE`: each part stops at its bounds (changes, turns, clocks).

## 13. Theorems

Each holds for all values of the constants under the assumption of its module,
which TLC evaluates on every run: `PushConstants` (finitely many deliveries,
positive offsets within the window, natural delays, at least one row per batch),
`ScheduleConstants` (`First` is a schedule, `Everyone`, `Source` and the users are
different kinds of target), `SyncConstants` (times are numbers, `Unset` and `None`
are not, at least one attempt).

**`PushDelivery`**

- `SpecTypeOK`. Not inductive from the column types alone: lease and window
  comparisons need times that may be `NULL`. The strengthening `TimedRow` (a row
  in flight has both times) closes it; one lemma per action, over lemmas on
  the row operators.
- `SpecStatusesAgree`. Inductive with `TypeOK`: each writer of a row checks the
  schedule in the same statement. The delicate cases are preparing (rows and
  status in one batch), saving a retry after a stop, and completing.
- `SpecAttemptsBounded`. A claim increments only below the bound; a reset gives 1.
- `SpecImplementsLifecycle`. Initial states map to initial states and each action
  to a step of `PushLifecycle` or a stutter; needs `StatusesAgree`, since a row
  that is settled late must not be one whose schedule never started.
- The other four are about a consumer and a row at once. `Deals` says what any step
  does between one delivery and all consumers: time passes, or the step is `Quiet` for the delivery
  (nobody begins to deal with it, and its row stays, is prepared or is given up), or one consumer
  claims it, reads it back, renews, is answered or ends its job. Each invariant is then
  a matter of these few shapes, not of every action.
- `SpecNoStrandedDelivery` rests on `WaitsTimed` (a row in `retry_wait` has `next_retry_at` and
  `first_attempt_at`, else no clause would ever match it), `StatusesAgree` and `AttemptsCounted`.
- `SpecHonestOutcome`, for every set of answers, rests on `Honesty`: while no lease has lapsed and no answer was
  lost, whoever deals with a row is its only holder and the row is in flight, and FCM took the message only
  if that is written down or still about to be. `sent` is honest even then: only a job that was answered writes it.
- `SpecFenceNamesHolder` and `SpecFreshLeaseIsExclusive` assume that FCM reports no configuration error
  (`push_overtaken` shows why the first needs it). They rest on `Fenced`: a job carries no later attempt than the
  row, and the same one only while its consumer holds the row under the lease it took (`JobFenced`). The delicate
  step reads a claim back by its time alone, which another consumer could have written too: whoever overtakes
  has an earlier clock, also by way of `retry_wait` (`ClaimFenced`).

**`NotificationSchedule`** (`NotificationScheduleProofs`)

- `SpecTypeOK`, with `BusyResolver`: a resolver at work has a schedule in hand.
- `RowInv` relates the columns of a row: resolving, sending and resolved rows have
  started, a scheduled one has not, what has not started has settled nothing, what
  has is still there, and no id exists before the notification. From it
  `SpecUnstartedReachedNobody`, and, step by step (`RightStep`),
  `SpecStartedIsKept`, `SpecRecipientsClosed` and `SpecHeldNeverStarts`: each is what
  some guard repeated in the batch buys over the check before it.
- `SpecNobodyForgotten` rests on `CoverInv`: a user meant all the time is a
  recipient or still belongs to an open audience, and a target that is gone has no
  users. `LeavingCover` is the step where users leave a target under the resolver's
  hands.
- `SpecImplementsNoticeLife`, step by step, from `RowInv` and `OwnerInv`: a schedule
  belongs to a notification that is there, and staff are not deleting an automatic one. Most steps
  leave what `NoticeLife` sees of a schedule alone (`RewrittenAtMost`) or end schedules that
  have not started (`WithdrawnImplements`); the claim, the creation, a resend, a hold and the
  clean-up are steps of their own. `SpecNothingWaits` is inherited from `NoticeLife`.

**`GatheringSync`** (`GatheringSyncProofs`)

- `SpecTypeOK`, with `CountedGen`: who is about to use up an attempt has one left.
- `NoticeInv` gives `SpecAtMostOneNotice` and `SpecNoOrphanNotice`: the count of
  notifications says nothing about the next INSERT, unless what was created is
  still there or its gathering is gone for good (`CountsNotice`); and a resend has
  its notification (`ResendHasNotice`), which `SpecFrozenOnceStarted` needs, since the
  INSERT does not ask whether anything has started.
- `SpecImplementsNoticeLife`, from the same invariants: `NoticeOnly` says what a step that
  keeps the gathering and the resend may do to the notice; saving, deleting and the resend are apart.
- `SpecSyncedWhileAttemptsLast` and `SpecStaleIsBeingSynced`, both for runs without faults and saves
  between real times. `SyncInv`: when the notice is missing or outdated (`OutOfSync`), a saver has yet to look again
  with the attempts it may need, one more if it was overtaken and one more while the cron may still write an outdated time
  (`SaverWillSync`, `CronMayStrike`), or the cron itself is going to put it right (`CronWillSync`).
  Who could spoil it is a generator that gives up: the first theorem excludes that by its
  hypothesis (`AttemptsLeft`, about the behaviour) and allows any number of saves, the second counts (`CountInv`):
  whoever has lost n attempts has seen n saves applied since its own, and those still to be applied are a finite set.
  With `MaxSaves <= Attempts` none gives up. The bound is tight: TLC violates the
  property with `Attempts + 1` saves of two requests.

**`Accounts`** (`AccountsProofs`)

- `AccountsTyped`, with `AccountsInv`: a request that has passed its lookup carries a
  user (`Sound`), a request purging is about a user who is gone (`PurgesGone`), a rotation is of
  the session it was given (`RotatesOwn`).
- `StaffRemains` and `OthersAreUntouched` are action properties: who writes `staff`,
  `live`, sessions and devices (`OnlyTheyWrite`, `OwnKeysOnly`), and what their conditions buy.
- `PurgeLeavesNothingOld` rests on `PurgeInv`: for every place in the purge what is already gone
  (`Behind`), for a purged user everything (`Clean`), and sessions by the request alone
  (`SignedOut`). The request and the cron may both be in the middle of it, so each fact must
  survive the steps of the other, and the PUTs of an admin (`Renamed`), which may bring a name back
  that is then known to be late.
- `PersonsAreWhole` and `UsersAreLinked` rest on `MadeInv`: a request that is making a user is
  still at work on it (`Making`, `Handled`), a request that is about to link names the person the
  account belongs to, and whoever is making or has made a user for an account finds its person gone (`Alone`).

**`Masters`** (`MastersProofs`): `MastersTyped`; `MastersSaved` rests on `MastersInv`, by which a
reading whose version is still that of its row is what the row holds (`RowsSeen`), and every teacher a room names has
its row (`TeachersThere`).

**`MasterImport`** (`MasterImportProofs`): `ImportFreshCommitIsExclusive` rests on `LockInv`
(`HoldsWhileFresh`: who is within its time has its token in the lock);
`ImportCommittedIsStored` on `RowsInv`: what a commit has yet to write and what is stored make up the
file (`RestOfFile`), and chunks one commit would take back are not those another one
relies on (`Apart`).

**`SignInStates`, `Teams`, `GroupMembers`, `Places`, `FcmClient`** (`RecordsProofs`)

- `StatesExchangedAsMade`: ids come again, so `SignInInv` speaks of the states stored: no two ids have the row
  of one (`OneRowEach`), and a state that was exchanged has a row no more (`ConsumedOnce`).
- `ScoredTeamsKept`: `TeamsInv` says that rooms are in teams that are there (`Housed`) and that those have a
  name of their own (`Named`). `CleanedUpKeeps` is the lemma about the clean-up: given where the rooms are
  after the statement before it in the batch, it takes no team that has one and none that has a score.
  That batch is why a score added after the check made earlier is safe. `TeamsConstants` gives the first
  rooms a team each.
- `RostersBetween`: `RosterBetween` speaks of gatherings at rest and is not inductive. `GroupInv` has it while
  PUTs are under way: after the first answer of those that overlap the members are
  in between (`MembersBetween`); before it every PUT under way still knows them (`Known`: who is a member it
  either asked for or takes away, and whom it asked for is one or is added).
- `RowsSavedAsRead`: a version stands for one content of a row (`RowGoesOn`), so what an editor
  was shown is what the row holds as long as the version is the same (`SeenHolds`).
- `ImagesMatch`: `ImageInv` says who has which key. A new key is named by nobody and in nobody else's hands
  (`NewApart`, `NewImage`), so that undoing one request takes no image of another; a key that is dropped
  is named by nobody any more (`OldImage`); a stored one belongs to a row that was created (`Stored`). A key whose
  naming was not answered is taken back although a row names it; the theorem says so (`doubted`) and says that
  this is the only way to lose an image that is shown.
- `FcmTokenInTime` rests on `FcmInv`: a cached token lasts beyond its margin, an exchange is no older than a
  fetch may be, and whoever waits has one to wait for.
- `SpecViewsAgree` is about what is read, not about who writes: of the tables it needs that there are finitely many
  rows at any time and that a schedule belongs to a notification that is there (`TablesInv`), and that nothing
  unsent has recipients (`UnsentUnread`), so that what a user has received is only ever added to
  (`ReceivedStays`, `HistoryGrows`) until a purge; `HistoryInv` carries that over the two reads of a history
  (`RowsRead`, `TotalCounted`, `ToldKept`). A list is what
  `OrderBy` chooses; `SortedExists` shows that a finite set can be sorted by any strict total order (`Orders`; an
  element goes where the number of those before it says) and `SortedOnce` that a sorted list has every row once (`Lists`).
  Each `ORDER BY` then owes that it is such an order: the representatives of `Ordered` exist only because
  `Nearer` is one. `ListingInv` carries the ids of a page from one read to the next (`PlacedInOrder`).
  That the pages are a partition is arithmetic (`PageOfPlace`, `OnePagePerPlace`, `PagesAnnounced`) over what a page
  holds (`PageRows`).

Only model-checked: liveness
(`EveryDeliverySettles`, `EveryScheduleEnds`, `EveryDueScheduleGetsOn`, `EveryNoticeGoes`,
`EveryDeletionCompletes`), which with fairness and `ENABLED` is outside the prover's reach.

## 14. Met on the way

Not stated as runs, since no text of the repository promises otherwise or the text
itself names the case; a reader of the code may want to know.

- `updateClassRoom` of a student (`infrastructure/repositories/StudentRepository.ts:452-478`) does not bump
  `lock_version`, against the comment at `:373`; a form opened before it saves over the move.
- A sign-in between the DELETE of the links and the UPDATE of the status of a deletion links the
  account again; the link stays with the deleted user, and the person is refused until it is removed.
- The PUTs of students and teachers (`infrastructure/repositories/StudentRepository.ts:364-440`,
  `TeacherRepository.ts:525-680`) and the audiences of a notification do not ask for `deletion_status`: an admin whose form was opened
  before writes the name and the number of a purged person back, and `purged_at` keeps the cron from coming again.
  `NothingOldIsLeft` excepts what was written so.
- An unknown error while linking a student is swallowed and a second user is made
  (`NotSplit` excepts it).
- If the compensating DELETE of `createUserWithMicrosoftLink` fails, or the row has become
  staff or a member, the row stays without a link (`NoOrphanUser` excepts it).
- A commit of students that is repeated after its lock lapsed overwrites
  `committed_result` with zero imported rows. Two uploads of one file are two sessions with two locks.
- Attaching class rooms to a team does not bump their `lock_version`.
- `updateTeam` puts a room that left its team meanwhile into a provisional team, out
  of its new one; and a team whose last room was taken between `ReadPrevious` and `Attach` may stay empty.
- The admin list counts a recipient whose deliveries are all pending as failed.
- An image that is replaced while its venue is deleted stays in R2 for ever.
- If the answer of `replaceImageKey` is lost after its commit, the `finally` of `setImage`
  (`application/services/PlaceImageService.ts:92-97`) deletes the image the row now names (`ReplaceAnswerLost`);
  `ImagesMatchRows` excepts exactly these images.
- A schedule with milliseconds in the second of a bound is in the calendar
  (`NotificationScheduleQueryRepository.ts:96-98`) and not in the admin list of the same dates
  (`AdminNotificationQueryRepository.ts:121-130`). Rows and total of a history are separate reads, so a total may
  count a notification more than the rows have, or one fewer.
- `deleteClassRoomsAndTeamsByInputs` deletes rooms by code and teams by name, whoever made them meanwhile; a scored
  team makes it stop at its foreign key, and the teams of the chunk stay without rooms.
- Two overlapping PUTs of members may leave neither set: `{1, 2}` with PUT `{1}` and PUT `{2}` becomes
  `{}`, beyond the union the comment of `GatheringGroupMemberService` mentions.
- An import of teachers that dies between its batches leaves `users` rows without a role.
- An audience has no foreign key to its event, so an event can be deleted
  although an audience was created for it meanwhile (`EventRepository.ts:328-347`).
- `bearerAuthentication` lets a request on unauthenticated when D1 fails (`:55-61`); handlers that need a
  user refuse it.
- Count and ids of the admin list are separate reads; a total may differ from what the pages hold.

## 15. Not modelled

The HTTP layer with DTOs, OpenAPI and wiring (parsing and mapping of errors),
signing and verification of tokens (bytes), calls to Microsoft, parsing of
import files, rendering of the lists of the master data screens. Overlapping invocations of one cron are
left out of `PushDelivery`: each of their statements has the guards the consumers
race against. Overlapping resolvers are modelled; the reconciliation is one. A save
of several gatherings at once is left out of `GatheringSync`: they share no row but the
`lock_version` of the event. The lock of a Durable Object is taken to be as
single-threaded as the platform says.
