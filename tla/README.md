# SignalHub: a TLA+ verification project

SignalHub is a multi-tenant status page server: a Next.js application, a worker
process built on Graphile Worker, and PostgreSQL between them. This directory
holds TLA+ models of its concurrent core, the TLC configurations that check
them, and TLAPS proofs. Every definition is translated from the TypeScript
source; `PROJECT.json` maps each to its lines.

## 1. The system

All state is in PostgreSQL. Server actions (organization console, platform
console, API) and worker sweeps change it in transactions at READ COMMITTED.
Nothing else coordinates them, so the interesting questions are which
transactions may fall between two transactions of one operation, and which
`WHERE` clause or row lock protects a late write.

| Component | State it keeps | Operations | Correct means |
|---|---|---|---|
| Organization life cycle and purge (`orgs/actions.ts`, `operations/actions.ts`, `worker/platform-jobs.ts`, `lib/cascade.ts`) | `organizations`, `platform_jobs`, stored files | suspend, reactivate, request, cancel, retry a purge; lease, heartbeat, delete files, final transaction, fail | a purge that may have removed data is never undone; the job and organization rows agree; only the current lease holder deletes |
| Notification queue (`worker/notifications.ts`, `lib/notify.ts`) | `notification_jobs`, `notification_logs`, quarantined subscribers | dispatch, lease, deliver, commit, block; operator retry; hold and release on suspension | attempts and log agree; nothing is recorded while inactive; sent is final; every delivery settles |
| Monitor pipeline (`worker/monitors.ts`, `monitors/actions.ts`) | `monitors`, `monitor_checks`, the linked incident | lease, check, commit, open/link/resolve incident, reconcile, release; run now, pause, edit, delete | counters describe the recorded checks; thresholds; incidents opened are closed; a due monitor is checked |
| Incidents and component status (`lib/domain/incidents.ts`, `lib/component-status.ts`, `lib/incident-validation.ts`, `incidents/actions.ts`) | `incidents`, `incident_updates`, `incident_components`, `components.status`, status events | create, update, edit the details or an update, set a manual status; reconcile | the worst active source is shown; incident and timeline agree; a resolved incident is final; no correction is overwritten |
| Scheduled maintenance (`lib/domain/maintenance.ts`) | maintenance rows of `incidents` | schedule, transition, remind, delete; the sweep | one reminder, before the work; no step twice; a window past its end completes |
| Audit hash chain (`lib/audit-integrity.ts`) | `platform_audit_logs`, `audit_chain_states` | write, seal, prune, verify | an untouched chain verifies, a damaged one does not |
| Data exports (`worker/exports.ts`, `settings/actions.ts`) | `data_export_jobs`, archives among the stored files | request, lease, build, store, complete, fail | one unfinished export at a time; a finished one keeps its archive; none is stranded |
| Job scheduling (`worker/tasks.ts`, `lib/jobs.ts`) | Graphile jobs with one key per task | schedule the successor, run, nudge | the chain of sweeps never ends |
| Platform settings (`lib/settings/*.ts`, `lib/proxy-trust-store.ts`) | one row with the settings and the change on trial, a copy in each process | apply, save, confirm, revert, expire, import, reset, refresh | a trial ends and goes back to what was last confirmed; all processes end with what is saved |
| Team ownership and memberships (`team/actions.ts`, `users/actions.ts`, `lib/team-owner-safety.ts`, `lib/scim.ts`, `lib/identity-connections.ts`) | `users`, `memberships`, `external_identities` | create, change and remove members, disable and delete accounts, provision, synchronise, sign in | the pages leave an enabled administrator; revoked access comes back explicitly only |
| Multi-factor authentication (`lib/mfa/*.ts`) | devices, recovery codes, the wrong-code counter, `mfa_requests` | set up, confirm, remove, verify, mail, ask for removal, decide, expire | at most two devices, one at least once enrolled; every wrong code counts; one decision |
| Uptime arithmetic (`lib/status.ts`), retention (`lib/retention.ts`) | `component_status_events` | day buckets, averages; deletion by age | the bars say what happened, each moment counted once; a deletion leaves the days within the retention alone |
| Page design (`SimpleAppearanceEditor.tsx`, `AssetUploader.tsx`, `design/actions.ts`, the assets route) | the browser's editor; `pages`, `page_design_drafts`, `page_design_versions`, `assets` and their files | edit, autosave, publish, upload; sweep unused images | nobody's work is replaced unseen; the label is true; images in use are kept |
| Lease heartbeat (`worker/lease-heartbeat.ts`) | timer, in-flight renewal | tick, stop | no renewal after stop |
| Mutation fence (`lib/organization-mutation.ts`) | row lock on the organization | fence | no tenant mutation commits while inactive |
| Audit delivery, sessions, password reset, one-time codes, subscriptions, rate limits, identity protocols | tokens, counters, delivery jobs | issue, consume, expire, deliver | single use; bounded attempts |
| Public pages, console, installation | none of their own | read and render | outside this project |

**How they interact.** A suspension, reactivation or purge is one transaction
on the organization row. Tenant mutations *fence*: they lock that row and refuse
unless it is active. Sweeps cannot hold a lock across network calls, so they
*lease* a row (`lease_owner`, `lease_expires_at`), work from the copy, and make
every later write conditional on still owning it; a heartbeat renews the lease.
The monitor pipeline calls the incident functions (a fenced transaction of their
own), which reconcile the component and dispatch notifications; without incident
automation it dispatches unfenced. Every part writes audit rows; the seal task
chains them.

**What is hard** is listed line by line under `hazards` in `PROJECT.json`:
work done from a stale copy of a row, an operation of several transactions
failing in its middle, a lease that moves on while its old holder still runs,
a suspension between a check and the write it guards, attempts counted at the
lease or at the commit, reads that are not one snapshot, and lock orders.

Several sweeps of one task at the same time: Graphile runs a task's jobs one
after another (`queueName`), but a stopped or stalled process and one that is
shut down forcibly lose their place while their code may still run. The code
guards every write with the lease for that case, and the models take two
concurrent sweeps as the normal state of affairs.

## 2. The modules

| Module | Models | Run |
|---|---|---|
| `OrgLifecycle` | one organization, its purge jobs, the purge sweeps | `org_lifecycle` |
| `DeliveryContract` | what the queue promises, without sweeps, leases or clocks | used by `queue` |
| `NotificationQueue` | the queue, extending `OrgLifecycle` so that suspension, reactivation and deletion act on both; implements `DeliveryContract` | `queue` |
| `MonitorPipeline` | one monitor, its sweeps, incidents and component, the operators | `monitor` |
| `AuditChain` | the sealed audit log | `audit` |
| `StatusBoard` | incidents, maintenance windows, component statuses, the operators and the maintenance sweep | `board` |
| `SettingsTrial` | the settings row, the change on trial, the processes' copies | `settings` |
| `DataExports` | the export jobs, their archives and the chain of sweeps | `exports` |
| `TeamAccess` | accounts and memberships, the console, SCIM and sign-ins | `team` |
| `Mfa` | one person's second factor | `mfa`, `mfa_swept` |
| `Uptime` | status intervals, day buckets, averages, retention | `uptime` |
| `PageDesign` | one page's draft, versions and images, the tabs that edit them | `design` |
| `*_proofs` | theorems about the module they are named after, and their proofs (section 4); `NotificationQueue_proofs` also has those about `OrgLifecycle`, `Administration_proofs` has those about `TeamAccess` and `AuditChain`, `Sweeps_proofs` those about `DataExports` and `Uptime` | proved with TLAPS |

Each `MC` module adds what only TLC needs: symmetry sets, and constants that a
configuration cannot write. The other runs instantiate their module directly.

**Conventions.** An action is one transaction, one statement outside any
transaction, or one external call. Expiry times become Booleans: `live`, the
lease has not run out; `due`, the row may be taken. A program counter and the
leased copy of each sweep are in `worker` (`pworker`). The environment
contributes expiring leases, elapsing backoffs and crashes. A lease that runs
out although its sweep is alive and should have renewed it is a *stall*; stalls,
crashes and failing statements are *faults*, bounded by `MaxFaults`.
Definitions commented *Mutant* are plausible bugs of the definition that
follows them; nothing refers to them, but each property is shown to fail when
one of them takes that definition's place.

### OrgLifecycle
`org` is `organizations.status` (GONE: row deleted), `pjob` the `platform_jobs`
rows by creation order, `assets` whether a stored file may be gone, `pworker`
the sweeps. `leasePlatformJob` counts the attempt at the lease. `HoldsPurge` is
the `WHERE status = 'PROCESSING' AND lease_owner = worker` of `recordScope`,
`finalize`, `failPurge` and the renewal. `FinalizePurge` is the last
transaction of `deleteOrgCascade` as a whole, rollback included.

### NotificationQueue
`job` is a row with `hold` for the text of `lastError` that `reactivateOne`
compares; `logged` counts its `notification_logs` since the row was last
queued; `accepted` remembers the provider's acceptance and exists only to state
a property. The sweep is split at every statement: check active, deliver,
re-check, renew, read in the commit's transaction, guarded write, block.
`Announce`/`DispatchUnfenced` are a monitor run that saw the organization active
and inserts later; `DispatchFenced` everything else. `Suspend`, `Reactivate` and
`Finalize` are the `OrgLifecycle` actions with the rest of their transactions.

### MonitorPipeline
`monitor` is the row, `checks` its recorded results, `incident` the incidents it
opened, `other` any further source that impairs the component, `impaired` whether
`components.status` is not operational. A sweep keeps the leased counters in
`worker`. Sources are reduced to impaired or not: "the worst wins" becomes a
disjunction. Expiry warnings and metrics touch none of this state.

### AuditChain
SHA-256 is taken as injective: a hash is the sequence of everything it was
computed from. `Stamp` and `Store` are apart because `createdAt` is set when a
row is built and the row becomes visible when its transaction commits, so rows
appear out of order. `verifyAuditScope` is `VerifyState` and `VerifyRows`, its
two reads.

### StatusBoard
`event` holds the rows of `incidents`, windows included (the table is shared),
with their components and timeline; `component` the manual value, the effective
status and the `isMaintenance` flag of the open status event. `WorstStatus` is
`calculateReconciledStatus` with its severities, `Reconciled` the rest of
`reconcileInTransaction`, its early return included.

Every transaction fences, and the fence updates the organization's row, so that
from there to the commit it is alone: that part is one action (`Commit`). What
comes before the fence is a step of its own (`BeginRow`, `BeginStatus`,
`SweepBegin`): `addIncidentUpdate`, `transitionMaintenance`,
`sendMaintenanceReminder` and `setComponentStatus` lock their row first and
check it, the others fence first. `tx` records who holds which row, `Free` is
the row lock, and a transaction that would wait for itself is aborted, as
PostgreSQL does (`Abort`, `SweepVictim`, `DeleteMaintenance`). Two forms of the
console live in `tx` too: they remember the update they show and its version
(`editedAt` as a count of edits). The sweep reads its candidates (`SweepStart`)
and works through them with what it read.

Left out: impact and page-wide scope, which only relax the validation; wording;
visibility and postmortems; monitors, which `MonitorPipeline` has. IDENTIFIED
is treated like INVESTIGATING by all of this code and stands behind it.

### SettingsTrial
`row` is `platform_configuration` "global" without `settingsPending`, which is
`pending`: the snapshot to return to and the ticks left. A request is its read
without a lock and its write, which takes the row's lock and commits; `clean`
says that nobody committed in between. `copy` is the copy of the row that each
process works with, refreshed by its timer (`Expire`, `Load`) and changed by the
process's own saves before their commit: `Fail` leaves it changed. Of the
settings only two matter: one that can lock the administrator out and one that
cannot. An import or a reset by `signalhubctl` ends a trial and counts as kept.

### DataExports
`jobs` are the `data_export_jobs` rows, `files` the archives, `worker` the
processes with the step of `drainDataExportJobs` they are at. Graphile Worker is
external: `keyed` says that a job with the sweep's key waits, `lock` who runs the
queue's job and whether it would be repeated. `AddJob` is `add_job` with
`job_key_mode` "replace": the running job loses its key and its retries. A dead
worker's queue is unlocked after hours (`Unlock`).

### TeamAccess
A transaction is what it locks, reads and decides at its beginning and its
`Commit`; in between others commit (READ COMMITTED), as long as they do not need
its rows. `rows` are the locks it holds, `awaited` those it needs for its writes;
a transaction that PostgreSQL aborts for a deadlock is `Rollback`. The console's
transactions share the advisory lock `AdminLock`; SCIM and sign-ins do not take
it. INVITED memberships exist in the schema only; no code creates one.

### Mfa
`active` and `pending` are the devices, `codes` the unused recovery codes,
`reveal` the mails left for showing them, `attempts` and `locked` the wrong-code
counter, `requests` the removal requests. Every operation is a transaction that
locks the user's row first (`UserFree`); those that read before the lock, and
the hourly sweep, which takes none, are split. Which code is right is the
environment's choice.

### Uptime
`events` are the `component_status_events` of each component, a set of rows (two
rows that are alike count once in the code's merge as well). `component` has the
sources of a status: the manual value, the worst of incidents and monitors, and
whether a maintenance window runs. `Reconcile` is `reconcileInTransaction`, its
early return included, so that an interval keeps the `isMaintenance` it was
opened with. `lived` is the history the log is compared with: at each unit of
time the status, whether it was maintenance, which is read from the sources
(`Present`) and never from the log, and whether a window has begun or ended since
the status last changed (`steady`). The operators from `ShownDays` to
`GroupUptime` are those of `lib/status.ts` and of the component list: clipping,
sorting, merging, the colour of a day, the average of averages, with percentages
as exact fractions. `InOrder` is any order the sort may give. Processes stamp with
clocks that may differ by `Skew`.

### PageDesign
A design is a look and one image (for logo, icon and cover). Browser and server
are both modelled: `editor` is the component's state, `calls` its server actions
in the order they were sent, the first being at the server, since Next.js sends
one tab's actions one after the other. A click on "Publish changes" is a save
whose answer triggers the publishing, with the design of the click. The
publishing is one transaction; the sweep of unused images that follows it in the
same action is one step per read and per deletion (`sweep`). An upload keeps the
design of its start, as the callback in the browser does. `Kept` orders versions
by number where `pruneDesignHistory` orders them by `published_at`: the two agree
unless the clock of a web process runs backwards between two publishings. `seen` and `mishaps`
are histories that exist to state properties.

## 3. What is checked

Every property is described where it is defined. `RecordsAreTrue`,
`IncidentsAreTied`, `ValidIffUndamaged`, `IncidentsAreSound`, `LimitsHold`,
`BarsAreRight` and `RowsAgree` begin with the type invariant of their module.

- `PurgeIrreversible`: no sequence of crashes, retries and re-leases lets
  `cancelPurgeOne` hand back an organization that may have lost files. It rests
  on `startedAt`, since a retry sets `attempts` back to 0.
- `PurgeTracksOrganization`, `StaleSweepNeverFinalizes`: the rows agree and a
  replaced sweep deletes nothing.
- `RecordsAreTrue`: the attempt counter is read before the delivery and written
  after it, and still no attempt is lost, doubled or overwritten, SENT means
  accepted, and nothing outlives the organization.
- `ImplementsContract`: the queue refines `DeliveryContract`, in which nothing is
  recorded while the organization is inactive, sent is final, and what a
  suspension holds its reactivation releases. `commitNotificationOutcome` reads
  the organization without a lock; this holds because `suspendOne` takes the
  lease away in the transaction in which it suspends.
- `StateFollowsChecks`: written from a stale copy, the counters and the down
  state always describe the checks on record; the reference looks for runs of
  failures and passes in the whole history.
- `IncidentsAreTied`, `ActiveSourceIsShown`: without edits and faults a down
  monitor has its incident and an open incident its monitor; at every instant an
  open incident shows.
- `StatusIsWorst`: whatever order incidents, windows and the manual value change
  in, each component shows the worst of them at every commit.
- `IncidentsAreSound`: an incident agrees with its newest update and an open one
  satisfies the form's rules, through posts and edits of any update.
- `EditsAreSafe`: of two forms open on the same update only the first can be
  saved, a resolved incident keeps its status and scope, and nothing moves while
  the organization is suspended, transactions under way included.
- `PostsTellOneStory`: the sweep decides on rows it read earlier, and still no
  reminder follows the start and no window is started or completed twice.
- `ValidIffUndamaged`: verification at one instant succeeds exactly on untouched
  chains, whatever order rows were committed, sealed and pruned in.
- `LockoutIsKept`: whatever is tried, prolonged and abandoned, the settings that
  can lock the administrator out return to what somebody confirmed. It excludes
  behaviours in which a request writes after its read was overtaken: see below.
- `ServersConverge`: also a process whose own save was rolled back ends with what
  is stored.
- `FinishedIsFinal`: a worker that outlived its ten minutes touches neither a
  finished export nor its archive. `SweepGoesOn`: at every moment a sweep waits
  or one that would be repeated runs, whichever step a worker dies at.
- `ConsoleKeepsAdmin`, `RevocationHolds`: two organizations cannot remove each
  other's last administrator through the pages; revoked access and disabled
  accounts do not come back through a sign-in, a profile edit or a group update
  that runs at the same time, and who leaves the last organization is disabled,
  unless another membership of theirs changed during the deprovisioning.
- `LimitsHold`, `DecidedOnce`: three requests at once on one person break
  neither the limits of devices and mails nor the count of wrong codes, and a
  removal request is decided once.
- `BarsAreRight`: whatever the clocks do, a day's downtime is the measure of the
  union of its outages. With clocks that agree it also is what the component
  lived: no downtime it did not have, none missing, and the colour of the worst
  that lasted. Two exceptions are part of the property, and of the program: days
  that a retention shorter than the page has cut, and maintenance that begins or
  ends while the component keeps its status. Both are among the disagreements
  below; the instance has both, and the property says exactly which moments it
  exempts (`Vouched`).
- `AveragesAreShares`: the average of a group, over services and then over days
  of different lengths, is the share of all observed time. `SweepOnlyForgets`: a
  retention sweep leaves the days within the retention as they are, and can only
  take downtime away from an older one.
- `RowsAgree`, `LabelIsTrue`, `OnlyKnownWorkIsReplaced`, `KeptImagesAreSpared`:
  the stored design and the editor agree with each other as far as the editor
  claims, unless it was edited during a save or lost an answer; a tab replaces only the draft it has seen; the page changes to what
  was on screen at the click and nothing else; the four unsynchronised reads of
  the image sweep spare what is kept.

**Liveness.** `DeletionSettles`, `DeliveriesSettle`, `DueIsChecked`,
`EntriesAreSealed`, `WindowsComplete`, `TrialEnds`, `ServersConverge` and
`ExportEndsUnlessLost` assume weak fairness of a working sweep's next step, of
expiring leases and elapsing backoffs (clocks advance), of the seal task (cron)
and of each process's settings timer (`setInterval`), and that sweeps keep
coming: `scheduleNext` runs before the work and Graphile retries, which
`SweepGoesOn` confirms for the export sweep without assuming it. A process that
died is restarted by its supervisor. Leasing one given delivery gets strong
fairness: the drain takes the longest-waiting row first, but a row can be
unleasable for a moment whenever an operator or another sweep touches it. On the
board, a transaction that holds a lock ends one way or the other: its callback
awaits database statements only, a deadlock is broken by PostgreSQL, and a
process that dies drops its connection, which rolls the transaction back.
Operators, producers, crashes and stalls are never fair. `CHECK_DEADLOCK FALSE`
is set where behaviours may end: an organization or every user can be gone, and
the bounds stop the operators and the clock.

**Bounds.** Two sweeps are enough for one to be stale while the other works, and
every guard names one owner.

| Run | Instance |
|---|---|
| `org_lifecycle` | three attempts, two requests, three faults |
| `queue` | one delivery (rows interact through quarantine only), two attempts so that both the retried and the last failure occur, one fault, one purge |
| `monitor` | four checks against thresholds of two, so that it can go down and come up again; two operator edits or suspensions, one fault |
| `audit` | three entries in batches of two, three clock values, one damaged row |
| `board` | two operators beside the sweep, two components, three of the five statuses (the least and the worst severity and maintenance), two incidents or windows, one window shape over three clock values, three operations, suspensions and crashes |
| `settings` | one web process and one worker process, two administrators, one setting that can lock out and the rate limits, two requests that change something besides confirmations and reverts, so that a trial is prolonged, overtaken or confirmed |
| `exports` | two workers, one organization, two exports of two attempts, two faults |
| `team` | two users, two organizations, two transactions at a time, as each counts the other's |
| `mfa` | three transactions at a time, three devices against a limit of two, three wrong codes, two mails, two requests |
| `uptime` | two components (a group with members of different age), three statuses, two changes over four units of time in days of two, three days shown and one kept, clocks one apart |
| `design` | two tabs with two calls each under way, two looks, one image, a history of two versions, three edits or faults in all: three edits prune a version, two leave room for a fault |

**A disagreement with the documentation** is shown by the run that is expected
to find a violation.

- `mfa_swept`: `expireMfaState` deletes setups that were abandoned without the
  user's lock, and `confirmDevice` does not look at the number of rows it updates,
  so a person can be enrolled with recovery codes and no device, where
  `docs/mfa.md` says never fewer than one. `LimitsHold` states the rest: without
  that sweep it is true.

**Further disagreements**, met while modelling. The models contain each of these
behaviours, and the properties above are worded so that they hold beside it.

- A crash in the last attempt of a purge leaves a job that no sweep leases and no
  operator action accepts (`platform-jobs.ts:23`; "queued, and retryable",
  `help-content.ts:902`); the same with exports (`exports.ts`), where
  `DeletionSettles` and `ExportEndsUnlessLost` name exactly that exception.
- A delivery that a sweep set aside while the organization was suspended carries
  another `lastError` than one held by the suspension, and the reactivation
  releases only the latter (`notifications.ts:299`; `platform-status.ts:56`).
- "Run now" between a monitor's commit and the link of its incident takes the
  lease away; the link is dropped and the monitor is down with no incident
  (`monitors.ts:226`, against the comment at 215).
- A recovery is committed before its incident is resolved; a suspension in
  between leaves the incident open (`monitors.ts:245`; `help-content.ts:384`).
- Deleting a monitor that is down does not reconcile its component
  (`cascade.ts:106`; `help-content.ts:232`).
- Verification reads state and rows separately, so a concurrent prune or seal
  makes an intact chain look broken (`audit-integrity.ts:70`;
  `docs/operations.md:22`).
- A request to change the settings that reads before another one commits writes
  the old values of the others back: a save of the rate limits can undo a revert
  that took place meanwhile.
- SCIM and single sign-on do not take the administrators' lock and may remove the
  last one (`docs/options.md:146` describes the console's check).
- Removing a person's last device by an administrator leaves mail challenges and
  open removal requests behind (against the comment at `requests.ts:208`).
- Two organizations that deprovision one user at the same time each count the
  other's membership, and the account stays enabled with none (`scim.ts:171`).
- An edit made while a save is under way is labelled as saved and its timer is
  cleared, so it is not autosaved until the next edit (`help-content.ts:266`);
  a second save sent with the old revision is refused as somebody else's
  conflict (267); edits made during an upload are reverted when it ends; a lost
  answer leaves the editor at "Saving draft"; an upload that is in no draft yet
  can be deleted by another tab's publishing; a publishing whose image sweep
  fails is answered as failed.

- Retention deletes closed intervals by `resolvedIncidentsDays` (30 at least,
  `retention.ts:11`) while a page may show 60 or 90 days. They still feed bars,
  against the comment at `retention.ts:115`, and the outages deleted then count as
  up. `SweepOnlyForgets` says what is left of the promise.
- A window that begins during an outage opens no status event
  (`component-status.ts:119`), so that its time counts as downtime although
  maintenance is excluded according to `status.ts:144`; one that ends under an
  outage leaves the rest of the outage excluded. `BarsAreRight` says what is left.

## 4. What is proved

Every safety property of the passing runs is also a theorem, for every value of the
constants that satisfies the named assumptions of the module (finite sets, limits
that are natural numbers, a "none" that is not one of the values) and nothing
else; in particular a retention may be shorter or longer than a page. The bounds that keep the
runs finite are parameters of the theorems like all others.

| Theorem | States |
|---|---|
| `NotificationQueue_proofs` (organization) | |
| `OrgInvariance` | `OrgInv` and `OrgTypeOK` are invariant |
| `PurgeNeverUndone` | `PurgeIrreversible` |
| `PurgeTracked` | `PurgeTracksOrganization` |
| `FailedIsRetryable` | `ExhaustedIsRetryable` (proved only, no run checks it) |
| `OnlyTheHolderFinalizes` | `StaleSweepNeverFinalizes` |
| `NotificationQueue_proofs` (queue) | |
| `QueueInvariance` | `QueueInv` |
| `RecordsStayTrue` | `RecordsAreTrue` |
| `QueueImplementsContract` | `ImplementsContract`: the initial states map to initial states of `DeliveryContract`, every step to a step of it or a stutter |
| `Sweeps_proofs` (exports) | |
| `ExportInvariance` | `ExportInv` and `TypeOK` |
| `SweepNeverStops` | `SweepGoesOn` |
| `FinishedExportsStay` | `FinishedIsFinal` |
| `Sweeps_proofs` (uptime) | |
| `UptimeInvariance` | `UptimeInv` |
| `DowntimeCountedOnce` | `DownIsCountedOnce`, the part of `BarsAreRight` that asks nothing of the clocks |
| `PagesShowWhatHappened` | `BarsAreRight` |
| `GroupAveragesAreShares` | `AveragesAreShares` |
| `SweptDaysOnlyForget` | `SweepOnlyForgets` |
| `SettingsTrial_proofs` | |
| `TrialInvariance`, `SettingsTyped` | `TrialInv`, `TypeOK` |
| `LockoutStaysKept` | `LockoutIsKept` |
| `Mfa_proofs` | |
| `MfaInvariance` | `MfaInv` |
| `LimitsAlwaysHold` | `LimitsHold` |
| `RequestsDecidedOnce` | `DecidedOnce` |
| `MonitorPipeline_proofs` | |
| `MonitorInvariance` | `MonitorInv` |
| `StateAlwaysFollowsChecks` | `StateFollowsChecks` |
| `IncidentsStayTied` | `IncidentsAreTied` |
| `ActiveSourceAlwaysShown` | `ActiveSourceIsShown` |
| `Administration_proofs` (team) | |
| `TeamInvariance`, `TeamTyped` | `TeamInv`, `TypeOK` |
| `AdminIsKept` | `ConsoleKeepsAdmin` |
| `RevocationStays` | `RevocationHolds` |
| `Administration_proofs` (sealed log) | |
| `ChainInvariance`, `AuditTypeCorrect` | `ChainInv`, `AuditTypeOK` |
| `VerificationIsRight` | `ValidIffUndamaged` |
| `SealedStaysImmutable` | `SealedIsImmutable` |
| `StatusBoard_proofs` | |
| `BoardInvariance` | `BoardInv` |
| `StatusStaysWorst` | `StatusIsWorst` |
| `IncidentsStaySound` | `IncidentsAreSound` |
| `PostsStayOneStory` | `PostsTellOneStory` |
| `EditsStaySafe` | `EditsAreSafe` |
| `PageDesign_proofs` | |
| `DesignInvariance` | `DesignInv` |
| `RowsAlwaysAgree` | `RowsAgree` |
| `LabelsAreTrue` | `LabelIsTrue` |
| `NoWorkIsOverwritten` | `OnlyKnownWorkIsReplaced` |
| `KeptImagesStay` | `KeptImagesAreSpared` |

**Why each needs more than itself.** None of these properties is inductive;
each proof module begins with the invariant that is.

- *Organization* (`OrgInv`): cancelling looks at one row while a sweep acts on
  the row it leased, perhaps long ago. A row that was ever leased is never
  cancelled, only the newest row is unfinished, and a sweep that still owns its
  row has the row's attempt number.
- *Queue* (`QueueInv`): `OrgInv`, a row that agrees with its log, and a sweep
  that, as long as it owns its row, counts from the row's own counter, has seen
  the organization active (and it still is), and has the provider's acceptance
  when its outcome is "sent". Whatever breaks one of these takes the lease away
  first; that is what makes the contract's step possible when the sweep writes.
- *Exports* (`ExportInv`): without a waiting job the holder of the queue would be
  repeated and has not gone past scheduling its successor; a row with an owner is
  a processing one.
- *Uptime* (`UptimeInv`): as long as no clock that was behind has written to it,
  the log is the history (`IsHistory`): what an interval covers was lived as it
  says, and every moment the retention covers is covered by one. Of maintenance
  it can say so only for `steady` moments; what makes it true of them is that the
  flag of the open interval fits the component as long as no window begins or ends
  (`FlagFits`). The rest is about what the page computes: the merge loop gives the
  measure of a union (`MergedCounts`); a share "says" of a set of moments how many
  were down (`Says`), and the weighted average of what such shares say of disjoint
  sets says it of their union (`AverageSays`), used once for the services of a day
  and once for the days. A sweep leaves fewer intervals, whose union is no larger
  (`SweepForgets`).
- *Settings* (`TrialInv`): as long as a request is `clean`, what it has read is
  the row and the change on trial.
- *Team* (`TeamInv`): open transactions hold different rows (`Exclusive`), each
  writes only what it has locked or waits for (`Shape`), and what it found in the
  rows it locked is still so (`Relies`). Hence a console transaction that nobody
  overtook still leaves an enabled administrator when it commits (`Spares`), and
  a user it deprovisions is disabled or keeps another active membership
  (`Leaves`). The advisory lock is what makes `Spares` survive the commits of
  other console transactions; those of SCIM and sign-ins, which do not take it,
  mark the transaction as overtaken, the exception `ConsoleKeepsAdmin` states.
- *Second factor* (`MfaInv`): the locks are exclusive, and what a transaction
  read when it began is still true when it writes, since its locks keep out
  whoever could change it.
- *Monitor* (`MonitorInv`): whoever owns the lease has a copy of the row as it is
  (`CopiesAreFresh`), so that what it writes are the counters of the recorded
  checks. The incident side asks for no lease: what ties it to the row is
  conditional on nobody having interfered (`CalmWork`, `CalmIncidents`).
- *Audit* (`ChainInv`): whether a chain verifies depends on the rows that are
  left, why it does on those that are not. The invariant speaks of every row ever
  sealed: each position belongs to one (`Positions`), its hash covers the
  original content and what came before it (`Links`), and only pruning and
  damage have removed rows (`Remains`). Positions are counted with the
  cardinality of the sealed rows, which also bounds the sequence.
- *Board* (`BoardInv`): each row says what `Told` lists, a transaction that has
  locked a row still finds what it looked for, a form shows a version that there
  was, and every transaction reconciles the components whose sources it changes.
- *Page* (`DesignInv`): a tab's revision stands for the design it has seen, the
  label for what was edited since; a sweep has spared what it has read about; an
  upload owns its image until the row is there; versions have one row each.

**How the proofs are laid out.** One lemma per action, named after it, shows that
it keeps the invariant; before them come lemmas for what several actions have in
common (`RowChangeInv`, `QueueStepInv`, `CommitInv`, `BeginInv`, `LinksKept`) and about the
operators (`RankFollowsOrder`, `LinksGrow`, `QueueFacts`). A last lemma splits
`Next` into its actions, and the theorems add the temporal step. The invariants
were checked with TLC on small instances before they were proved.
The lemma that carries the weight in the team's proof is `OthersKept`: what one
transaction commits leaves every other that is open `Sound`.

The loops of `Uptime` are recursive functions. The prover has no induction rule it
can instantiate with a predicate, but one about sets is a theorem of finite
sets: a subset of `0..n` that holds 0 and with each `k < n` also `k + 1` holds
`n`, or the successor function would map it injectively into itself without 0
(`IntervalInduction`). From it follow that a loop's recursive function exists
(`Iteration`), that finitely many intervals can be sorted (`OrderExists`) and
what each loop has computed after `k` rounds.

**Only model-checked.**

- Liveness under fairness (`DeletionSettles`, `DeliveriesSettle`, `DueIsChecked`,
  `EntriesAreSealed`, `WindowsComplete`, `TrialEnds`, `ServersConverge`,
  `ExportEndsUnlessLost`): the prover does not reason about `ENABLED`.
- `mfa_swept`, which is a counterexample.

## 5. Not modelled, and the plan

1. Sign-in with its one-time codes, sessions and password reset: two reset links
   may be valid at once. Audit delivery. A monitor as a further source of
   `StatusBoard`, in place of the single `other` source of `MonitorPipeline`.

Left out for good: rendering, wording, network checks and providers (each a
nondeterministic result), address selection, identity protocols implemented by
libraries, uploads that are not staged, installation and migration scripts.
Several monitors in one sweep share no state but the worker's id. The retention
sweep's 30-minute lease is not modelled: its deletions are by age, so that two
sweeps at once delete what one would. Most of the program by lines is the console
and the public pages, which render rows and keep no state of their own; they are
the reason why the map covers a small share of all lines although it covers the
concurrent core.
