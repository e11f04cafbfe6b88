# Verification of SIGMA Primaire

SIGMA Primaire is a school management server (FastAPI, SQLAlchemy, SQLite or
PostgreSQL) with desktop, browser and Android clients that work offline. This
directory holds TLA+ models of the parts where requests interleave, calls get lost
and processes stop, the TLC configurations that check them, and theorems that TLAPS
proves about them. Every definition is translated from the source; `PROJECT.json`
gives the lines each one stands for, the hazards of the code and the properties that
cover them.

Contents: [parts](#the-parts-of-the-system) · [modules](#the-modules) ·
[runs](#what-is-checked) · [proofs](#what-is-proved) ·
[divergences](#divergences) · [abstractions](#what-the-models-leave-out) ·
[plan](#the-plan)

## The parts of the system

### Modelled

| Part | State | Operations | What is hard |
|---|---|---|---|
| **Synchronisation server** `api/sync.py`, `services/sync.py` | journal (`sync_operations`), versions, identities, acknowledgements, devices | register, push, apply, apply-batch, resolve, pull, ack; what a creation does to the business tables | a request reads, computes and commits once; others run in between. `FOR UPDATE` protects the version row on PostgreSQL and is nothing on SQLite. Retries overlap |
| **Desktop client** `services/sync_client.py`, `services/offline_client.py` | a SQLite file: outbox, inbox, conflicts, identities, cursor; the read model | enqueue, a pass (push, apply, pull, merge, ack), local and remote resolution | lost calls and replies, late replies, stops between two transactions of the file |
| **Marks** `api/academic.py`, `api/evaluation.py`, `api/honor_board.py`, their engines | notes, results, bulletins, board entries, rules | entry, transitions, closing, publishing, board | two sessions write one sheet; closing computes from what is about to change; ranks |
| **Catalogue and teachers** `seed.py`, `api/evaluation.py`, `api/academic.py`, `services/teacher_portal.py` | frameworks, domains, competencies, criteria, scales, years; assignments, assessments | seeding at every start, edits; assigning, entering, what is shown as pending | two owners of the same rows; counts that stand for sets |
| **Students, classes, cards** `api/students.py`, `api/cards.py`, `services/matricule.py`, `services/badge_engine.py` | students, memberships, classes, levels, cards, number sequences | enrol, transfer, withdraw, issue, revoke, reactivate | counts checked before a commit; numbers drawn beside numbers typed |
| **Invoices and payments** `api/finance.py`, `services/finance_engine.py` | invoices, payments with idempotency keys, audit lines | create, pay, cancel, overview, overdue list | the status is a stored function of a sum; cashiers work at once; requests are repeated |
| **Subscription** `services/billing_v4.py`, `services/payment_gateway.py`, `services/cloud.py` | licence, invoices, payments, webhook events | issue, renew, pay, webhook, reconcile, suspend | three commits for one payment; a provider that sends again |
| **Messages, proposals, exports** `services/communication_engine.py`, `services/ai_actions.py`, `api/communication_v3.py` | campaigns, recipients, deliveries, proposals, jobs | send, approve, reject, execute, export | what has left cannot be rolled back; a stop in a background task |
| **Offline queues** `static/assets/sigma-offline.js`, `sigma.js`, `SecureOfflineQueue.java` | IndexedDB store shared by tabs; an encrypted list | enqueue, replay, peek, acknowledge, drain | lost answers, closed tabs, ended sessions, kills before the disk has the list |
| **Accounts** `api/auth.py`, `api/users.py`, `deps.py`, `services/authorization.py` | password, token version, reset tokens; posts, scopes, delegations | login, change, reset, forgotten password; granting | requests that go on with what was changed under them; who may hand on what |
| **Knowledge base** `services/ai_knowledge.py` | documents and versions | index, publish, archive | versions published at the same time |
| **Audit chain** `services/audit.py`, `services/cloud.py` | hash chain of lines per school | write, verify | a writer links to the last line that was committed |
| **Start, restore, upgrade, archives** `run_server.py`, `services/backup.py`, `services/upgrade.py` | database, media, rollback copies, plan files, archives | prepare, apply, roll back; create, prune | two things replaced by renames; the process stops between any two |
| **First start, stop requests, service** `run_server.py`, `services/windows_service.py` | `.env`, report of the first password; stop file, port; service status | setup, seed, change; ask, obey; report | secrets in two files, a commit between; one file shared by launches; two threads on one structure |
| **Update of server and client** `services/update_agent.py`, `services/deployment_guard.py`, `scripts/auto_heal.py`, `services/client_updater.py` | lock, staged package, executable, previous one, service; application trees | stop, swap, start, roll back; heal | the service stops some time later; failures after the swap; the healer in the middle |
| **Incidents, limits of attempts** `services/incident_automation.py`, `services/operations_v4.py`, `services/sla.py`, `scripts/incident_watch.py`, `services/rate_limit.py` | incident rows, what a process opened lately; buckets of times by key | reconcile, report, resolve, count minutes; check | a look at the rows, then one commit for each incident; a clock read before a lock |
| **Cloud copies, pictures** `services/cloud_backup_providers.py`, `api/system.py`, `services/media.py` | destinations, copies; files beside rows | copy, delete; upload, remove, archive | one commit after many calls; files and rows change apart |

What makes them correct: no accepted operation overwrites a write its author had not
seen, and the journal says what was written; no station shows a false success or loses
what it acknowledged; a station has one account; an identifier names one record; what
was closed, published or validated stays right; limits hold but for what was under way;
an invoice is never paid twice over; nothing leaves twice or unapproved; a queue keeps
what nobody answered; new passwords end old sessions and nobody hands on what he does
not hold; what is served after any sequence of stops is one school's whole data; what
an update, a copy or a stop reports is what happened.

The parts meet in the database: the desktop client calls the synchronisation server
over HTTP; the online editors write the version rows that it compares and the marks
that a closing reads; payments, cancellations and most others write audit lines;
archives hold the database and the pictures; the start replaces the file under all of
them, before requests are accepted.

### Not modelled

| Part | Why |
|---|---|
| PDF, spreadsheet and card layout, `pdf_engine.py` | layout of values that other parts compute; no state |
| Dashboards, search, portals of parents and direction | read-only queries. The sums of the parents' overview differ from the invoices' only after an overpayment |
| Calls to AI and cloud providers, retrieval scores | no state of their own; their outcomes are choices in `Messaging` and `CloudCopies` |
| Fleet `services/fleet.py`, pilot, capacity | rows that an administrator moves by hand, counters over single rows. Two rollouts may be active after a completed one is evaluated again |
| Import of a spreadsheet of students | it cannot succeed with a new row (*Divergences*) |
| Receipt numbers, fee structures, mobile money list, guardians' links, card templates, print counts | single-row writes under the handlers that are modelled |
| Manifest and signature checks of updates and webhooks, encryption | pure checks: the model enters after they have passed |
| `main.py`'s routing, `database.py`'s pragmas, migrations | the isolation of the two databases is `RowLocks`, `InOrder` and `CanWrite`; foreign keys are `Refused` in `Catalogue`; a migration is one step of `Startup` |

## The modules

A module has no variable of another's. Where components interact — journal, versions
and online editors; network, server and stations; marks, closing and board; campaign,
delivery and proposal; agent, healer and service; several launches and askers — they
are in one module, as its actions. A run over several modules is a disjoint sum: the
MC module, or the module that proves about the sum (`Finance`, `Host`, `SyncServers`,
`Clients`, `Office`, `Grades`), instantiates each one over variables of its own, `part`
says which of them a behaviour is of, and the others stutter. A property of a sum names
the inner ones.

| Module | What it is |
|---|---|
| `VersionedStore` | abstract specification of what the journal promises: each submitted operation is settled once, and an accepted one is one write made on everything before it |
| `SyncServer` | the handlers of the synchronisation server, each cut at its reads and its commit, with the online editors; implements `VersionedStore` |
| `OfflineCreation` | what `apply_operation` makes of creations: rows, identities, references |
| `Devices` | which account may use which station |
| `SyncSystem` | several stations, the network and the server, a handler a step, an item of a pass a step |
| `Payments`, `Subscriptions` | fees of students; the subscription of the school |
| `Gradebook`, `Grading`, `Catalogue`, `Teaching` | life of the marks; the calculations; the catalogue; teachers' lists |
| `Registry` | students, classes, enrolment, cards |
| `Messaging` | campaigns, single messages, proposals, exports |
| `BrowserQueue`, `AndroidQueue` | the offline queues |
| `Startup`, `Archives`, `Deployment`, `ClientUpdater` | restore and upgrade; archives; update of the server; of a client |
| `Sessions`, `Authority`, `Knowledge`, `AuditChain` | accounts, rights, documents, log |
| `FirstRun`, `StopRequest`, `ServiceHost`, `CloudCopies`, `Media` | first start, stop, service, copies, pictures |
| `SyncServers` | the server on its two databases, with `OfflineCreation` and `Devices`, as one specification |
| `Clients` | `SyncSystem` as a station that reads and as stations that write, with `BrowserQueue` and `AndroidQueue`, as one specification |
| `Finance` | `Payments` and `Subscriptions` as one specification |
| `Host` | `Startup` with `Deployment`, `ClientUpdater`, `Archives`, `FirstRun`, `StopRequest`, `ServiceHost`, `CloudCopies`, `Media` as one specification |
| `Office` | `Registry` with `Sessions`, `Limiter`, `Authority`, `Knowledge`, `AuditChain`, `Incidents` as one specification |
| `Grades` | `Gradebook` with `Grading`, `Catalogue`, `Teaching` as one specification |
| `MC…` | instances for TLC |
| `SyncServerProofs`, `MessagingProofs` | the theorems; those about a sum follow the sum, in its module, as `SyncSystem`'s do in `Clients`, `Registry`'s in `Office` and `Gradebook`'s in `Grades` |

In every module of handlers a request is cut where another can run: it reads in one
step what its session loads (`work[r]` holds it), and commits in another. A commit
writes the columns that differ from what was loaded, as the unit of work does, and
fails on a unique index or on a row that is gone. `Abort` is an exception or a stop
before the commit.

**SyncServer.** `status`, `base`, `opVersion` are the journal rows, `ver` the version
rows by entity *and* identifier (an entity created offline has a client identifier
until the server gives it one; `_canonical_version_entity_id` chooses), `known` the
entities with a server row. `apply_operation` is `ApplyLoad`, `ReadVersion` (under the
lock on PostgreSQL), and `ApplyConflict`, `ApplyCommit`, or `ApplyReject` followed by
`ApplyMarkFailed` (roll back, then a second transaction). `resolve_conflict` is
`ResolveLoad`, `ReadVersion`, `ResolveDiscard` or `ResolveRebase`. A batch is several
single calls. `log` is a history variable: who wrote the entity and which version the
writer had seen.

**OfflineCreation, Devices.** `rows` and `identity` are what the business tables and
`sync_entity_identities` keep of a creation. `Begin` makes the lookups of
`_create_business_entity` for the operation's type (quota, matricule, the student and
the guardian that are referred to, the class); a reference is tried as a number of a
server row first (`Referred`, `IntOf`), then as a name. `Make` and `AnswerKnown` commit,
`Fail` and `Settle` are the second transaction of a refusal. `Devices` has registration,
heartbeat and the ownership checks of push, apply and acknowledgement; `used` remembers
which account used a station.

**SyncSystem.** Server: the same rows, with the id that `pull` uses as a cursor, given
at the flush of `push` and visible at its commit. Network: `calls`, each at most once
in flight per station, `late` when nobody waits for its reply. Client: the tables of
its file, and `pass[d]`, the volatile place in `sync_once`. `Lose` is a call that fails
before or after its commits; `GiveUp` is the time-out or a stop of the client, after
which the server may still serve the call. `TakeVerdict`, `TakeResult`,
`RememberIdentity`, `Pull`, `Merge` and `MarkMerged` are one transaction of the
client's file each.

**Payments.** `paid[i]` is what `SUM(amount)` over committed rows returns. A request
holds `loaded` statuses and `new` ones. `record_payment` is `AskPayment` or
`AnswerKnownKey`, `LoadInvoice` (`FOR UPDATE`), `CheckBalance`, `InsertPayment` (flush:
the unique index on the key acts here) or `AnswerClash`, `CommitPayment`, `LogAction`.

**Subscriptions.** `today` counts days; `sub` is the licence. `register_payment` is
`PayRead`, `PayCommit`; a provider's adds `TagCommit`, and the webhook commits its
event before (`EventCommit`) and after (`ProcessedCommit`). `blurred` are the rows that
a request wrote over another's change, `torn` the events cut between two commits.

**Gradebook.** `mark[sheet][s]` is a note or a result with its score, state and
version. `…Read` is a handler up to its commit: entry online or by an applied
operation, transitions, closing (`CloseRead` computes averages and ranks), publishing,
the board and its validation, its rule. `Leave` is the end of a membership.
**Grading** computes from one student's rows what the code computes in five places
(bulletin, period calculation, class summary, subject averages and grades, GPA, risk);
`Enter` and `Move` change the rows. **Catalogue**: `Start` is a whole `seed.py` run,
`Seeded` what it inserts, updates and deletes; the edits are `api/evaluation.py`'s.
**Teaching**: `Listed` is the workspace, `Pending` and `Alerted` the overview and the
dashboard's alert.

**Registry.** `student`, `place` (memberships), `class`, `level`, `card` are rows, `seq`
the school's sequence. `NextNumber` is `next_matricule`, which takes the school's row
until the request ends (`RowFree`). Cards: issue, bulk, lifecycle, reactivation.

**Subscriptions.** `…Read` is what a request loads and decides, `…Commit` what it writes
of it. A reconciliation is for today or for the day that the request names (`Dates`): a
past one may lift a suspension, one beyond the grace suspends. `asked` keeps the last day
asked for since the subscription was paid or set.

**Messaging.** A letter is its guardian and a student, or an invoice: the reminder goes
through invoices (`RemindersOf`), and `nobody` counts those whose student has no contact.
`CreateDelivery` … `KeepDelivery` is `deliver`: portal, WhatsApp, then the provider, with
`AnswerLost` for a call that arrived and whose answer did not. `RunCampaign`,
`MarkRecipient`, `EndCampaign` are the background task, `Execute`, `EndExecute` a
proposal's, `RunExport`, `ExportOne`, `EndExport` an export's. `Stop` loses what the
server was doing.

**BrowserQueue** keeps `page[t]` (a call of a page) and `flow[t]` (a run of `flush`)
apart; `queue` is shared by tabs. A run starts where `updateNetwork` does (`woken`): after
a boot or a login, and when the network comes or goes; runs of one tab do not overlap.
**AndroidQueue** keeps `memory` and `disk` apart, with `Save` when `apply` gets to the
disk.

**Startup.** `phase` is the next line that touches the disk: `extract` … `tidy` is
`apply_pending_restore`, `undo` … `undoMedia2` its `except` branch, `upgrade` …
`migrated` is `apply_pending_upgrade`, `back…` is `_restore_safety_backup`. `Crash`
leaves the disk and the state files; `Fail` is an exception of a file operation. `held`
is the connection that the seed of `run_server.py` leaves in the engine's pool. Files
behave as on Windows, the platform of the installer: a file that is open is neither
renamed nor removed. `bare` are the contents without a picture, whose archive has no media
entries (`Entries`): the way back then leaves the directory as it is (`BackMedia`).
**Archives**: create, validate, list, sort and prune, call by call. **Deployment**: `lock`
with `CreateLock`, `WritePid`, `ReadLock`, `StealLock`; the activation step by step;
`StopCompletes` is the end of `sc stop`, which returns before it; `Heal` is the
auto-healer. **ClientUpdater**: the renames and copies of `update_client`, each of which
may fail after part of its work.

**Sessions**: one account; a session is the token version that it holds. **Authority**:
links of posts to permissions with scopes, holders, delegations; `introduced` is what
the superadmin gave. **Knowledge**: rows of texts, and what a commit of an ingest or of
a status writes over. **AuditChain**: a digest is what it is computed from.
**FirstRun**: two files and the account, with an interruption between any two steps.
**StopRequest**: the file, the port, launches and askers. **ServiceHost**: two threads in
`_set_status`. **Incidents**: `Reconcile` … `Close` are one call of `reconcile_alerts`;
`recent` is `_last_actions`; `PerMinute` ticks of the clock make a minute, and `Minutes` is
what `_incident_minutes` tells of a month: the time in it, rounded as Python rounds.
**Limiter**: `Arrive` reads the clock, `Pass` and `Refuse` hold the lock; `shared` is
Redis, which reads its own clock. **CloudCopies**, **Media**: see their heads.

`SyncServer` and `SyncSystem` model the same handlers at two grains; that a handler may
be one step in `SyncSystem` is what `SyncServer` shows with row locks
(`ImplementsStore`).

## What is checked

Deadlock checking is off: in every run the bounded calls are used up in the end.

| Run | Shows | Instance |
|---|---|---|
| `sync` | `SerialLog`, `ImplementsStore` with row locks; `JournalMatchesWrites`, `SettledIsFinal` with and (`LiteIsRight`) without them, beside online editors; `NamedOnce`, `HangsOnTheNamed`; `OneAccount` | PostgreSQL: 4 operations (a creation and two updates of one record, an update of another), 3 threads. SQLite: 3 operations on 2 records, 2 threads, 3 writes a record. Creations: 9 of 5 types, two with one name or one content, quota 1, 2 requests, 5 starts. Stations: 2 users, 1 station |
| `client` | `AppliedTruly` (no false success, once, conflicts listed); `ReaderIsUpToDate` (`Clients` with `Parts = {"reading", "writing"}`) | writing: 2 stations on one record, one creating it, rebases, 1 late call; reading: 1 writer, 1 reader; 2 rows |
| `payments` | `NoOverpayment`, `ChargedOnce` with cancellations and overviews (`Finance` with `Parts = {"fees"}`) | 2 cashiers, an invoice of 2, payments of 1 (with a key) and 2, 3 rows |
| `subscriptions` | `InvoiceSettled`, `EventsTellTruth`, `PaidIsServed` (`Finance` with `Parts = {"subscription"}`) | 2 requests, 2 invoices, 3 payments, 2 events, months of 2 days and years of 3, 3 days, reconciliations for today, the first day and a far one, 4 or 5 calls, 1 stop |
| `grades` | `PublishedBulletinIsRight`, `ListsAgree`, `FinalStays`; `MarksAddUp`; `CatalogueSettles`; `NothingForgotten` | 2 students, 2 activities of weights 1 and 2, 2 requests, 3 or 4 calls, from an empty sheet and from one half validated; 3 activities in 2 subjects and 2 classes, 2 scales; 2 years, 1 framework kind, 3 edits; 1 teacher, 2 subjects |
| `registry` | `Limits`, `GeneratedIsFree`, `RevivedKnowingly` | the register alone (`Office` with `Parts = {"register"}`): 3 students, 2 classes, 3 cards, 2 requests, 4 or 5 calls |
| `messaging` | `ReportIsTrue`, `OnceAndApproved`, `TasksEnd` (liveness) | 2 workers, one campaign, proposal, message and export, 2 guardians, 3 students (one without contacts), 3 invoices (2 of one student, 1 of nobody's), 1 fault |
| `stations` | `QueueKeeps`, `QueuesEmpty` (liveness for the browser, while pages are opened; `Clients` with `Parts = {"browser", "phone"}`) | 2 tabs, 3 writes, 3 faults; 4 operations, 1 kill |
| `host` | `NothingLost`, `OutcomeIsTrue`, `CopiesAreThere`, `FilesAreThere`, `StopsAreTold`, `FirstRunOpens`, `ServerComesBack` (liveness) | 3 archives (of this release, older, refused), all contents with pictures or the school and an archive without, both ways to start, 1 stop, 2 failing operations; 1 agent and 1 manual activation of a version that does not run, 2 faults, 2 restarts; 3 updates of a client; 3 calls on archives, 1 kept; a first start with 3 interruptions, 2 refusals; 2 requests, 2 destinations, 2 copies, 2 keys; 2 owners, 3 pictures, 1 archive, 1 fault; 2 launches, 2 askers, 2 stops, 1 fault |
| `office` | `SessionsHold`, `NothingWidens`, `AuditTells`, `EndedForGood` | 2 requests each: 3 passwords, 2 reset tokens, 5 calls; 2 users, 2 posts; 3 texts, 2 titles; 3 audit lines in 2 schools, 2 verified; 1 code of alerts, 3 incidents, 1 opened per cooldown, 1 restart, 2 months of a minute in 3 ticks of half a minute; 2 keys, a table of 1, 2 attempts in a window of 2 |
| `payments_cancel` | *violation* of `UnpaidIsListed` (`Finance`, its fees) | one payment and its cancellation |
| `all_entered` | *violation* of `AllEntered` | as in `grades` |

Every property has a mutant: a plausible change of a mapped definition (a dropped lock,
a comparison by `<=`, a rollback that forgets what it restores) under which TLC finds it
violated.

**Bounds, and why they are enough.** A lost update, a double charge or a crossing of
two requests needs two requests on one row; a third one lets a lock pass from hand to
hand. An unseen write needs a record with two writers, and the identifier change a
creation and an update of the same record. Two calls that follow make the state that
two crossing ones meet, hence 4 or 5 calls. A crash is interesting in relation to one
interrupted pass or start, and the next one that resumes it. A limit of 1 with 2
requests is the limit that crossing requests exceed. All constants named `Max…` are
bounds, and are in guards. Requests, rows and cards that are interchangeable are
symmetric where no property of the run is a liveness one.

**Conditions** under which properties are claimed, because the code breaks them
otherwise. Some are parameters, so that each can be lifted: `JournalMatchesWrites` and
`SettledIsFinal` need a client that does not send a call again while the server still
runs it (`Overlap = FALSE`); `SerialLog` needs row locks and no online editor;
`ReaderIsUpToDate` needs ids committed in order (one writing transaction at a time, as
on SQLite) and no rebase; `Together` (in `CopiesAreThere`) is claimed for one stop in
mid-step, and of a content without pictures until a way back has left another's
(`leftover`); `RestartsUnseeded` (in `ServerComesBack`) speaks of starts by `uvicorn`
alone. Others are history variables that mark exactly the rows or calls that the code
spoils: `overlapped` (Gradebook), `blurred`, `torn` (Subscriptions), `crossed`
(Knowledge, AuditChain, OfflineCreation, Deployment), `stale`, `doubled` (Sessions),
`broken` (Media), `cut`, `emptied`, `refusals` (FirstRun), `kept` (StopRequest),
`reverted` (AndroidQueue). A property says of everything else that it holds; what the
marks stand for is under *Divergences*.

**Fairness.** `Startup`: `WF(Boot)`. A process that started executes its next line, and
one that is down is started again — by the service manager, which
`installer/SIGMA-Setup.iss:71` tells to restart the service after 5, 15 and 60
seconds, or by the operator. (An exception in the startup event makes uvicorn return
without raising, so that the service ends with exit code 0 and the service manager
may leave it alone: then the operator is the one who starts it.) `Deployment`: the
system completes a stop, the auto-healer's loop goes on, agents go on. `Messaging`: the
thread pool runs the tasks it was given, a thread goes on; a `Stop` takes both away and
is not fair. `BrowserQueue`: the network comes back, and the browser runs what it began;
that a page is opened is no fairness but the premise of `QueueDrains`, since nothing else
starts a stopped run again while the browser stays online (without it TLC finds the queue
kept for ever). No fairness on what people do, on stops or on failures, and none in the
other modules.

## What is proved

TLAPS checks the theorems for every value of the constants, under named assumptions on
them, which TLC evaluates in the runs: `SyncAssumption`, `SystemAssumption`,
`MessagingAssumption`, `RegistryAssumption`, `GradebookAssumption`, `StartupAssumption`,
`SubscriptionsAssumption`, and those of the sums, which put together the assumptions of
their parts: `ServersAssumption`, `ClientsAssumption`, `FeesAssumption`, `HostAssumption`,
`OfficeAssumption`, `GradesAssumption`. They say that constants are of their kinds, that
sets whose elements are counted or added up are finite, that an absent row is not a row,
and that ids of different tables differ.

| Theorem | States |
|---|---|
| `…!TypeCorrect` in all eight modules (in `Clients` of `SyncSystem`, in `Office` of the register, in `Grades` of the gradebook) | `Spec => []TypeOK` |
| `SyncServerProofs!Settled`, `JournalExact` | both databases, without overlap: a settled row is final, and an operation is applied exactly when it was written once |
| `SyncServerProofs!VersionsCount`, `Serial` | with row locks and no online editor: versions count writes (updates by server identifiers), and each accepted operation was made on the version just before it, overlapping retries included |
| `SyncServerProofs!Implements` | with row locks, `Spec` implements `VersionedStore` |
| `SyncServers!JournalOnSqlite` | `SyncServerProofs`' theorems at `RowLocks = FALSE`, without overlap: `LiteIsRight` |
| `SyncServers!MadeOnce` | any operations, requests, quota: `[]NamedOnce`, a named record is made once, under its name, and twins (but of guardians without a phone) come of crossings only |
| `SyncServers!HangsRight` | the same: `[]HangsOnTheNamed`, a reference by a number means the row of the number, one by a name the record that the station so named, and a mark is of a class the student was in |
| `SyncServers!StationKeepsItsAccount` | any accounts and stations, crossing registrations: `[]OneAccount` |
| `Clients!TrulyApplied` | any stations, calls lost or late, stops anywhere: `[]AppliedTruly` |
| `Clients!CopiesKeepUp`, `CursorSkipsNothing` | what was acknowledged or merged is in the copy; with ids committed in order and no rebase, a cursor passes over nothing |
| `Clients!ReaderHasAll` | both in the sum, under the same two conditions: `[]ReaderIsUpToDate` |
| `Clients!NeverUndone` | action property: applied, failed, ids, received and merged operations stay so |
| `Clients!QueueIsKept` | the browser's queue, any tabs, writes and disturbances: `[]QueueKeeps`, what was queued stays until it is answered, and nothing is answered before what was queued earlier |
| `Finance!NeverOverpaid` | with row locks, any number of cashiers, cancellations and overviews: `[]NoOverpayment` |
| `Finance!OncePerKey` | both databases: `[]ChargedOnce` |
| `Finance!InvoicesSettle`, `EventsAreTrue`, `PaidServed` | any prices, days, events, crossing requests and stops: `[]InvoiceSettled`, `[]EventsTellTruth`, `[]PaidIsServed` |
| `Grades!PublishedIsRight` | any students, activities, weights and results: `[]PublishedBulletinIsRight`, where requests do not cross a published bulletin shows the average of the results that are validated now |
| `Grades!ListsInOrder` | the same: `[]ListsAgree`, the ranks of a closing follow its averages however requests cross, and those of the board its scores where they do not |
| `Grades!FinalHolds` | action property `FinalStays`, however requests cross: the bulletins of a closed period and the validated entries of the board stay |
| `Grades!StartsAndMarks` | any catalogue, codes, limits, edits: `[]CatalogueSettles`, a criterion that was marked stays, and a start that follows a start changes nothing |
| `Grades!ScreensShowAll` | any staff, pupils, rooms, tests: `[]NothingForgotten`, where no marked pupil left the class a teacher's lists and counts are of what he has still to enter |
| `Grades!MarksHold` | any activities, weights, maxima, scales: `[]MarksAddUp`, one average wherever it is read, between those of the subjects, and never lowered by a better mark, as are GPA and rating |
| `MessagingProofs!ReportsAreTrue`, `OnceApproved` | any threads, lost answers, stops anywhere: `[]ReportIsTrue`, `[]OnceAndApproved` |
| `MessagingProofs!StaysDecided` | action property: a decided proposal stays decided unless requests crossed |
| `Office!LimitsHold` | any requests that cross, schools, students, classes: `[]Limits`, quota and capacities are exceeded by fewer than the requests at once, and without crossing a student is in one class |
| `Office!NumbersFree` | the same: `[]GeneratedIsFree`, a generated number collides only with one that was typed |
| `Office!NeverByAccident` | the same: `RevivedKnowingly`, no step brings back a card that its request had not found struck off |
| `Office!SessionsKept` | any crossing requests of an account: what holds of its sessions and reset tokens; any threads, callers, evictions, on either table: what passes the limiter in a window. Together `[]SessionsHold` |
| `Office!EndedStayEnded` | action property `EndedForGood`: a session that ended is not good again |
| `Office!GivenOnly` | any users, posts, scopes, profiles and crossing requests: nobody has what the school was not given; any documents: one version is served. Together `[]NothingWidens` |
| `Office!OutagesHold` | `[]AuditTells`: any writers, schools and lines, an untouched chain is found valid and a touched one is not; any alerts, restarts and crossing reconciliations, the incidents open for one alert are no more than the requests, those opened within the cooldown no more than its limit and the requests beside one, and the months together count each incident for as long as it lasted, but for half a minute at most in each month that had any |
| `Host!NothingIsLost` | any archives, both ways to start, any number of stops and failures: `[]NothingLost` |
| `Host!OutcomeHolds` | any agents, versions, healer, failures; any updates of a client: `[]OutcomeIsTrue`, an agent's report is what it left, and as long as an update of a client can go back, what it goes back to is whole |
| `Host!CopiesHold` | `[]CopiesAreThere`, beside a database with pictures its own media, and beside one without none until a way back left another's (`leftover`), after any failures and one stop in mid-step (`MaxCrashes <= 1`), with archives that have a schema version (`Versioned`); and any calls on archives keep the newest ones |
| `Host!NewestStay` | the last part for any number of stops: `KeepsTheNewest` |
| `Host!FirstStartOpens` | the Windows build (`Frozen`), any cuts and refused files: `FirstRunOpens`. Without `Frozen` it is false (TLC): a `.env` written by hand may have no password |
| `Host!FilesHold` | any destinations, keys, failing calls: a copy that is reported is there; any pictures, removals, archives: the file of a row is there and an archive is as declared. Together `[]FilesAreThere` |
| `Host!StopsHold` | any launches, askers, requests and kills, both threads of the service: `[]StopsAreTold` |

The theorems of `SyncServers`, `Finance`, `Host` and `Office`, `ReaderHasAll` and
`QueueIsKept` of `Clients` and the last three of `Grades` are of the sums, as the runs
check them; `Spec` of `Gradebook` is what its part
of `Grades` does. A step of a sum is a step of one part and leaves the variables of the others
alone (`OfficeSteps`), so that each part has an invariant of its own.
`AppliedTruly` speaks of operations and their records alone, which the reading and the
writing stations of `Clients` have in common; `TrulyApplied` is for any of both.

**The arguments.** None of the properties is inductive: each speaks of rows, and what
breaks it is in the hands of a request, a call or a stop.

*Ownership in the journal.* Without overlap at most one thread works on an operation
(`Exclusive`), and what it has read of the row is still so (`Phase`: an apply in
progress is on a pending row, a resolution on a conflict). The properties alone are
not inductive: a commit writes « applied » over whatever the row says by then.

*The locked version.* A thread between `ReadVersion` and its commit holds a row lock
and the row still has the version it read (`HeldVersion`); no other thread holds it
(`HeldOnce`); the server row of a record counts its writes and there is no client
row (`Counted`). A commit then writes the successor of the current version, which
is the length of the history: `SerialLog` and the count follow. Creations race for a
missing row without a lock; the unique index stops the second one, which is the guard
`ver[row] = 0` of `ApplyCommit`. `Implements` uses the same invariant: a commit maps
to `Accept`, a refusal or a discard to `Refuse`, the rest to stuttering.

*Names.* A row and its identity point at each other (`RowsNamed`, `NamesStand`), since
one commit writes both. Identities never change and rows are never removed, so what a
request read of a student, a guardian or an enrolment still holds when it commits
(`PlansSound`). Two rows that exclude one another either met in the check of the second,
or its request had checked before the first was there: then the two were being made at
once, and `crossed` says so (`RivalsMarked`). The lemma of all the other steps is
`QuietIInv`: they make no row and give no name.

*The account of a station.* What a registration has read of a station still tells who
may come to own it (`ReadHolds`): nobody, and then only an administrator may have taken
it since; or an owner, who stays unless administrators hand it on. Only accounts that
are not administrators are in `used` (`OnlyOthers`).

*The stations.* `Clients!IInv` follows a verdict over the wire. What a call in
flight reports is done on the server, or is the ids of the rows that it will commit
(`CallsSound`); the replies that a pass still handles are true, and it acknowledges what
it has merged (`PassesSound`); a station holds only rows that were committed, and between
the copy and the mark of an operation it is the one copied that will be marked
(`InboxesSound`). A conflict that is no longer listed was discarded for good
(`ConflictKept`). For the cursor, the one push in flight has ids beyond every committed
row and every cursor (`OrderSound`): without `InOrder` that fails, as *Divergences* says.
All of it rests on `Grows`, what no step undoes, which is a theorem of its own.

*The browser's queue.* Several tabs replay copies of one store that others shorten
meanwhile. `EarlierFirst` is not inductive: a run that had left out an unanswered write
satisfies it, until the next answer. The invariant says of each run that whatever is in
the store before a write that it has still to send was answered, or comes earlier in the
run (`FlowInOrder`): the whole store at the start, and then a run moves on only past a
write that was answered, and `delQueue` moves nothing (`GoneIs`). What is about to be
deleted was answered (`AnsweredEnded`); a write is in the hands of one page or was queued,
not both (`OneAsks`), so that no write is queued twice.

*The balance.* The holder of an invoice's row is unique (`OneHolder`), and if it has
checked, its amount still fits (`Covered`), because whatever else changes `paid`
meanwhile is a cancellation, which only lowers it.

*The key.* A flushed row is not in the table yet and has an id of its own (`Fresh`),
two flushed rows have different keys (`Apart`), and ids grow (`Numbered`).

*The subscription.* Nothing is locked; a request remembers which of its rows another has
written since (`stale`), and what it then writes over is `blurred`. The invariant says
what a request knows of the rows that are not stale: it has the subscription as it is, or
that is among its stale rows (`KnowsSub`); it suspends only after the grace of the end
that it read, and takes no day away (`Keeps`); the payment that it is to tag, or the event
that it is to conclude, stands where the step before left it (`Carries`). `EventsOK` adds
that an event has one payment, and none while its row tells of none. `SettleInv` is the
invariant of the invoices: a request that is to pay one computed from the sum of the
payments that are there now, unless the invoice is stale (`Funds`). The sum is a fold over
a finite set; what the proof needs of it (a payment more, a payment of another invoice) is
proved by the smallest set that fails (`SmallestSet`: finite subsets are well founded).

*What was sent.* `MessagingProofs!IInv` has seven layers. `TInv` is what a thread may have
in hand and which tasks there are. `CountsOK`: of each letter, what arrived is what the
rows count plus what threads have in hand and not yet counted, and at least that after a
lost answer or a stop. `DecisionsOK`: nothing of a proposal arrived before it was
approved, and unless requests for it crossed one at a time works on it, on the status it
read. `ArrivalsOK`: nobody whom a thread has still to write to has been reached.
`CampaignsOK`: a campaign's counters are its marked recipients, who were reached as
marked. `ExecutedOK`: an executed proposal's count is of those it reached; `TotalsOK`:
with what failed, and what its thread has still to send, it is all of the payload. The bare
properties are not inductive: a thread that has still to write to somebody already
reached satisfies them all and breaks one at the next step.

*Places and numbers.* A check counts what others are about to change, so the bare limits
are not inductive: the invariant counts the requests that passed the check with those who
are already in (`QuotaClaimed`, `RoomsClaimed`). A request that passes it saw fewer than
the limit, and those who claim are at most all the requests: one more than the claimants
of the state before. A commit turns a claim into a place. `Alone` and `InOneClass` say
that without crossing what a request read of a student's classes is still so. For the
numbers, one request holds the row of a school (`OneHolder`), no generated number is
beyond its sequence, and the number in hand is (`Ahead`); that `next_matricule` finds one
among so many candidates is the pigeonhole principle (`NextNumberIs`).

*A password and its sessions.* `LoginInv` says what a request may know of the account that
it loaded: a version that is not newer, and an older one if its token has served since
(`Loyal`). Every change of the password renews the version, so that a session with the
current one has the current password; a session that ended has a version that is past.
Of two requests that make tokens one has seen all that can still be used, unless they met
(`OneMaker`).

*The attempts of a caller.* The list that the limiter keeps is the end of the list of all
that passed (`LastOf`). A window is either within it, and then no longer than the limit, or
over: the clock is beyond it, and only threads that read the clock before can still come
into it. The invariant counts them with those who passed (`Closed`): hence the limit and
the requests beside one, and the limit alone where nobody came late.

*What was given.* Each check of a right is made long before its commit; but `introduced`
only grows, so what a request may hand on when it asked it may still (`MayAsk`). The bare
property is not inductive: a request that is to commit what nobody gave satisfies it.

*Documents.* A request alone on its title has the versions as they are (`Current`), so that
it archives all others when it publishes one.

*The log.* A line's link names the last line before it, or one after that which is gone
(`Follows`, `Gone`): numbers are never given again, so a gap does not close. A digest names
what it was computed from, so that a changed line differs from its own (`Signed`). Where
nobody touched the lines of a school and no writers crossed, each link is of the line just
before (`Linked`), which is what the verification compares.

*Incidents.* A request that saw none open may open one. Those open and those that may be
opened are together no more than the requests (`OutageInv`), whoever closes in between. Of
an incident opened within the cooldown the process knows: it is among those remembered, or
the call that opened it is at the line that remembers it (`BreakInv`). A call that opens
one more saw fewer than the limit, and beside it there is at most one in hand of each other
request (`LateCounted`). For the minutes, one incident is followed from month to month by
the first month after which the count would be wrong (`MonthsOfOne`), and the two orders
of adding up, by incidents and by months, by the smallest set of incidents for which they
would differ (`MonthsAreOnce`). That is of times; each month is then rounded, which moves
it by half a minute at most (`RoundedIs`), and so their sum by half a minute for each
month that had any (`RoundedSums`).

*The first password.* Until it was changed it is in the report, or is about to be
(`SetupInv`: at which step of the start the two files, the account and the process may
differ); a cut or a refusal is what parts them.

*Copies and pictures.* What a request has read or is about to write of a destination names
copies that were made (`Vouched`), and a copy is never taken away by the server. Of a
picture, while nobody removes it, the file is there when the row names it or a request is
about to make it do so (`Kept`); whoever removes while another uploads is marked.

*Stops.* The file that a launch may see was written after it had cleared the directory
(`Recent`), unless the system refused that; an asker waits for a launch that serves while
the file is there, or has seen it leave (`Awaits`). In the service, as long as no stop was
asked the main thread writes the status alone, and what it writes last is the end with the
code of the failure (`Written`).

*The licence and the writes.* The `IInv` of `Host`: without a plan the database is
whole (all its writes, last licence); with one it may be away or be the seed's, which
has no licence, and then the copy that the rollback puts back is whole and is there
(`LiveWhole`, `Undoable`); nothing was written on what an interrupted attempt had
restored (`Untouched`); a safety backup holds a licensed content (`SafetyKept`). The
step that needs it is a restore that starts on the remains of another: it accepts
the live database only if it has a licence, and so never moves the seed's over the
good copy.

*Database and media.* `Together` is not inductive beside `IInv`: on every way there is a
moment with the database of one origin and the media of another. `Placed` says what each
phase has already put in place, `Schematic` that only a migration that was cut leaves a
schema in part and that a database in part is not served; `Matching` is `Together` but for
`HalfBack`, the one stop on the way back, after which the same way is taken again. The
second stop, or an archive without a schema version (it skips the migration that would
lead back again), breaks it: hence the two hypotheses of `CopiesHold`. A safety backup
without media entries is of a content without pictures (`SafeBare`).

*The closing.* A request computes from the rows that it loaded and commits what it
changes as a map of old and new rows (`Fits`). Where requests do not cross, one works at
a time (`SessionsOK`), and what it computed is of the marks that are there now (`Solo`);
`CardsOK` says that a bulletin that is published shows that average. Two parts hold
however requests cross: in a school of evaluations an open period has no bulletin, so
that those of a closed one come of one computation (`FirstClosing`), and the board is one
list, which a validation leaves as it is (`OneComputation`, `OnlyValidates`). An average is a
quotient of folds; that it is a number for any set of rows is shown by the smallest set
for which it would not be.

*The catalogue.* A seed writes rows by code and leaves the others, so that what it has
written a second one finds as it would write it (`SeededTwice`), and nothing that the
first one renames is there for the second (`SeededHasNoOld`). `ContentInv` adds what a
deletion respects: a criterion in use is a row.

*The screens of a teacher.* They are computed from the rows at each call, so that what has
to be shown is an equality of two ways to say it: a line without a mark is counted exactly
when somebody who is in the class has none (`EmptyLines`, `NobodyIsForgotten`).

*Averages.* Three places filter the marks in three ways; they agree because a mark with
a score is not of an absent pupil (`MarksInv`), which each entry sees to, as it does that
no score is above its maximum: so no average is above 20 and each has a band. If every
subject's quotient of sums were above the whole's, so would be the whole's own, by the
smallest set of whole subjects for which it is not (`PartsOutweigh`); rounding keeps
quotients in order (`HalfUpInOrder`). The band of a percentage is the first that begins no
higher (`BandIs`), hence never a later one for a better mark; the points of bands grow, and
so does their mean (`GpaRises`). A scale whose first bands have no point is not `Sound`: a
subject that rose into one with a low point would start to count and could lower the GPA.

*The report of an agent.* The properties speak of the end of a run, the invariant of each
of its steps: as long as nobody crossed it, the executable that it found is still the
active or the previous one, and it goes back only from where that is possible
(`Position`, `Undisturbed`). For the client, the last whole tree is installed, or in the
backup of this update, or in what an earlier one kept (`ClientInv`).

*The newest archives.* A call prunes with the list that it read, so others are added and
removed meanwhile. What it has kept so far are valid archives, all newer than those left
in its list, of which it has counted no more than there are (`Listed`); an archive that it
removes has therefore at least the limit of newer ones, which stay newer for ever.

**Only model-checked.** Every invariant of a passing run is stated by a theorem, except
that `Together`, a part of `CopiesAreThere`, is false with two stops. What is left is
liveness under fairness, which is out of the prover's reach: `TasksEnd`, `QueueDrains`,
`ServiceComesBack` and `RestartsUnseeded`; so are `ENABLED`, and `RECURSIVE` operators, of
which no module has one. The telephone's `LeavesWhenConfirmed` is checked with
`QueueDrains`; what `SelectSeq` keeps of any list would need induction over data.

## Divergences

Runs that TLC finds violated, each a finding of `PROJECT.json`:

- **`payments_cancel`** — `cancel_payment` refreshes the status with a sum that does
  not see the pending cancellation (`autoflush=False`): the invoice stays paid.
- **`all_entered`** — the overview of a teacher subtracts the number of rows of an
  assessment, those of leavers included, from the number of present students:
  « Toutes les saisies sont à jour » although a mark is missing
  (`teacher_portal.py:32-34`, `static/teacher.html:3`).

Properties that the modules state and the code does not have; adding one to the cfg of
its run shows the behaviour:

| Property | What the code does |
|---|---|
| `SyncServer!VersionCountsWrites`, `RowLocks = FALSE` | on SQLite two operations made on one version are both applied and the version grows by one (`api/sync.py:310-333`; `docs/RELEASE_1.8.md:12` promises an atomic increment) |
| `Payments!NoOverpayment`, `RowLocks = FALSE` | with `isolation_level="IMMEDIATE"` the transaction begins at the first INSERT, after the balance was read: two payments overpay (`api/finance.py:144-156`, comment at 142-143; `docs/RELEASE_4.46.md:45`) |
| `SyncSystem!OneCopy` | the client's inbox has no column for `server_entity_id`: a record created under a client identifier and updated under its server identifier is kept twice (`offline_client.py:186-193`; `docs/RELEASE_2.17.md:10`) |
| `Startup!Restarts` | `run_server.py` runs the seed in the process that applies the restore; its pooled connection holds the database open, so on Windows the rename fails at every start, and a server that is down cannot cancel the plan (`docs/RELEASE_2.20.md:9,17`) |
| `ClientUpdater!RollbackIsWhole` | a copy back that fails half-way is reported as a rollback (`client_updater.py:168-175`, against `:96`) |
| `Deployment!OneAtATime` | two agents that read one dead number both take the lock; `release_lock` removes whoever's lock (`docs/RELEASE_4.41.md:12`) |
| `Knowledge!OneVersion` | indexing publishes at once, and `set_active` leaves siblings' status (`ai_knowledge.py:160-168`; `docs/RELEASE_4.14.md:12`) |
| `Gradebook!PublishedNoteKept` | the entry of notes refuses only locked ones: a published note gets another score (`academic.py:339-340`; `models/academic.py:60-66`) |
| `Registry!NextCardIsFree` | card numbers are unique over all schools and drawn from a sequence of each: the second school on a server draws the first one's number, and issues no card (`badge_engine.py:16-30`, `models/documents.py:50`) |
| `Subscriptions!ProviderPaidOnce` | one provider reference is accepted twice on one invoice (`billing_v4.py:145-147`; `docs/RELEASE_4.2.md:12`) |
| `BrowserQueue!ReplayPerforms` | every write with a body is stored parsed and sent as `[object Object]`: 422, dropped (`sigma.js`, `sigma-offline.js`) |
| `Catalogue!EditsSurvive` | every start sets starter names, weights, order and scales again and deletes the school's own scales (against the comments at `seed.py:214-215`, `233-235`) |
| `CloudCopies!NeverAnError` | a destination deleted during a copy makes the only commit fail: 500, and all statuses are lost (`api/system.py:57-60`) |
| `StopRequest!GoneIsStopped` | a launch removes another's request, and the asker is told that SIGMA is stopped (`run_server.py:160-161`) |

Seen while modelling, reachable in the models or noted beside them:

*Synchronisation.*
- A retry that overlaps its first request applies an operation and then stores a
  conflict over « applied » (`sync.py:318`; `Overlap = TRUE`; `docs/RELEASE_1.8.md:14`).
- Note transitions and evaluation results write a version they read without a lock
  over one that an offline operation committed since (`academic.py:414-425`,
  `evaluation.py:371-377`); students and guardians are edited without touching it.
- A creation and an update by client identifier that run at once leave two version
  rows for one record (`sync.py:324`, against the docstring at 189-191). A creation
  sent again under a new operation has base 0 and conflicts until it is rebased.
  A refusal is final even if what was missing arrives later. Updates and deletions of
  memberships and results raise `AttributeError` (`services/sync.py:504`).
- Guardians without a phone are not compared (`services/sync.py:292`): each creation of
  one makes a row, so `NamedOnce` speaks of twins of the others. A reference that reads
  as a number is the server's row of that number before it is any station's name
  (`services/sync.py:131-134`, `307-310`): a station that named its records by digits
  would hang rows on another's record, which `Meant` says as it is. An update by such a
  name would even write the row of the number (`services/sync.py:73-76`) under the
  version row of the name (`api/sync.py:186-199`): `SyncServer` and `SyncSystem` suppose
  identifiers that `int()` does not read.
- A station whose apply reply is lost never learns the server identifier
  (`sync_client.py:206-212`, `docs/RELEASE_2.8.md:13`).
- `pull` delivers an operation before its verdict, and the refusal never follows
  (`sync.py:506`, `docs/RELEASE_2.8.md:24`). An operation that a rebase makes
  deliverable has an id behind the cursors (`sync.py:441-447`; `Rebases = TRUE`), as
  has a row that PostgreSQL commits after a later id (`InOrder = FALSE`).
- A push that is refused has already written the state of a station that the account
  may not use (`sync.py:274-280`); the claims of two administrators overwrite.

*Marks and catalogue.*
- An entry that crosses the closing makes its bulletins stale
  (`docs/RELEASE_1.6.md:14`); a crossing update lets a mark's state go backwards.
- The rating kept at entry can differ from the subject's at a band's edge and is stale
  after an edit of the scale; the summary counts drafts; the period calculation mixes
  classes; bulletins are kept by student and period only; the « critical » risk level
  cannot be reached, since nothing creates absences and sanctions.
- A lone competency that bears its domain's label is deleted at a start, against the
  comment at `seed.py:269-270`, and if it was marked every seeding fails silently. Two
  year creations that cross leave two current years on PostgreSQL; a crash between the
  commits of a school and of its periods leaves it without periods.
- `upsert_grades` and `create_assessment` do not look at teachers' assignments (docstring
  `academic.py:186-189`); a post with a scope never passes a route's dependency, which
  asks without context; the dashboard's alert forgets a teacher who entered nothing.

*Students and cards.* The spreadsheet import fails with any new row
(`students.py:607-613`); a class that was left cannot be entered again
(`uq_membership_year`); enrolment looks neither at the student's nor at the class's
status, an offline one not at the capacity; a capacity may be set below the count; a
prefix of more than 50 characters makes `next_matricule` loop for ever
(`matricule.py:61,85`); `/students/grid` is declared after `/students/{student_id}`.

*Money.* The overview writes statuses computed before other commits
(`finance.py:286-287`); the audit line is a second transaction (`finance.py:269-271`);
on a clash of keys the answer is the row of whichever payment has the key
(`finance.py:174-179`, unlike :138). Two partial payments of a subscription that cross
leave its invoice issued although paid; the list and the reconciliation can write
« overdue » over « paid »; a webhook event that failed is never tried again; a school
lifts a central suspension with its own licence key; a reconciliation may be asked for any
date (`api/billing_v4.py:65-74`), and a far one suspends a school that has paid for today.
`PaidIsServed` speaks of the time before one.

*Messages.* A campaign or an export that a stop interrupts stays « sending » or
« running »; a task is lost if the audit line after it fails. `_dispatch` of
`api/communication.py` names `ensure_provider_allowed`, which it does not import, so
`/sms/send*` fail; `deliver` never asks it (`sms_gateway.py:96`). Campaigns write to
guardians that were deactivated. A proposal commits its messages before it is marked, so
that a failure sends them again; approve and reject, or two executions, may cross. A
finance reminder writes for each invoice: the guardian of a student with two receives the
same text twice (`ai_actions.py:261-271`). `NoDoubles` counts letters, so there it speaks
of one invoice, and the count « sent » is of letters, not of people.

*Queues.* `queueGradeBatch` always fails, so that the batch branch of `flush`
(`sigma-offline.js:61-89,169-186`) is never reached (`docs/RELEASE_2.13.md:8`,
`RELEASE_2.14.md:11`); the queue does not know whose writes it holds; 403, 409 and 429 at
a replay drop a write; a write without a body may be performed twice after a lost reply. A
run that a 5xx or a lost answer stopped is started again only by the next page that is
opened or the next event of the network (`sigma.js:401-409`, `sigma-offline.js:97`): a
page that stays open and online keeps its writes. On Android no page calls the bridge, and
a refused enqueue is only logged.

*Start and update.*
- Two stops, the first in a migration and the second between the two renames of the
  media on the way back, followed by a migration that succeeds: an empty media directory
  is served (`upgrade.py:137-138`; `MaxCrashes = 2` violates `Together`).
- The way back from a failed upgrade replaces the media only if the safety archive has any
  (`upgrade.py:134`, against its own « Replace DB/media »): a school without pictures,
  whose upgrade is prepared together with a restore, is put back beside the pictures of
  that archive, without any stop (`leftover`).
- An archive that is accepted at preparation and refused at the start keeps the server
  down (`backup.py:346-386`; `docs/RELEASE_2.20.md:11`); the safety archive of a pending
  upgrade can be pruned, with the same effect (`upgrade.py:148-149`). Two uploads of
  archives share one staging file (`api/system.py:87-103`).
- No caller passes `health_check` (`scripts/deploy_safe.py:4-5`); `sc stop` returns
  early, so that both replacements may fail; the healer may start the service in the
  middle; an empty lock file blocks for ever.
- An interruption between the writing of the first password and its report loses it; a
  torn `.env` is left empty and read as « existing configuration kept »: the key of the
  sessions is lost.
- A stop may be told as timed out while the server closes its connections; two threads
  of the service may leave it « stop pending »; a lifespan that fails ends with code 0.

*Accounts.* Requests that cross can keep a session of an old password valid, lower the
token version or leave two live reset tokens (PostgreSQL); a password kept in the old
format of fewer than 15 characters makes the login fail with `ValueError`; the counter of
failures loses some. `PostPermission.scope == {}` and the unique constraint over a JSON
column do not work on PostgreSQL; two onboardings that cross both make a first
administrator.

*Incidents.* `incident_watch.py` runs in a process that served no request and so sees no
alert: it closes the server's automatic incidents before their recovery
(`incident_automation.py:40-43`, `docs/RELEASE_4.39.md`: « automatic closure after
recovery »). A row that was closed meanwhile is closed again, later. Two calls that cross
open the same incident twice, and incidents that overlap are counted twice as downtime.
Each month's minutes are rounded for themselves (`sla.py:41`): an incident of 21 minutes
that ends a month after 10½ has 10 in each, and one of half a minute in every month is in
no report. `MonthsAddUp` bounds that; it claims no equality.

*Log, copies, pictures.* Writers that cross fork the chain, which is then reported as
invalid though nobody touched it; lines beyond the oldest 10000 are never verified, nor
is the removal of the last ones seen. An archive that is pruned before it is read, or a
picture that changes while it is archived, fails a backup with 500. A failed upload
destroys the picture before it; a crash between a removal and its commit leaves a row
without its file.

## What the models leave out

- Input validation, and permissions but in `Authority` and `Devices`: a request that is
  refused before it touches state is not a step. Payloads, wording, layout, logging.
- *Sync.* A creation of a record that exists is an update of its version in `SyncServer`;
  `OfflineCreation` has what it makes, of rows in one numbering (the tables have one each,
  so that a number of one may also be one of another). Administrators keep their
  permission in `Devices`.
- *Payments.* The status « exempted » is never assigned by the code. Reprints, receipts
  and the mobile money list read what `Payments` writes.
- *Gradebook, Grading.* SQLite's reuse of identifiers. Quotients of `Decimal` are exact
  in the instances (every maximum divides a power of ten). *Teaching*: the period stays
  open, assignments are not taken back (no endpoint does). *Catalogue*: bootstrap on the
  label of an existing year.
- *Subscriptions.* A month is a number of days; the handler of the webhook never awaits
  and so runs alone. *Registry*: streams, which are as levels.
- *Messaging.* Texts, and preferences' opening hours; a provider answers, refuses, or
  its answer is lost.
- *Queues.* Two runs of `flush` in one tab; the cache of reads; forms, which are refused
  offline; a list on the telephone that cannot be read.
- *Startup.* A restore of the archive that is being served. Checks before the `try` block
  fail without rollback (`Fail` at `extract`). Removing the rollback copies never fails;
  in the code an error there undoes a settled restore. The state files are written whole.
  WAL files are part of the database. A migration is one step that succeeds, or stops
  halfway and may or may not resume. A failed upgrade undoes the writes since its
  preparation, as `docs/RELEASE_2.24.md:13` announces: `written` is reset there, and so
  is `issued`, since a licence renewed after the preparation is lost with them. A content
  has pictures or has none for good.
- *Deployment.* `os.kill(pid, 0)` tells the truth here (on Windows it does not).
  *ClientUpdater*: updates follow one another. *FirstRun*: on the Windows build the setup
  comes before the first start. *StopRequest*: a server that serves looks at the file
  within the 30 seconds of an asker.
- *Sessions*: no endpoint changes `is_active`. Times of expiry carry their zone: on SQLite
  they come back without, and the comparison of a reset token raises `TypeError`
  (`auth.py:81,237`), so that the code does less there than `BeginReset` may.
  *Limiter*: a Redis that fails. (After one success there is no way back to the memory,
  `rate_limit.py:90-91`; a thread may take a Redis that another has not reached yet.)
  *Incidents*: the calls for one school, and the pruning of `_last_actions` while another
  thread appends to it; minutes are added exactly and not in floats. *Authority*: scopes
  are the school or one class. *AuditChain*: `TypeOK` and digests are over the lines of
  the bound.
- `TypeOK` uses `Nat` where the code has INTEGER columns: no bound of theirs is near.

## The plan

Done: all parts of the table above, and a theorem for every invariant of a passing run.
Next:

1. A second stop on the way back of a failed upgrade, and runs of `flush` that overlap in
   one tab.
2. Smaller parts: the versions an update agent accepts, the splitting of documents, two
   uploads of archives, a Redis that comes and goes.
