# Verification of lockbot

lockbot hands out shared machines and accelerator cards to a team. Users send commands to
a chat bot (`lock node1 2h`, `book node1`, `free`, ...) or to an HTTP API; a bot keeps, per
resource, who has it, until when, and who waits for it; a scheduler thread sweeps the bots,
releases what ran out and tells people when it is their turn. Around the bots a server
starts and stops them, restores them from backups, issues keys to agents, receives chat
events, sends notices and shows people what they hold.

This directory holds TLA+ models of these parts, the TLC runs that check them on small
instances and the TLAPS proofs that hold for every instance. `PROJECT.json` lists every
component, run, mutant, hazard, finding and theorem, and maps each definition to the source
lines it models. Paths below are relative to `src/python/lockbot`; `app/` stands for
`backend/app/`.

## 1. The system

### Components and what they keep

| Component | Source | State | Operations | Must be true |
|---|---|---|---|---|
| Queue allocator (QUEUE, QUEUE_DEVICE) | `core/queue_bot.py`, `queue_device_bot.py` | per resource: status, current user, booking list | lock, book, take, unlock/free, kickout, kicklock, opkick, sweep | one user per resource, first come first served, a turn is announced before it is taken away, time is not gained |
| Node and card allocator (NODE, DEVICE) | `core/node_bot.py`, `device_bot.py` | per resource: status, current users | lock, slock, unlock/free, kickout, opkick, sweep | shared or exclusive, never both; nobody loses a lease unheard |
| State file | `core/io.py`, `base_bot.py` | `bot_state.json` | atomic save, load with clamping | what was acknowledged survives a crash |
| Command dispatch | `core/handler.py` | (none) | command word to handler, binding commands | the API reaches only what it may |
| Expiry scheduler | `core/scheduler.py` | heap of due times, generations, failure counts | add, remove, reschedule_soon, fire due | every registered bot is swept in time, a retired one never |
| Lifecycle manager and bot routes | `app/bots/manager.py`, `bots/router.py` | live/failed/retiring/staged instances, leases in flight, transition owners | start, activate, stop, restart, delete, update, edit, recover, admit, fatal error | one live instance per bot, no work on a retired instance, the row follows |
| Lease history | `app/resource_api/lease_history.py`, `lease_contract.py` | journal, outbox inside the state file | prepare, commit, flush, recover | every committed change is exported once and in order |
| Lifecycle feed | `app/resource_api/lifecycle_feed.py` | cursors | page, verdict | "verified" is the whole truth |
| Keys of agents | `app/resource_auth/*` | pending codes in memory, rows of keys, authority guards | create, reserve, confirm, unbind, poll, authenticate, reverify | a command acts with a live key of this identity; one key to a code and user |
| Agent command and read API | `app/resource_api/commands.py`, `resources.py`, `views.py`, `operator.py`, `ingress.py`, `traffic.py` | snapshot cache per generation, budgets | execute, poll, view, kick | read your writes; an obeyed retry-after admits |
| Notices | `app/resource_api/notification_queue.py`, `notifications.py` | a batch per bot and group | offer, send, retry, cancel, stop | sent at most once, to the present target and in order; one outcome for good |
| Task notes | `app/resource_api/usage.py`, `usage_cleanup.py` | notes of holdings | prepare, register, put, read, delete, clean up | shown only with the holding and key it was written for |
| Delegated audit reads | `app/audit/*` | grants, windows | create, rotate, revoke, read | what was disclosed is on record |
| Feishu ingress and connectors | `app/feishu/router.py`, `connectors.py`, `unbound.py` | claims, routes, receivers | receive, execute, change an application | a message is executed once, for the bot and identity it was accepted for |
| Group membership, query panel | `app/feishu/membership.py`, `query_panel.py` | an observation and a panel row per group | event, query, edit, post | nothing is posted for a group the bot is not in |
| Platform applications | `app/platform_applications/*`, `core/platforms/feishu.py` | two stored secrets, retained clients, tokens | create, rotate, delete, backfill, send | nothing is sent under a secret that was rotated away |
| Names | `app/feishu/display_names.py` | cached labels, one batch per application | page, warm, ask again | a page says "unavailable" only when nobody is asking |
| Broadcasts | `app/broadcast/*` | jobs, targets, group activity | preview, submit, worker | at most one post to a recipient, none left untried |
| Personal panel | `app/personal_panel/*` | tickets, sessions | issue, log in, show, log out | what is shown is good after the report about it |
| Service traffic | `app/service_traffic.py` | bounded tables of counters | record | tables and totals agree |
| Backup and restore | `app/backup/*` | archives, settings, last result | back up, restore | a bot's row and file are a pair |
| Startup | `app/main.py`, `state_ownership.py`, `state_migration.py` | two locks, the schema, files under a root | own, migrate, move, seed, serve | one server per root and database; saved state is never lost |
| Admin, settings, auth, preflight, metrics, web console, agent client | the rest | database rows | CRUD, export | nothing of the above depends on it |

### How they interact

A chat message arrives through a receiver process, is claimed in the database and executed
by a worker; an API call is authenticated by its key. Either is *admitted* by the manager (a
counted lease against one instance generation), takes the bot's authority guard if a key
matters, is dispatched to one handler and runs there under the bot's state lock: check,
change the records in memory, write the file with the frame of the change, append the frame
to the history, wake the scheduler. Afterwards the command invalidates the snapshot that
reads share, stores its task note and offers a notice.

The scheduler's single thread pops due entries, admits each as a lease of its own and calls
the bot's `_check_and_notify`, which changes and saves the records under the state lock and
sends its message after releasing it. Starting, stopping, restarting, deleting and restoring
go through one transition owner per bot; stopping marks the bot retiring, unregisters it and
waits for every lease to drain. An identity change or a restore raises the bot's revision,
which every key, claim, note, panel, broadcast target and audit window carries and compares.

### What is hard about it

* A booking's meaning depends on marks (`is_notified`) and on the clock, and both are
  rewritten by commands of others: claims, takes, kicks, sweeps.
* A sweep announces after it saved: a failed save, a failed send or a crash in between
  loses the announcement but not the mark.
* A restart falls back to the file and may run with other limits than before.
* The policy (caps, no relocking, API limits) is tested against the records of the
  moment, which change meaning with the clock between two sweeps.
* The scheduler, the manager and the bots have a lock each and read the others' state
  without it; a stop, a fatal sweep, a start and an API call may overlap in any order.
* Almost every service reads a row, lets go of it for an HTTP call and comes back: the row's
  bot may have been moved, restarted, deleted or restored by then.
* Files, rows, memory and the chat platform cannot be changed together. Each service has its
  own order of steps and its own answer to a death between two of them.

## 2. Plan

| # | Modules | What | State |
|---|---|---|---|
| 1 | `Holdings`, `BaseBot`, `QueueBot`, `FairLine`, `MCQueueBot`, `DataLemmas`, `QueueBotProofs` | queue bots: who gets a resource and in which order | done |
| 2 | `NodeBot`, `DeviceBot`, `SharedLock`, `MCDeviceBot`, `DeviceBotProofs` | node and card bots | done |
| 3 | `BotScheduler`, `BotManager`, `MCBotManager`, `BotManagerProofs` | heap, generations, lifecycle, admission, rows | done, quota of running bots left |
| 4 | `LeaseJournal`, `MCLeaseJournal`, `LeaseJournalProofs` | outbox in the state file, history, recovery, the reader's verdict | done |
| 5 | `Startup`, `Restore`, `BackupTimer`, `Selections`, `Broadcast`, `MCProgress`, `ServerProofs` | what survives the process and what must end | done, archive writing left |
| 6 | `Enrollment`, `Notices`, `TaskNotes`, `Polling`, `Budgets`, `Traffic`, `AgentProofs`, `ServerProofs` | the API around a bot | done |
| 7 | `FeishuIngress`, `GroupPanel`, `AppCredentials`, `DisplayNames`, `MCAppCredentials`, `ChatProofs` | the chat side | done for Feishu |
| 8 | `AuditDelegation`, `PersonalPanel`, `MCServices`, `AgentProofs` | what people are shown | done |

Abstract specifications: `FairLine` (an owner and a first-come line per resource) is what
`QueueBot` implements; `SharedLock` (an owner or sharers per resource) is what `NodeBot` and
`DeviceBot` implement. Left for later, as a model: the quota of running bots
over several bots of one user.

## 3. The modules

### Allocators

`Holdings` holds the record of one resource and the helpers all bots share (finding and
removing users, remaining time, quota and relock policy, expiry, clamping). The code stores
`(start_time, duration)` and reads the clock; the model stores what those reads yield: the
time left of a lease, the duration a waiter asked for, and how long ago a waiter was told
it is its turn. `Older` is the passage of one unit of time over a record.

`BaseBot` holds the state all bots share and the steps they inherit:

| Variable | Code |
|---|---|
| `state` | `bot.state.bot_state` |
| `disk` | `bot_state.json` |
| `maxDur` | `MAX_LOCK_DURATION` of the running instance |
| `saved` | whether the last write of the file succeeded |
| `sending` | the message a sweep composed under the lock and sends after it |
| `told` | history: which notices reached the chat platform |

`QueueBot`, `NodeBot` and `DeviceBot` add one action per command and the sweep. A command
runs under the bot's state lock and is one step, including the save at its end: the guard
is the conjunction of the handler's refusals (limit, policy, availability, maximum), the
effect is applied to all named resources at once, and `Persist` writes the file, or fails
to (memory keeps the change; the file may or may not have been replaced). A refused command
changes nothing and is not a step. The sweep is two steps, `Sweep` under the lock and `Send`
after it, with anything in between. `Restart` drops the instance and loads the file.

A QUEUE_DEVICE bot is the queue engine over cards: `Nodes` are then cards and `MachineOf` is
the machine whose number the API limit counts. A DEVICE bot is `NodeBot` over cards plus the
command that frees whole machines, which parses its own list.

### Lifecycle

`BotScheduler` is the scheduler's registry, heap and thread as operators; `BotManager`
extends it with the threads around it and is the specification of both. Every action is one
critical section of a lock, or one step between two: the thread pops due entries with what
is registered (`FireDue`), takes one (`NextItem`), enters its lease (`Enter`), sweeps
(`Sweep`), accounts for the outcome (`CountSuccess`, `CountFailure`, ...), pushes it again
(`Requeue`) or goes through the fatal path (`RemoveFailing`, `OnFatalError`, `CheckOurs`,
`CommitError`, `ReleaseFatal`). A lifecycle request is a job of an admin thread that moves
from place to place: `begin`, `construct`, `publish`, `commit`, `register`, `open`, `nudge`
for a start, `retire`, `unschedule`, `drain`, `stopped` for a stop, one after the other for a
restart, and back through a stop when a commit or a construction failed (`reset`). The startup
recovers the bots one by one in the same way before it serves (`MayRecover`). Two clients
hold commands or reads for as long as they like.

| Variable | Code |
|---|---|
| `registered`, `newest`, `gens`, `failures` | `_instances` (with `_callbacks`, `_admissions`), `_mgr_gens`, `_gens`, `_failure_counts` |
| `heap`, `due`, `step`, `item`, `delay` | `_heap` as a bag with the time left instead of `fire_at`; the locals of `_fire_due` |
| `bots`, `failed`, `staged`, `retiring`, `generations` | the manager's tables of the same names; an instance is known by its generation |
| `inflight`, `fatalPending` | the two counters a drain waits for |
| `op`, `job` | what the threads really do; the transition owner of a bot is the thread whose job names it |
| `row`, `startFailures` | the `status` and `consecutive_failures` of the bot's row |
| `recovering` | the bots the startup has still to bring back |
| `streak`, `cooldown` | history: failed sweeps in a row, what is left of a back-off |

A crash needs no action: it leaves any row and an empty memory, which are the initial states.

### Journal

`LeaseJournal` models what a running bot writes: the state file with the frames of the
commits that the history file does not hold yet, and the history file itself. Where the
queue and device bots take a save as one step, this module takes it apart: `Change` and
`Raise` (the handler), `Prepare`, `Rename`, `WriteFails`, `Commit` (the write and what the
journal does before and after it), `Rescan`, `Publish`, `Skip`, `AppendFails`, `FlushDone`
(the append), `Load`, `LoadClamped`, `OpenRecovered`, `OpenLegacy`, `OpenNew`, `OpenFails`
(the start). The state lock is held throughout, so nothing interleaves with these steps but
what the module calls faults: an error of the file system, the end of the process, a loss of
power, an edit of the file or a change of identity while the bot is stopped.

| Variable | Code |
|---|---|
| `state` | `bot.state.bot_state` |
| `file`, `synced` | `bot_state.json` with its `lifecycle_outbox`: what a program reads, and what a loss of power leaves |
| `log`, `safe` | the lines of `resource-lifecycle.jsonl`, and how many of them a loss of power leaves |
| `journal` | the `LeaseJournal` with its `DurableOutbox`: `sequence`, `state`, `gap`, `pending`, `known`, `rescan` (`retry_scan`), `prepared` |
| `phase` | where the thread with the state lock is |
| `revision` | `identity_revision` |
| `changes` | history: how often the allocator's state changed; each frame keeps the count of its moment |

A frame holds the states a digest stands for. A state with too many entries is `Overfull`
and looks like any other such state in the history. `Verified` is the feed's verdict.

### What survives the process, and what must end

| Module | Models | State | Property |
|---|---|---|---|
| `Startup` | `main.py` before the first request: locks, migrations, the move of saved state by a link and an unlink, for processes that race over roots and die anywhere | `rootLock`, `dbLock`, `stage`, `plan`, `schema`, `unfit`, `files` | `StartsSafely`: a serving process is alone with its root and database on this release's schema, and no file is lost on the way |
| `Restore` | `_restore_apply` step by step against starts, stops, deletions, bindings and the death of the process | `record` (the row), `stateFile`, `live`, `grant` as *origins*: which archive, or the deployment, a configuration and a state came from | `RestoredWhole`: a bot that may be started has the state of its configuration; `RestoreEnds` |
| `BackupTimer` | the backup thread's sleep, skip and attempt, with settings changed meanwhile | `timer`, `settings`, `reloaded`, `lastRun`, the hour and the zone | `BackupsRecur`: while automatic backups stay on, attempts never stop |
| `Broadcast` | preview, submission, the worker's two commits around a post, recovery | `targets`, `attempt`, `posts` | `ToldOnce`, `BroadcastsEnd` |

### The services around the bots

| Module | Models | Property |
|---|---|---|
| `Enrollment` | a key from its code to its last use: `create_binding`, `_chat_bind` with reservation, commit and finalize as steps, polls, the throttle, the authority guard, identity changes, `require_resource_actor` and `reverify_actor` around the admission | `KeysAreSound`: commands act with live keys of the present identity, one key to a code and user, and a code is used up only by a committed confirmation |
| `Notices` | `NotificationQueue`: offers, the first send on the command's own thread, batches, eviction, slots, retries, retargeting, `stop` | `NoticesAreSound`: each notice is in one place and has one outcome for good, sends go to the present target in the order of the commands |
| `TaskNotes` | `prepare`/`register_command_usage`, the three note routes, both cleanups, while chat and the sweep change the holdings | `NotesAreSound`: one note to a resource, its holder's, which no cleanup takes |
| `Polling` | `get_resources`, view links and operator reads through `_SnapshotCache` with its leader and followers, commands, releases and replacements | `ReadYourWrites` |
| `Budgets` | token buckets, sliding windows, the tier gate and their retry-after, in exact arithmetic | `RetryAfterHolds`: who comes again when told is served unless others used the shared budget |
| `Traffic` | the bounded counter tables | `CountersAgree` |
| `FeishuIngress` | delivery at least once, claims and their pruning, recheck, execution, hints, receivers and changes of the application | `IngressIsSound`: executed once, for the identity accepted for; received with the present secret only |
| `GroupPanel` | membership events in any order, and a panel edited or posted between two transactions | `PanelIsSound`: the panel on record is of this binding and membership, one message to a query, membership is what the latest event says |
| `AppCredentials` | the two stored secrets, rotation, deletion, creation, backfill, retained clients, tokens | `CredentialsAreSound`: no request under a secret that was no longer stored when it was last checked; a registry row goes only with its source |
| `DisplayNames` | the name cache, one batch per application, the page that asks again | `LimitedIsTrue` |
| `AuditDelegation` | grants, rotation, revocation, a read from its authentication to the disclosure | `DisclosedIsOnRecord` |
| `PersonalPanel` | tickets, sessions, reports and their checks | `ShownIsCurrent` |

In these modules a message, a text or a report is what the properties tell apart: who it is
for, which identity, generation or moment it is of. A read-modify-write that the code does in
one transaction or under one lock is one action; what it does around an HTTP call, an
`await` or two transactions is as many actions as there are gaps. History variables (`runs`,
`posts`, `posted`, `message`, `taken`, `fate`, `disclosed`, `minted`, `settled`) record what
left the process and constrain nothing.

`FairLine` and `SharedLock` are the abstract specifications. `Selections` holds the one helper
on sequences that the community modules only have as a recursive operator. `MCQueueBot`, `MCDeviceBot`,
`MCBotManager`, `MCLeaseJournal` and `MCAppCredentials` give the constants values. `MCProgress`
and `MCServices` put several modules into one run: the modules share no variables, so a
behaviour is a behaviour of one of them, which `part` names, and the variables of the others
stay as they began; the state graph is the disjoint union of theirs. `MCProgress` runs
`BotManager` beside the four modules of the first table with their fairness
(`ServerFairness`); `MCServices` runs the modules of the second table and the safety of
`Broadcast`.

## 4. The runs

| Run | Checks | Shows | Distinct states |
|---|---|---|---|
| `line` | `TypeOK`, `QueueInOrder`, `NoSilentTimeout`, `NoGain`, `FairLine`, `TurnsEnd` | one node, three users: the queue is a fair line, no time is gained, no turn passes unannounced, leases and turns end, bookings get their turn | |
| `cap` | `CapOnNewSeats` | two cards of a machine under a cap of one and an API limit of one machine | |
| `restart` | `SavedInOrder` | failing writes and sends, crashes, a lowered maximum | |
| `lease` | `Modes`, `EndsAnnounced`, `SharedLock`, `LeaseEnds` | exclusive and shared leases with renewal and early warning | |
| `free` | `FreedIsFree` (violated) | finding 1 | |
| `life` | `TypeOK`, `SavedStateHasOneUser`, `SweepsFollowService`, `RowTellsTruth` | two requests, two commands or reads and the sweep thread, from any row | 474,589 |
| `progress` | `ServerTypeOK`, `RestoredWhole`, `LifecycleProgresses`, `StartsSafely`, `WorkEnds` | any commit or construction may fail and a command may never end; two processes start over one deployment; a restore; backups; a broadcast | 278,193 |
| `journal` | `TypeOK`, `PublishedOnce`, `ToldIsDurable`, `VerifiedIsComplete`, `EvidenceKept` | any three faults around four commits: frames are published once, never before they are durable, never lost in silence, and a verified window is the whole truth | 4.0 million |
| `services` | `ServicesTypeOK`, the twelve properties of the second table above and `ToldOnce` | every service keeps its promise while what it relies on changes under it | 1,091,535 |
| `phantom` | `RowTellsTruth` (violated) | finding 2 | |
| `backoff` | `BackoffHeld` (violated) | finding 3 | |
| `secret` | `SentUnderStoredSecret` (violated) | finding 4 | |

Findings, with the quoted sources, are in `PROJECT.json`: (1) `free a,b,c` on a DEVICE bot
frees the first and the last machine only and reports success; (2) a restart whose
constructor raises anything but `RuntimeError` leaves a row that says running; (3) every
nudge of the scheduler leaves one more entry of the bot in the heap for good, so a failing
sweep is retried without its back-off; (4) the tail of `create_application` runs outside the
guard that rotation holds and can give retained clients a secret that was rotated away.

Every property of a passing run has a mutant in `PROJECT.json`: a definition beside the one
it stands in for, as a plausible mistake in that code would have it, with which TLC finds the
property violated under the same configuration.

### Bounds and why they are enough

* Resources: policies, the order of a queue and the modes are per resource, so one resource
  suffices for them; two are used where a rule relates several (`cap`), three where a list of
  three matters (`free`).
* Users: three, so that a queue has a head, a successor and a holder in front of them.
* Durations: one and two units, so that one request is longer than another and a
  remaining time is shorter than its request; a claim window of one unit.
* `MaxLag`: how far past its deadline an unswept lease is told apart. `MaxLeft`: how far
  renewals may extend a lease. Both keep the state finite and cut nothing the properties
  look at: the sweep treats every expired lease alike.
* `Tracked` names the notices the history variable keeps in a run; it constrains no step of
  the bot.
* One bot in `life` and `progress`: the manager's tables and the registry are per bot. What
  other bots do to it is that its due entry waits, which a second entry of the same bot does
  too.
* `MaxGeneration` two and `MaxRemovals` two: a late step of a first instance meets the second.
  `MaxEntries`: how many entries a bot has before commands stop adding some (finding 3 is that
  the code has no such bound). The fatal limit is two, so that one failure is not yet fatal;
  three in `backoff`.
* The intervals are one unit each in `life` and none in `progress`, where every order of the
  due entries is possible anyway; in `backoff` the back-off is longer than a nudge.
* `CommitFaults` of `life` holds the commits the code answers for (start, recovery, fatal
  error). A failed commit of a stop leaves the old row, and the caller is told. `progress`
  lets every commit fail, that of a fatal error on the scheduler's thread included, which the
  thread only logs (`manager.py:586`): the row then goes on saying "running" while the bot is
  set aside in memory, and what `FailureIsRecorded` promises is that this is the only such
  case (`CommitLost`) and that a stop does not wait for the record for ever. `StrayErrors` is
  the gap of finding 2.
* `journal`: three faults are what the longest recoveries need (two failed appends and a
  failed write of a full outbox; a failed sync, a crash and a loss of power), four frames
  are a baseline and three commits, which overflow an outbox of two. Of three states one is
  empty and one is `Overfull`. `MaxChanges` only ends behaviours.
* `progress`, startup: two processes, two roots, two bots, so that a process finds the root,
  the database or one of two files taken or moved by another. Restore: one bot and two
  archives beside the deployment, because each bot of a selection is restored on its own; two
  identity changes, so that a second restore follows the first. Backups: servers in UTC, east
  and west of it, and two hours. Broadcast: two groups, one death.
* `services`: a second actor wherever two of a kind meet (readers, pollers, senders, logins,
  pages, owners, casters), which are the symmetric `Twins`; and two of whatever can replace
  another (identities of a bot, instances, secrets, holdings, keys, targets, tickets, routes
  in a table of one). Budgets run eight ticks with a window of three, so that a full window
  passes after the last refusal. `LeaveAndReturn` are two membership events of one second,
  which only their tie-break orders. `Overlapping = FALSE` excludes finding 4,
  and `IdsReused = FALSE` the reuse of a row's id (section 7).

### Fairness

`WF(Tick)`, `WF(Sweep)`, `WF(Send)` in the allocators: time passes, the scheduler thread keeps
sweeping (an idle bot is swept every 60 s, a busy one when its next deadline comes) and the
thread that composed a message goes on to send it. Nothing is assumed of users and operators:
a queue must move although nobody acts. In `BotManager` the scheduler's thread goes on (a
sweep is bounded by its HTTP timeouts) and so does every thread that serves a request;
commands may be held for ever, which is why a drain has a deadline, and nobody has to make a
request. A restore's thread goes on (`RestoreStep`), the backup thread runs and hours pass
(`Decide`, `WakeUp`, `Skip`, `Attempt`, `HourPasses`), and so does the broadcast worker
(`WorkerStep`). The process may die where a module says so; the number of deaths is bounded,
because nothing ends in a process that dies for ever.

In `TurnsEnd` a booking's turn is promised unless takes of the resource never end, and
`LeaseEnds` on shared leases unless the same user renews for ever.

## 5. What the properties say beyond the code

* `FairLine` and `SharedLock` compare every reachable step of a bot, over all commands and
  the sweep, with a dozen lines that say what the bot is for.
* `NoSilentTimeout` and `EndsAnnounced` relate the sweep's silent branches to what was
  really sent before.
* `NoGain` says what `FORBID_RELOCK` means across every path from booking to lease and back.
* `SavedInOrder` holds across failed writes and restarts.
* `SavedStateHasOneUser` compares the counters a drain trusts with what the threads are
  doing, and says what the drain is for: the saved state has one user at a time.
* `SweepsFollowService` relates the scheduler's bookkeeping, which lags behind the sweep it
  is about, to the instance that serves now.
* `VerifiedIsComplete` compares a verdict that a reader computes from files and one
  checkpoint with everything that ever happened to the allocator's state; `ToldIsDurable` and
  `EvidenceKept` relate the two files across every order of their writes, syncs, crashes and
  losses of power.
* `RestoredWhole` and `StartsSafely` quantify over every place a process can die in.
* `KeysAreSound`, `IngressIsSound`, `NoticesAreSound`, `PanelIsSound`, `ToldOnce` and
  `DisclosedIsOnRecord` compare what a service did in the end with the identity it was asked
  for, across the gaps in which that identity changes.
* `ReadYourWrites`, `ShownIsCurrent`, `LimitedIsTrue` and `RetryAfterHolds` are about an
  answer and the moments between which it was put together.

## 6. Proofs

`tlapm` proves, for every value of the constants:

* `QueueBotProofs`: `TypeCorrect`, `AlwaysInOrder` and `AlwaysSavedInOrder`. None of them is
  inductive alone. The inductive invariant says of the records in memory *and* of those on
  disk that they are well typed, exclusive, seat nobody twice and run a window only for the
  head of an idle resource, and that the two agree unless the last write failed; the part
  about the disk is needed because a restart makes it the state. Each command maps a good
  record to a good record (one lemma per command); one lemma then lifts any such operator
  through `Update` and `Persist`.

  `ImplementsFairLine`: every step of a queue bot is a step of `FairLine` or a stutter, for
  any resources, users and policies. The commands walk over the resources they name, so the
  proof first says of one resource what each operator does to its owner and its line
  (somebody leaves, books, claims at the head, is preempted to the head), and then that a
  command does the same thing to each resource it touches. `NobodyGainsTime`: with
  `FORBID_RELOCK` no step adds to what somebody is entitled to of a resource, for any
  durations; this is `EntitlementNeverGrows`. `OnlyTakesDelay` is `WaitOnlyGrowsByTake`: under
  the same policy no step but a take out of turn makes anybody in the line wait longer. `NobodyGains` puts the two together
  to `NoGain`. What a waiter waits is a sum over a line that a command reorders, so the proof
  says of every operator on a record which members of the line stay in front of whom
  (each after the step comes from one before it, with no more time), and `SumInjected` of
  `DataLemmas` compares the sums. All three assume that the file can be written
  (`~SaveFaults`): a restart after a failed write goes back to an older line.

  `NewSeatsWithinCap` (`CapOnNewSeats`): a command gives its user no seat beyond the cap, in
  how many resources it may name; it needs the nodes to be finitely many, to count them, and
  `~SaveFaults`. `NoTurnLostUnheard` (`NoSilentTimeout`): nobody loses a turn without having
  been told of it. Its invariant `TurnHeard` says of every waiter marked as told that the
  notice arrived or is in the message the sweep is about to send, so it assumes that writes
  and sends succeed and that the process does not die between them (`~SaveFaults`,
  `~SendFaults`, `~Restarts`): with each of them the notice can be lost, which is among the
  known limits of section 7.
* `DeviceBotProofs`: `AlwaysModes` and `NodeAlwaysModes` along the same line, and
  `ImplementsSharedLock`: every step of a device bot is a step of `SharedLock` or a stutter,
  given that the file can be written (`~SaveFaults`); without that, a restart may fall back
  to a file some commands behind, which is a jump no lock specification allows.
  `EveryEndIsAnnounced` (`EndsAnnounced`), under the same three assumptions as
  `NoTurnLostUnheard`: nobody loses a lease that ran out without a notice about it.
  `MarksAreOfTheLease`, through all faults: a mark that silences the sweep is never older than
  the lease's last extension.
* `BotManagerProofs`: `TypeCorrect` and `SavedStateIsOwned`, for any bots, request and command
  threads, limits and faults. The inductive invariant adds that a bot has one owner, that an
  owner about to load or write the saved state has found no instance (and nobody else can
  make one), and that whatever is at work has an instance and belongs to the newest
  generation. The step that needs all of it is the end of a drain: the counters are zero,
  they count the work exactly, so nothing is at work when the instance is taken away. The
  bounds on generations and removals are not used: the theorems hold for any value of them.
  On top of that, `ServiceIsSwept`. The invariant `RInv` says how four
  things that no common lock protects stay together: the scheduler's registry, the entries of
  the heap, the entries popped with the generation they were captured from, and the manager's
  registry. Its core is `ItemSound`: a popped entry is current exactly as long as the
  registration it was captured from lasts, because a generation is registered once and older
  ones are refused; so an admitted sweep of a registered bot has a current entry, its failure
  is counted for the generation that failed, and the thread's own removal hits that generation
  or nothing.
  `RowsAreTrue` (`RowTellsTruth`): once recovered, the row of a bot nobody owns tells whether
  it has an instance and whether that one serves. The invariant `RowInv` has three parts.
  `RequestTrue` is what a request may rely on at each place: that the row is true when it
  leaves without committing, and that the row is one a start may begin from after its drain.
  `RestTrue`: the row of a bot nobody owns is true, or the bot is still to be recovered and
  may be started. `WorkSound`: a fatal error is recorded only of an instance that failed, only
  an instance is being retired, and nothing works for one that is not open yet; so the drain
  of a roll-back has nothing to wait for and cannot be given up. The theorem assumes
  `~ StrayErrors` and that the commits of a stop, a deletion, an edit and the roll-back
  (`stop`, `delete`, `update`, `reset`) succeed; those of a start, a restart, a recovery and
  a fatal error may fail. `life` satisfies this. Without the first, finding 2 (`phantom`)
  refutes it; without the second, a drained bot keeps a row that says it runs.
* `LeaseJournalProofs`: `JournalTypes`, `NoFrameTwice`, `HistoryNeverAhead` and
  `VerifiedWindowIsComplete`, for any states, any bound of the outbox and any number of
  commits, failures, crashes and restarts. The inductive invariant `JInv` says where frames
  are. `Evidence`: wherever a frame is, in the history or in one of four outboxes (the file,
  what of it is synced, memory, what memory restores when a write fails), it is the same
  frame; a published frame is the only one with its number in its journal, although a write
  that failed after its rename leaves a frame in the file whose number memory gives away
  again; and an unmarked frame was made right after one that is settled. `Files`: outboxes
  are in order and the history is behind both forms of the file. `Session`: what memory
  believes of the files at each place of the thread. The step that needs most of it is
  `Publish`: the head of the outbox is not in the history because the journal knows exactly
  what is, and takes no number from another frame because what is flushed is what the
  synced file holds, or belongs to a journal that no file knows. `WhatIsToldIsDurable`
  (`ToldIsDurable`): `Newest` follows the newest frame from the write that stages it to the
  line that tells it, and says of each stage that file, synced file and last line agree on
  the state. `EvidenceIsKept` (`EvidenceKept`): `Backed` says that the file and the outboxes
  in memory carry whatever a loss of power would leave in the synced file and not in the
  history, unless an overflow or a new journal says otherwise.
* `ServerProofs`: `RestoreTyped` and `RestoredIsWhole`, for any bots, archives and number of
  identity changes. A restore takes the pair of row and file apart for three steps; `RowInHand`
  says why nobody sees it: from the overwritten row to its promotion the row is behind
  `recovery_required` and owned by the restore, nothing lives that could save, and what is
  about to be installed is what the row has by then. `Constructs` says the same of a start:
  whoever constructs owns the transition of a bot that may be started. A restore that dies at
  any step leaves the fence up.
  `StartupIsSafe` (`StartsSafely`), for any processes, roots and bots: only one process is
  beyond both locks, and by where it stands in the order of the migrations (`Order`, `After`)
  one knows which steps are done, that no two files of a bot count, and that no saved file
  is left at the old place once it serves. Deaths at any step leave the locks free and the
  work to be done again, which finds it done or does it.

  `ToldAtMostOnce` (`ToldOnce`), for any jobs, bots and groups: whatever dies or fails between
  the two commits of a recipient, it is written to at most once; on record as accepted it was
  written to, as pending or skipped it was not, and "sending", "failed" and "unknown" leave it
  open. The invariant `BroadcastInv` says that the recipients of a job are of different
  groups (`RowsSound`, from `RecentTargets`, which keeps the first row of each), that the one in
  hand is marked "sending" and nobody wrote to it before it was (`AttemptSound`), and that
  every post has its recipient (`PostsSound`).
  `RetryAfterIsHonest` (`RetryAfterHolds`), for any limits, windows and callers: who waits for
  as long as it was told is admitted, whatever the others do meanwhile. `BudgetsInv` keeps
  the tables in order (`TableSound`) and, for each caller that was sent away, what must be
  left of its window or bucket by the promised time (`PromisesSound`).
  `CountersAlwaysAgree` (`CountersAgree`), for any bounds of the tables: `TrafficInv` says that
  each total is the sum of its routes and at least that of its minutes (`Truthful`), that a
  bot and a credential have one row (`RowPerBot`, `RowPerCredential`), and that the rows
  together, with what is counted as unattributed, stay below the counter above them
  (`BelowTotals`); evicting a row moves its counts and loses none of them.
* `AgentProofs`: `ReadsSeeWrites`, for any number of readers, writers and instances. The
  invariant says that a cached copy is at least as new as every command whose invalidation
  has run (`CacheFresh`), and that a leader whose copy is older holds a token that is void
  and will not publish (`Leads`); a reader's copy is then at least as new as what it had to
  see (`Sees`). The case that needs the token is a leader that copied before the command,
  and publishes after it.

  `KeysStaySound` (`KeysAreSound`): a live key is of the bot's present identity and from a
  code younger than that (`YoungKeys`), whoever acts on a bot's keys has its guard
  (`Guards`), and a code is reserved for one worker while it is confirmed and gone, or about
  to be, once it has a key (`OneUse`). `NotesStaySound` (`NotesAreSound`): a key has one row
  for a resource (`OneRow`); that only the holder's note is shown follows from what its proof
  must match, and that no cleanup takes a shown note is shown step by step.

  `NoticesStaySound` (`NoticesAreSound`), for any number of bots, slots, offers and targets and
  any limits: a batch that sends has one job and defers nothing (`BatchSound`, `OneJobEach`), a
  job that still has its batch is older than all the batch retains, and one that is cleared to
  send is of the present target, which cannot be retired under it (`JobSound`); a notice is in
  one batch or one job (`Apart`). The case that needs the order is the deferred text: it goes
  back to a batch that may have grown meanwhile, in front of what came in. Jobs are told apart by
  the slot they take, for two cancelled jobs may carry the same text, a bare count of losses.
  That an outcome is final (`OutcomesAreFinal`) follows: only what is in a batch or a job gets
  one, and what has one is in neither.

  `PageIsCurrent` (`ShownIsCurrent`) and `DisclosuresAreOnRecord`. For the page, what a tab
  holds after its last check is among what was proved since the report came in, and a ticket
  that made a session is gone (`Attests`, `SpentOnce`). For the audited reads, whoever carries
  notes past the commit holds the guard and has a reserved place in the summary (`Guarded`,
  `Reserved`); the notes are of no newer identity than the one on the row, and a grant is of
  no newer one than the bot's (`PastScope`, `Carries`); so each disclosure has a committed count
  of its own identity.
* `ChatProofs`: `LimitedWasSo` (`LimitedIsTrue`), `PanelStaysSound`, `IngressStaysSound` and
  `CredentialsStaySound`, for any number of messages, chats, groups, queries, senders and
  changes. For the panel, what a sender remembers between its two transactions holds for as
  long as the row has the generation it read (`Remembers`). For the ingress, a message that
  may still be accepted has no claim and no job, and one that was accepted has one of each
  (`MessageSound`); a receiver's secret is the application's as long as it may receive
  (`ReceiverInv`). For the credentials, whatever the stores yield is the newest secret
  (`StoresAgree`), who has committed a change brings to the clients what is stored
  (`BringsStored`), and a sender past the guard has a client with no older secret than the
  one it compared (`SenderOK`); the row an orphan deletion has read is another by now or has
  no source (`OrphanOK`). The theorem assumes `~Overlapping` and `~IdsReused`: without the
  first, finding 4; without the second, section 7.

* `DataLemmas`: what the proofs about sums and selections rest on. The provers cannot use the
  library's induction theorems, which take an operator as a parameter; but an induction over a
  *set* of numbers needs none: `SetInduction` says that a set with 0 and the successor of each
  member holds all of them, because the least number outside would have a predecessor
  (`NatLessThanWellFounded`). A property of a recursive function is then the set of the
  numbers where it holds. On this rest the lemmas about `Picked` (module `Selections`: the
  members of a sequence at some indices, in their order; each comes from one, and order and
  differences survive), the sums over functions and rows (a row added, changed or dropped, a
  sum of no more than another), and the folds of the community modules, which are opened as
  recursive functions over finite sets.

The types of the parts, and of all of them together: `ServerTyped` (`ServerTypeOK`, in
`BotManagerProofs`) and `ServicesTyped` (`ServicesTypeOK`, in `ChatProofs`, which extends
`MCServices` and the modules of the parts' proofs). Every step of the composed specifications is
a step of one part that leaves the variables of the others alone; so a behaviour of the
composition is one of each part, which is at rest while another moves, and what is
proved of a part's specification holds in it. The theorem about each part (`PollingTypesHold`,
`EnrollTypesHold`, `NoteTypesHold`, `NoticeTypesHold`, `NameTypesHold`, `GroupTypesHold`,
`IngressTypesHold`, `CredentialTypesHold`, `PersonalTypesHold`, `AuditTypesHold`, `StartupTyped`,
`RestoreTyped`, `TimerTyped`, `BroadcastsTyped`, `BudgetsBoundedAlways`, `TrafficBounded`) adds to
its safety invariant what its type says beyond it. Some of that is more than typing:
no more jobs are in hand than there are slots, no table outgrows its limit (a full one evicts
before it inserts, and the common row of the routes comes on top), no list of outstanding codes
its own, a batch of notices keeps within its events, a command on notes runs under a key that is
in use, a token is not newer than its generation, the guard of the audit is with a reader who works under
it.

Assumptions are the named `ASSUME`s of the constants, which TLC evaluates in every run; what
a theorem assumes beyond them stands in its statement, and a run whose configuration satisfies
it checks the same property. TLC checked the inductive invariants on small instances before they
were proved.

Model-checked only: liveness (`TurnsEnd`, `LeaseEnds`, `LifecycleProgresses`, `WorkEnds`)
and everything that involves fairness, which the prover does not handle. Every invariant and
every action property of a passing run is stated by a theorem.

## 7. Not modelled

* Texts, languages, aliases, usage displays, signing and HTTP of the chat platforms; the
  Infoflow adapter's requests (of which `PostBroadcast` has the outcomes) and its provider
  rows, which keep no token.
* A change of the configured resources between two runs of a bot (`CLUSTER_CONFIGS`): records
  of resources no longer configured are dropped at load.
* A damaged state file, which loads as an empty one; the program never writes one.
* A wall clock that is set back, in the bots: `remaining_duration` asserts it is not
  (`core/utils.py:73`). The journal's reaction to one is modelled (`SeeReversal`, `Reversals`).
* Times, events and versions of the frames of the history, rotation (the properties hold
  of every suffix of it), and the pages of the feed.
* The writing of an archive (`create_backup_archive`) and the reading of one: `Restore` takes
  what an archive pairs as a pair.
* The quota of running bots, which is counted under the owner of one bot while starts of the
  same user's other bots go on (`bots/router.py:921`), and a start that finds the instance still
  retiring after a drain that timed out and answers that the bot is running (`router.py:898`).
* Admin, settings, auth and web sessions, the migration preflight, the metrics exporter, the
  web console and the agent client: handlers over single rows or programs of their own,
  without a step between two transactions that another component relies on.

### Known limits of the code that no run states

* A notice is lost when the save or the send after its mark fails (`core/queue_bot.py:515`), and
  a user alone in a queue whose booking times out is not told (`queue_bot.py:560`).
* A take revives a booking whose claim window had closed, which then counts against the cap
  again (`queue_bot.py:239`); `CapOnNewSeats` is therefore about what a command newly gives.
* The row of an application's registry is deleted by id and generation
  (`platform_applications/service.py:215-219`, `router.py:159`), and its table, unlike that of the bots
  (`bots/models.py:65`), lets SQLite give the id of a deleted newest row again: an orphan read
  before the application was created, deleted and created once more has the id and the
  generation of the new row, and its deletion takes it. `AppCredentials` with `IdsReused` and
  four changes has this behaviour; `CredentialsAreSound` is checked and proved without.
* The backup thread takes the age of the last success between the local clock and a UTC stamp
  (`app/backup/scheduler.py:105`): west of UTC it may skip a day, far east of it repeat one.
* An archive copies the database first and the state files one by one afterwards
  (`app/backup/service.py:147`), so a bot's row and state may be of different moments.
* `binding_status` reads the table before the store (`app/resource_auth/service.py:137`): a
  confirmation between the two readings makes a poll answer that the code has expired; the
  next poll is right.
* A broadcast whose last commit failed can end "completed" with a recipient "sending" until
  the next start of the process.
* A receiver that could not be joined in time is not started again by the operation that
  stopped it (`app/feishu/connectors.py:186`).
* Two losses of notices that no counter shows: those of a text that admission defers after its
  batch was cancelled, which is counted as deferred and not kept
  (`resource_api/notification_queue.py:258-267`), and those the loop has taken and not yet
  handed to a worker when the queue stops (`:297-300`). `Notices` gives them the fate "lost",
  and `NoticesAreSound` promises that there are no others.
* A broadcast counts a recipient as failed for every answer but a 2xx one
  (`core/platforms/infoflow.py:155`), also one that came after the message was delivered;
  nothing sends it again. `ToldOnce` leaves open whether it was.
* The tier gate is lifted by a command while a poll that was let through before is still under
  way, and that poll then sets it again (`app/resource_api/traffic.py:117`).
* An identity change stops the instance before it validates and commits
  (`app/bots/router.py:648`), so a refused change leaves the bot stopped under a row that says
  running.
