# Pallium: TLA+ verification project

Pallium is a local service (FastAPI + SQLite + background threads and processes) that coding
agents share. It has three products: **Relay** (messages between agent sessions, with native
wakes of idle sessions), **Session History** (ingest and search of agent conversations) and
**derived memory** (facts that semantic packages extract with a language model). This directory
holds TLA+ modules for its stateful core, the TLC runs that check them on small instances and
TLAPS proofs of the main results. Paths below are relative to the repository.

## 1. Inventory

| Component | State | Operations | What is hard | What makes it correct |
|---|---|---|---|---|
| Relay store (`storage/sqlite_relay.py`, `core/relay.py`) | sessions, scope generations, aliases, messages, deliveries | turn, receive, scope move, send, reply, status, ACK (token or receipt), name, close, reachability | the clock is read before the write lock; redelivery; late and repeated ACKs and replies; lazy expiry; two tables for one name | a lease is exclusive, one completion by the newest claim, final states final; alias tables agree; scopes unique |
| Codex wake (`core/codex_wake.py`, `app/codex_wake.py`, `app/codex_bridge_pipe.py` `dispatch`, `app/dependencies.py`, turn route) | reservations ("fences") and their generation marker in SQLite; schedule and threads in memory | reserve, begin, outcome, release, retry, reconcile, schedule, dispatch, hook claim, ACK release | threads against sweeps; crash between spending and writing; lost commit answers; clock set back; claim in a second transaction | a generation is written at most once; nothing written is forgotten; nothing prepared is stuck |
| Claude wake (`core/claude_wake.py`, `app/claude_wake.py`, `app/claude_wake_transport.py`, hook `common.py`) | registrations and reservations in a JSON file, a marker that the file is unusable, intent files of the hooks, worker threads | intent, register, mark busy, close, attempt, release, recover, schedule, reconcile | a write of the file failing before or after a native frame; fail-closed load; late requests and callbacks; sessions that change their container; crashes | a frame that may have been written stays a fence until its ACK; a working session is not woken; no wake waits for ever |
| OpenCode wake (`sqlite_relay.py` 325-491, plugin `pallium-v2.mjs`) | one wake record with owner lease, generation and anchored delivery; plugin instances; the host's queue of inputs | enroll, poll, renew, detach, admitted, terminal; submit, wait, context hook | late owners and reports; compaction and merged turns; a claim that lapses while its input runs | the record is true of the input of its generation; an input is never repeated before it ended |
| Ingest, package queue and worker (`storage/sqlite_queue.py`, `core/processing.py`, `core/service.py`, `app/worker.py`) | source items and package rows with worker, lease, attempts, backoff | ingest, claim (any item, same item, legacy), commit, fail, settle expired, cancel, retry | leases that lapse during a model call; an error after the commit; retries that read without a lock; two tables for one state; a crash in the last attempt; error budget of the loop | a result is committed once, by the current claim; both tables agree; items end |
| Thread rebuild queue (`sqlite_queue.py` 587-700, `core/thread_rebuild.py`) | scope rows: request time, claim, lease, watermark | request, claim, rebuild, complete, drop, cancel | requests during a rebuild with clock readings older than the transaction; late rebuilds; iteration limit | no request is lost; a summary never goes back |
| Vector index (`core/rebuild_coordinator.py`, `core/vector_embed.py`, `storage/vector_index.py`, startup in `app/dependencies.py` and `app/main.py`, ingest and corrections in `core/service.py`) | three sets of files (live, backup, shadow), rebuild state, served index, cursors | load, start or resume, batch, save, swap, recover, reconcile, add and remove by a request | a crash or an exception between any two file operations; resumed checkpoints; requests that write the index beside the rebuild, without a lock | no broken index is taken for a healthy one; what the id map knows has its vector; rows and index come into step |
| Retention, supervisor, consolidation, retrieval, API, providers, integrations | see `PROJECT.json` | | | |

How they interact: runtime hooks and MCP tools call the HTTP API, which calls `RelayService`,
which calls the store (one `BEGIN IMMEDIATE` transaction per operation). A send, an ACK and the
background sweep call `dispatch_relay_wake`; a wake that reaches its session leads to a hook turn,
which claims the delivery and later acknowledges it, which releases the wake's fence. An OpenCode plugin
polls instead, and the store anchors a delivery in its wake record. Ingest and
memory share only the database file with Relay.

Components that are not modelled are listed in `PROJECT.json` with the reason, and the hazards
with the line at which each one bites and the properties that cover it.

## 2. Plan

1. `RelayStore` with the abstract `RelayMailbox`: done, with proofs.
2. `CodexWake`: done, with proofs.
3. `PackageQueue`: done, with proofs.
4. `ThreadRebuildQueue`: done, with proofs. To add: the collection watermark of incremental rebuilds.
5. `ClaudeWake`: done, with proofs.
6. `OpenCodeWake`: done, with proofs.
7. `VectorRebuild`: done, with proofs.
8. Every invariant and action property that a run checks is proved; liveness stays with TLC.
9. To come: an abstract specification of a leased queue (claimed by one worker, completed once by the newest
   claim), implemented by `PackageQueue` and by `ThreadRebuildQueue`; an abstract "at most one native
   write per reservation", implemented by `CodexWake` and `ClaudeWake`.
10. Retention against running work: a pass under the maintenance lease chooses items in a read transaction and
   deletes them in a second, guarded one (`storage/sqlite_retention.py:409-490`), while items are retried and memories
   are persisted that rest on them. To be stated: a protecting memory never loses evidence, a reopened item is never
   deleted, every deletable item is deleted in the end although the cursor wraps. A composition with `PackageQueue`
   (two items, one worker, one cleaner, one memory) has over two million states, too many for its liveness; the
   queue has to be abstracted to finished and unfinished items first (plan item 9).
   The loop of `app/worker.py` with its error budget.

## 3. Modules

`X_Y` operators are faulty variants of `X` that demonstrate that a property depends on `X`; no
specification uses them.

### RelayStore

State: `session` (relay_sessions joined with relay_endpoint_generations), `binding`
(relay_aliases), `message`, `delivery`, and the wall `clock`. A delivery is identified with its
message, since a send inserts exactly one. The token of the k-th claim is the number k, and a
receipt (a hash of the token) is identified with it. A reply's id is a hash of the delivery it
answers, so messages are pairs of a client id and a reply depth.

Every operation is one transaction and one action; the exception is the time, which each
operation reads before it waits for the write lock, so an action works with any `now` in
`Recent`, up to `MaxDelay` old. What a turn does to deliveries (sweep, then claims) is one step,
as in the code; which eligible deliveries it claims is a choice of at most `MaxMessages`, since
response budget and renderability depend on payloads. Requests that the code rejects without a
write are no action; the two rejections that commit an expiry first (`ReplyTooLate`, the second
disjuncts of `Ack` and `AckByReceipt`) are.

| Action | Code |
|---|---|
| `RegisterTurn`, `Turn`, `ReceiveTurn`, `TransitionTurn` | `relay_turn`: new endpoint, known endpoint, `register_session=False`, `previous_container_ref` given |
| `Send`, `SendAgain` | `relay_send`: new id, repeated id |
| `Reply`, `ReplyAgain`, `ReplyTooLate` | `relay_reply_atomic` |
| `Status` | `relay_message_status` |
| `Ack`, `AckByReceipt` | `relay_ack`, `relay_ack_by_receipt` |
| `CloseSession`, `NameSession`, `UnnameSession` | `relay_close_session`, `relay_name_session` |
| `MarkUnreachable`, `MarkActive` | `relay_mark_unreachable`, `relay_mark_active` |

Left out: payloads, titles and work references; the check that `in_reply_to` of a plain send
exists; activation traces and list views, which are read-only for deliveries; endpoint repair, an
offline command. The OpenCode branch of `relay_turn` is in `OpenCodeWake`.

### RelayMailbox

What Relay promises of a message, without rows: posted once, handed out any number of times but
never during a lease, completed once by its newest claim or expired after its deadline.
`RelayStore!Mailbox` is the refinement mapping: `pending` and `claimed` are both *open* (a lapsed
claim is pending in effect), the rest is projected.

### CodexWake

State: the rows of the relay side cut down to what wakes read, `marker` and `fence`
(relay_codex_wake_state and _reservations), `scheduled` (the `_scheduled_session_*`
dictionaries), `worker` (threads and their phase), `hook` (turn requests between snapshot and
claim), plus the history variables `submitted` and `spentAt`.

| Actions | Code |
|---|---|
| `Dispatch` | `dispatch_relay_wake` / `schedule_codex_relay_wake`: release a finished fence, reserve, schedule |
| `Reconcile...` | `relay_codex_wake_transition("reconcile")` and what `reconcile_codex_relay_wake_reservations` does with its result |
| `AckRelease` | `_relay_ack_release` |
| `WorkerDuplicate`, `WorkerLaunch`, `WorkerNotRun` | `_schedule_reserved_codex_relay_wake` |
| `WorkerBegin`, `WorkerSubmit`, `WorkerNotStarted`, `WorkerFailed`, `WorkerFinish`, `WorkerAmbiguous`, `WorkerRefused` | `_wake_after_debounce` and the `write` closure of `dispatch` |
| `WorkerAsk`, `WorkerBusy`, `WorkerRearm`, `WorkerRetryDeferred` | the retained `dispatch` |
| `HookSnapshot`, `HookClaim`, `HookGivesUp` | the `/relay/turn` route |
| `Send`, `OrdinaryTurn`, `Deliver`, `Expire`, `Toggle`, `Move`, `SetClock`, `Restart` | environment: the relay operations seen by wakes, the wall clock, a crash |

Thread phases: `starting` (handed on by the sweep, the lock released), `waiting` (debounce),
`asked` (native state read for a retry), `ready` (rearmed), `begun` (generation spent, registry
lock held), `sent` / `failed`.

Abstractions, each on the side of more behaviour unless stated:
- the registry lock is held over two steps only between `begun` and the write; the lock of the
  schedule is held for one step; the custody lock of the retained service, which would serialise
  dispatches, is not modelled;
- a thread with a retained service may spend its generation without the native state read that the
  code does first; the read only removes behaviour;
- a hook may ask for its delivery after *any* submission, since prompts can be delayed or repeated;
- `_retarget_schedule` and the `_clear_schedule` after it are one step with the end of the thread,
  and the clearing after a released or clamped fence is one step with its transaction;
- a turn that claims several deliveries is several claims;
- a closing service is one that no longer takes steps, with `WorkerNotRun` for threads it turns away;
- not in the model (less behaviour): the import of legacy `reserved` reservations,
  `correlated_claim_attempts` (persistent registries never set it, `app/dependencies.py:878`),
  deliveries that are deleted (no code deletes them under a fence), payloads that cannot be
  rendered, and the finite trial command.

### PackageQueue

State: `source` (source_items) and `task` (package_processing_status), rows of one shape; `category`
(the failure_category in an item's metadata); `run`, where each worker is in
`_process_next_source_item`; `retry`, what each call of `retry_failed_source_items` has read; the histories `results` and `reopened` (completions
that a retry call has overwritten). Status "none" is a row that does not exist.

| Actions | Code |
|---|---|
| `Ingest` | `PalliumService.ingest`, `create_source_item_with_packages` |
| `Poll`, `More`, `PollLegacy` | `claim_next_package_task`, `claim_next_package_task_for_item`, `claim_next_source_item`, the first two with `_finalize_expired_package_leases_at_attempt_limit` |
| `Reject`, `StartWork`, `Commit`, `Fail`, `Superseded` | `_process_source_item` and the storage calls it makes; `Superseded` is every compare-and-swap that fails |
| `ReadMetadata`, `WriteMetadata` | `update_source_item_metadata`, after a commit or a failure |
| `Cancel` | `cancel_disabled_package_work` |
| `RetrySelect`, `RetryRead`, `RetryWrite`, `RetryLost` | `retry_failed_source_items`: the items, the rows of the first one it will write, the writes; a call that fails |
| `LeaseLapses`, `BackoffEnds`, `LegacyTime`, `Crash` | environment |

Each call is a `BEGIN IMMEDIATE` transaction and one action, `_sync_source_item_if_all_packages_terminal` included, with two
exceptions: `retry_failed_source_items` and `update_source_item_metadata` run under `_with_retry` (`storage/sqlite.py:315`). They read without
a lock, and their first write takes it; rows are then written by primary key, with the values of the columns that changed against what
was read. So a retry call is three steps: it selects items, reads the package rows of one, and writes. The items after that one are read and written
under the lock of the first write, so they are part of the third step (autoflush writes the first item before the rows of the next are read). Abstractions: a lease and a backoff are *live/later* or *lapsed/due*,
which may change at any time, so a claim with an old clock reading is covered; items and packages are
numbers in the order the claims use; `processing_attempts` of an item with package rows is kept at 0
(only the legacy claim reads it, as an upper limit, so the model allows more); what a result contains,
embeddings and provenance are left out, but an error in any of them after the commit is a `Fail` or a
`Superseded` from "committed". `complete_package_task`, `complete_source_item_processing` and
`create_package_processing_records` have no caller outside the tests and are not in the model.

### ThreadRebuildQueue

State: `scope` (thread_processing_leases), `message` (where the processing of each message that asks for
rebuilds is), `worker` (`_process_thread_rebuild_lease`), `content` (the messages the last committed
rebuild of a scope had read), and the histories `waived` (requests that were dropped because their
package is missing or disabled) and `raced`. Time 0 is NULL.

| Actions | Code |
|---|---|
| `FinishMessage`, `CommitMessage` | `commit_package_process_result`: clock reading, then the transaction with `_upsert_thread_processing_scope_in_session` |
| `ReadClock`, `Poll`, `Reclaim` | `claim_next_thread_processing_scope`, `claim_thread_processing_scope`: clock reading, then the transaction |
| `Read` | `_maybe_rebuild_thread_summary` reads the thread |
| `Complete`, `Drop` | `commit_process_result_and_complete_scope`, `complete_thread_processing_scope` |
| `GiveUp`, `Cancel`, `Tick` | an error, a lost claim or a crash; `cancel_disabled_package_work`; time |

Here the clock is explicit, because requests and claims are compared by it. A rebuild is taken to
read the committed results of all messages of its scope; the watermark of incremental rebuilds
and the window budget, which make it read less text, are not modelled. The clock does not go back.

### ClaudeWake

State: `reg` and `refused` (the registry in memory), `canonical` and `marker` (capabilities.json and
store-unusable), `intent` (the hooks' write-ahead files), `delivery` and `home` (what the registry reads of
Relay), `worker` (at most one thread for an endpoint), `admits` and `releases` (callbacks of turns and ACKs
that have committed but not run), and the histories `framed`, `torn`, `working`, `stranded`. A scope is a
(session, container) pair; scopes of one session share its Relay endpoint.

| Actions | Code |
|---|---|
| `WriteIntent` | `_write_wake_intent` of the hook |
| `Register`, `Close`, `RecoverLegacy` | `register` (with `_ensure_capacity_locked`), `close`, the unscoped files in `recover_intents` |
| `Turn`, `MarkBusy` | `/relay/turn` commits; its admission callback `mark_busy` |
| `Ack`, `Release`, `ReleaseLost` | an ACK or a reply commits; its background callback `_relay_ack_release`, which looks up the session and calls `release_delivery`; a storage error in that lookup, which the route only logs |
| `Schedule`, `Reconcile` | `schedule_claude_relay_wake`, the reconciler |
| `Reserve`, `Submit`, `SafeFail` | `attempt`: the durable reservation, then a native write that went or may have gone out, or one that certainly did not |
| `Lapse`, `Crash` | a lease or lifetime ends; the service dies and starts again from its files |

The registry lock is held from `Reserve` to `Submit`/`SafeFail` (`Free` in the other guards); every other operation is one
step under it. Each write of the file may fail; where the code then quarantines, either half of the quarantine may fail too
(`Quarantine`), and `torn` remembers the case in which the file is gone and the marker missing.
Left out: credentials, generations and the age of capabilities, and revocation notices. A graceful stop is a `Crash` in which
nothing was running. A registry that refuses its file stays refused, as in the code. A claim never outlives an expired message.

### OpenCodeWake

State: the wake record `wake`, `session` and `delivery` in the store; `plugin` (instances and where `runWake` of each
is); `home`, `input` and `natural`, the OpenCode host: the session's directory, its native inputs by generation
and a turn of the user; the history `shown`.

| Actions | Code |
|---|---|
| `Discover`, `Poll`, `Drop`, `Stop` | plugin `discover`, `poll`, `detach`, disposal, with the operations enroll, poll and detach of `relay_opencode_wake` |
| `Submit`, `Admit`, `Finish` | `runWake` between its awaits, with the operations admitted and terminal |
| `ContextWake`, `ContextOrdinary`, `Ack` | the context hook and `relay_turn` on a woken turn, the ACK of what was attached |
| `NaturalTurn`, `NaturalAck`, `Close`, `Send`, `Expire`, `ClaimLeaseEnds`, `OwnerLeaseEnds`, `BackoffEnds` | other users of the store, time |
| `EndInput`, `Compact`, `Move` | the host (external): a turn ends, alone or with another input steered into it; compaction; the session changes directory |

Every request to the store is one step, and its reply may be lost. `Polled`, `Retried`, `GivenUp` and `Anchored` are the decisions
of a poll in the order of the code. The payload budget, requests that change the scope and the session history the plugin uploads are left out.

### VectorRebuild

State: `entries` (rows of SQLite); `files` and `state` (three sets of three files, and the rebuild's state file); `phase`, `plan` and
what the running thread holds (`shadow`, `checkpoint`); `served`, `after`, `staleAfter` (the index in use and the cursors of
reconciliation); `embedding`, `saving`, `replaced` (a request: the row it computes a vector for, what is left of its save, and the index it
saves once the rebuild has replaced that one). Histories: `deleted` (row ids are random and never used again), `leftover` (the
shadow files are those of a rebuild that was given up), `raced` and `hollow` (what `Backed` excepts).

| Actions | Code |
|---|---|
| `Start`, `Open`, `Recover` | startup: `_load_or_create_vector_index` and whether to rebuild; the startup gate opens; `_recover_interrupted_swap`, `cleanup_orphaned_rebuild` |
| `StartOrResume`, `Batch`, `Finalize`, `Adopt`, `Fail` | the rebuild thread |
| `Perform` | the next file operation of what was decided |
| `Reconcile`, `ReconcileFails` | `VectorEmbedder.reconcile`, and an exception in its save |
| `Embed`, `AddVector`, `DropVector`, `Persist`, `RequestFails` | `ingest_item` and `correct_memory` with `embed_and_persist_vector_entry` and `save_vector_index` |
| `ChangeRow`, `Crash` | rows are added or deleted; the service dies |

A handler decides once, from memory and files, and leaves `plan`, its file operations in the order of the code; a crash or an
exception falls between any two of them. Single files are replaced atomically, as `_replace_with_retry` does. Reconciliation starts after the
rebuild thread has ended, as in the production bootstrap (`app/main.py`); requests wait for nobody, so an index may change between the files
of its save, and each file is written from what the index holds at that moment. Requests come from the service process only (workers and the cleaner
build the service without an index), and one at a time writes. A vector is its entry: its content, its native key and its embedding model are left out.

### MC modules

`MCRelayDelivery`, `MCRelayNames`, `MCCodexWake`, `MCPackageQueue`, `MCThreadRebuild`, `MCClaudeWake`, `MCOpenCodeWake` and
`MCVectorRebuild` add the symmetry sets and constant functions (the session reference of an endpoint, the requested package,
the scopes of a message, the endpoint of a scope, the directory of an instance) to the specifications; the `.cfg` files give the constants.

## 4. Runs

| Run | Checks | States |
|---|---|---|
| `relay_delivery` | `TypeOK`, `ClaimBookkeeping`, `ReplyAcknowledges`, `LeaseExclusive`, `ImplementsMailbox`, `LifetimesEnd` (liveness) | 185,793 |
| `relay_names` | `NamesAgree`, `ScopesUnique` | 78,979 |
| `codex_retained` | `TypeOK`, `OneSubmissionPerGeneration`, `PreparedNeverWritten`, `WrittenFenceHeld`, `RetrySpaced` | 622,372 |
| `codex_recovery` | `PreparedResolves`, `RollbackRecovers` (liveness), with a clock that is set back | 186,684 |
| `package_queue` | `ResultsMatch`, `SourceAgrees`, `SettledStays` | 1,212,424 |
| `package_end` | `TypeOK`, `PathsSeparate`, `ResultsMatch`, `ItemsEnd` (liveness) | 194,912 |
| `thread_rebuild` | `TypeOK`, `RequestsSurvive`, `RebuildsAdvance` | 1,435,452 |
| `thread_lost` | `RunsOnceMore`: violated, see findings | - |
| `claude_wake` | `TypeOK`, `NativeFence`, `WritesLoadable`, `BusyNotWoken`, `NoStrandedReservation`, `WakeAttempted` (liveness) | 906,306 |
| `vector_rebuild` | `TypeOK`, `SwapGuarded`, `Backed`, `Converges` (liveness) | 1,186,622 |
| `vector_rollback` | `BackupKept`: violated, see findings | - |
| `opencode_wake` | `TypeOK`, `RecordTrue`, `OneAttempt`, `NotResubmitted`, `WakeEnds` (liveness) | 73,899 |

What they show, beyond the properties' own words. *Relay:* with clock readings that are older than the transaction, every
behaviour of the rows is one of the abstract mailbox. *Codex:* whatever threads, sweeps, hooks and crashes do, a generation
reaches the native side once, and the sweep leaves nothing prepared behind. *Queues:* late
workers never persist a second result, both tables agree at every step, settled rows are reopened by a retry call with an old reading only, and a
rebuild request is lost in one race only. *Claude:* the order
reserve, write, reset of `attempt` is sound even if each write of the file may fail; the windows in which it is not (an unmarked
quarantine, an ACK callback lost in a crash or by a storage error, an idle intent older than a turn) are the exceptions the properties name.
*OpenCode:* the generation in the id of a native input makes late owners harmless. *Vector index:* every crash point of the
swap is recovered, but never by the documented rollback (findings), and what requests write meanwhile keeps no row out of the index for good.

Bounds. *Relay:* two endpoints, one in each of two projects, one message from either to the other (or to itself) and its reply, `Lease = 1`, a
lifetime of 2 and a clock of three values with readings up to 1 old let a delivery be claimed, lapse, be claimed again with a stale
clock, be acknowledged by the old or the new holder, be answered and expire, by a turn of its recipient or of the other session after the
recipient took its last one; other messages do not interact with it beyond the
common sweep. A message sent late outlives the clock; the branch of `ExpiryAt` without a lifetime is covered by the proofs only. The names run uses three endpoints and two names (takeover of a name whose owner
is itself renaming), two projects and two generations (a move, a move back, a repeated
request), and freezes the clock, on which names do not depend. *Codex:* two threads are enough for a
pair that competes for one generation; two generations for a wake and its successor; one
restart for a crash at any point. `MaxClock = 3` with `Cooldown = 1` lets the clock be
set back until a deadline is more than two cooldowns ahead. TLC runs the retained service (`Retained = TRUE`), which has the
longer protocol; for the command queue (`Retained = FALSE`) the safety properties are proved, since the theorems hold for
both values. *Package queue:* two workers and two retry calls
compete for the two packages of one item; two
attempts give one that may be repeated and a last one. A retry call starts only while no row has had `MaxReopened` of its completions overwritten, and
either of two calls may overwrite one. The liveness run has two tracked items, since
an item can only be held up by another one, and a legacy item, so that both paths and the hand-over between them occur. *Thread rebuild:* two workers and three messages (one read, one
during the rebuild, one after it), a lease of one tick and a clock of four, so that a claim can lapse
and be taken over twice; scopes do not interact beyond the order in which a poll serves them, so one
is enough for TLC and the proofs cover the rest. *Claude:* one session in two containers, so that rows, intents
and reservations of one endpoint compete; two intents, one crash and one failed write at any point. With one delivery the
second conjunct of `NativeFence`, and with a limit of two rows eviction, do not come into play; the theorems cover them for
any numbers. *Vector index:* two rows, batches of one row and a save every two rows, so that the checkpoint
runs ahead of the saved shadow; two crashes or exceptions, of which the second may hit the recovery from the first; one request that writes the index
at any point, and one row added or deleted.
*OpenCode:* two instances in one directory (rivals, or a successor) and one in another, one delivery, one retry, and three
events out of user turns, lost replies, stalls, compactions, merged turns, stops, moves and closes; eight generations are
more than these can use up. Symmetry is used only in runs without liveness properties.

Deadlock is checked in every run except those of `ClaudeWake`, `VectorRebuild` and `OpenCodeWake`: there a session without
traffic, an idle host or a stopped service with all bounds spent may really stop.

Fairness. `LifetimesEnd` assumes that time passes and that *some* session keeps taking turns with
a current clock; the recipient itself need not. Expiry is lazy in the code, so nothing weaker is
justified. `PreparedResolves` and `RollbackRecovers` assume weak fairness of `Reconcile(e)` (the
recovery loop of `app/dependencies.py` runs periodically for as long as the service does), weak
fairness of every thread (the scheduler) and strong fairness of `WorkerBegin` (the spending
transaction, if it is possible again and again, does not fail by a database error for ever). No
fairness is assumed of sends, turns, hooks, the clock or restarts. `PreparedResolves` excuses a
reservation whose rearmed deadline the clock was set back behind (first observation in section 5) and one that would need a generation beyond `MaxGeneration`. `ItemsEnd` assumes that each worker
keeps polling (a worker that leaves its loop is started again by its supervisor) and that leases and
backoffs are finite; crashes are unrestricted and each costs an attempt. It also supposes that retry calls stop writing (`RetriesStop`), as an older item that always comes back is always served first.
`WakeAttempted` assumes the reconciler, which runs every second, and worker threads that end. `WakeEnds` assumes that a
plugin that is up polls and finishes what it began, that the host runs what is queued and that leases, back-offs and
lifetimes are finite; a user who starts a turn or OpenCode itself is not assumed, and neither is a wake whose input was
compacted or merged (`Verifiable`), which the plugin by its documentation does not guess about. `Converges` assumes that a stopped
service is started again and its threads run; crashes, failures and changed rows are finite by their bounds.

## 5. Findings

- **`RunsOnceMore`**: `docs/specs/2026-04-05-fact-extraction-design.md:37` says that messages arriving while a
  rebuild is running "collapse into a single pending request — the rebuild runs once more after the current
  one completes". The commit of a message reads the clock (`storage/sqlite_queue.py:1973`) before it waits for the
  write lock and stores that reading as `requested_at`. A rebuild that claims the scope meanwhile has a
  `claimed_at` that is not earlier; when the message commits after the rebuild has read the thread, completion
  finds no request later than the claim (line 572) and clears it. What is missed are the memory objects extracted
  from the message (its text is usually visible already), until another message asks for the scope.
  `RequestsSurvive` states, and the proof shows, that this is the only way to lose a request.
- **`BackupKept`**: the docstring of `_recover_interrupted_swap` (`app/main.py:159`) says that a crash between the renames of
  the swap is rolled back from the backup. Startup calls `_load_or_create_vector_index` first
  (`app/dependencies.py:587-595`), which creates an empty live index, metadata included, when the native index or the
  metadata is missing. Recovery then always takes the forward branch and deletes the backup. Searches run on an empty index until the resumed
  rebuild, or reconciliation after a failed one, has filled it again (`Converges` holds).

Observations without a run:

- `storage/sqlite_relay.py:945`: a comment says "A large wall-clock rollback must not defer recovery by the rollback
  duration", and the clamp holds this for spent reservations (`RollbackRecovers`, checked). A reservation that a retry has
  *rearmed* is prepared, carries `min(now, old deadline)` as its deadline and takes the resume branch, which does not clamp. If
  the thread that rearmed it ends before it spends the generation and the clock is set back, each
  sweep hands the reservation to a thread which `begin_native_attempt` refuses until the clock has caught up.
- `docs/codex-integration.md:233-238` says a retained retry is for an "unclaimed delivery" and that the
  compare-and-swap rechecks "zero attempts". `_wake_retry_pending` also accepts a claim
  whose lease has run out, as `docs/agent-relay.md:277` says; the two documents disagree.
- `storage/sqlite_queue.py:413` says that `retry_failed_source_items` requeues failures "in one transaction without rerunning completed
  packages". The call reads without a lock and writes by primary key, so a package that another retry requeued and a worker completed between the reading
  and the write is set to pending again, as is one that was cancelled in between. `SettledStays` and `ResultsMatch`
  name exactly this exception. The read and write of `update_source_item_metadata` have the same gap; what it can lose is a `failure_category`
  that another worker wrote meanwhile (or it restores one that a retry has removed).
- `storage/vector_index.py` saves the native index before the id map. If a request adds its entry to an index that the reconciliation is saving, between
  these two files, the saved id map names an entry that the native index beside it lacks; a crash before the request's own save leaves it so, and
  reconciliation, which compares counts of ids, takes the row for present. The class comment (`storage/vector_index.py:72`) speaks of a
  result "missed for one query" only. `Backed` does not hold there and excepts it (`raced`), together with saves that overlap the renames of a swap.
- Reconciliation documents "Find and fix mismatches" (`core/vector_embed.py:172`) and returns at once if the numbers of rows and of ids are equal
  (lines 183-186). One missing and one surplus entry hide each other until a row is added or deleted; `Converges` therefore speaks of numbers.
- A vector's embedding model is not in the model. In the code a resumed checkpoint is not compared with the configured model
  (`core/rebuild_coordinator.py:238`), an empty index keeps the name of the model it was made for (`app/dependencies.py:437`), and a request adds
  vectors of the configured model to an index of the old one while the rebuild runs (`core/service.py:717`), which the comment
  "not new-model vectors into the old index" (`app/main.py:128`) excludes for reconciliation only. The mixture lasts until a rebuild has replaced that index.
- The callback of an ACK reads the Relay database before it releases a Claude reservation (`app/dependencies.py:785`). A busy database
  ends it there, `api/routes.py:1157` logs that, and nothing repeats the release: the endpoint keeps the reservation of an acknowledged delivery.
  `NoStrandedReservation` counts it with the callbacks a crash loses.
- The proof of `Backed` showed a second way, besides the first save of an empty index, to serve ids without vectors. A rebuild that starts afresh only
  makes sure that its directory exists (`_create_shadow_index`, `core/rebuild_coordinator.py:345-354`) and does not remove the shadow files an
  earlier rebuild has left. If the service dies between the first two files of the new rebuild's first save, the old id map and the old
  metadata stand beside the new native index, and the resumed rebuild takes all those ids for present. It needs three rows and
  three crashes, more than the run's bounds. Searches miss these rows until an
  index is built anew; reconciliation, which looks at ids, does not notice.

## 6. Proofs

For every value of the constants that satisfies the module's named assumption
(`RelayStoreAssumption`, `CodexWakeAssumption`, `PackageQueueAssumption`, `ThreadRebuildAssumption`,
`ClaudeAssumption`, `OpenCodeAssumption`, `VectorAssumption`: types,
positive leases, cooldowns and limits; nothing about sizes, but that row ids are a finite set of numbers;
`AbsentAssumption`: what stands for a missing file is no content of one):

`RelayStoreProofs`: `TypeCorrect`, `ClaimsBooked`, `RepliesAcknowledge`, `NamesStayConsistent`,
`ScopesStayUnique`, `LeasesExclusive`, `StoreImplementsMailbox`. The inductive invariant is
`IInv = TypeOK /\ ClaimBookkeeping /\ ReplyAcknowledges /\ NamesAgree /\ ScopesUnique`. The parts need each
other: a repeated reply is safe only because the source is already delivered, a claim token of
the newest claim is unique only because pending means never claimed, and unbinding a name is right
only if both tables agree before. Every action is first reduced to a *row step* (the row is unchanged, posted,
claimed, completed or expired), and the invariants, the lease property and the refinement are
then proved of row steps instead of actions. `LeaseExclusive` follows from `now <= clock`.

`CodexWakeProofs`: `WakeTypeCorrect`, `SubmittedOnce`, `PreparedUnwritten`, `WrittenStaysFenced`, `RetriesAreSpaced`.
`OneSubmissionPerGeneration` is far from inductive. It needs to know that a generation is fired by one
thread and unwritten until that thread writes it (`FiredOnce`), that the generation of a prepared fence is
unwritten and fired by no thread (`PreparedFresh`), that no two fences share a generation
(`FenceGenerations`) and that only generations up to the marker were written, once each (`Written`), so a
fresh one is unwritten. `GenInv` is the conjunction of these four, `TypeInv` gives the types and keeps
fences at or below the marker under their own endpoint, and `TypeInv /\ GenInv` is inductive. All
actions are reduced to four step shapes: `KeepStep` (fences stay, go or stay spent; no thread fires),
`FreshStep` (one fence gets generation marker + 1), `BeginStep` (one prepared fence is spent by one
thread) and `SubmitStep`; the invariant is proved of the shapes. `WrittenStaysFenced` goes through the
actions that change a fence. `RetriesAreSpaced` needs a third layer, `SpacedInv`: while a wake was spent on a delivery that is not finished and that
nobody has claimed since, its cooldown has passed or there is a spent fence for it, no claim stored under the fence's own generation (such
a claim would let the sweep replace it) and, with a retained service, a deadline at least one cooldown after the wake. A prepared fence
may be released without harm, because rearming it needed the cooldown to pass; a clamped deadline still is a cooldown after
the wake, because the wake is not in the future. Both steps use a clock that does not go back, so the theorem assumes
`Retained => ~Rollbacks`; the queue path needs no clock, since there no thread carries a spent reservation (`QueueThreads`).

`PackageQueueProofs`: `QueueTypeCorrect`, `ResultsPersistOnce`, `SourcesAgree`, `PathsStaySeparate`,
`SettledForGood`. The inductive invariant `QInv` joins `TypeOK`, `ResultsMatch` and `SourceAgrees` with
`RunShape` (a worker beyond its poll has an item, and one without a package is on a legacy item), `RowShape`
(legacy items and items not yet stored have no package rows; neither a tracked item's source row nor a failed
package row waits for a retry) and `RetryShape` (what a retry call has read may be old, but the item is there, and the call resets a
row of it exactly if it has package rows, so that item and rows become pending together). Transactions are reduced to *advances*: changes of
unfinished rows that leave no failed row with a retry time. The legacy claim only excludes items with *open* rows, so
`PathsSeparate` needs `SourceAgrees`: an item whose rows are all finished is itself finished, with no retry
time, and thus not eligible. `ResultsPersistOnce` and `SettledForGood` hold with the one exception stated in the properties, the write of a retry call
with an old reading.

`ThreadRebuildProofs`: `RebuildTypeCorrect`, `RequestsKept`, `SummariesAdvance`. `RequestsSurvive` is
strengthened to `RequestCovers` (the request is at least as late as every message it must cover), and
`ReadCovers` says what a worker that still holds its claim has read: at least what the last committed
rebuild had, and every committed message except raced ones and those later than its claim. At
completion a message that was not read is therefore later than the claim, the request is at least as late as the
message, and the scope stays requested; the content only grows for the same reason. Taking, ending
or cancelling a claim makes every other holder's claim stale.

`ClaudeWakeProofs`: `TypeCorrect`, `NativeFenceHolds`, `WritesLoadableHolds`, `BusyNotWokenHolds`,
`NoStrandedReservationHolds`. The argument: a frame only leaves while its session's row holds the
reservation, the row outlives everything but the ACK of its own delivery, and a store that lost it is refused for good. The inductive
invariant therefore adds to the properties that memory and file hold at most one reservation of an endpoint, for a delivery
to it (`RowsSound`), that the thread in the middle of an attempt is the only one and holds the reservation of a frame not
yet sent (`WorkersSound`), that memory and file agree unless the store is refused, and a refused store is marked
(`FilesAgree`), that each unacknowledged frame has its reservation or an empty refused store (`Fenced`), and that no
working session is idle in the registry or about to become so (`Quiet`). Each excepts `torn` where the code does.

`OpenCodeWakeProofs`: `TypeCorrect`, `RecordTrueHolds`, `OneAttemptHolds`, `NotResubmittedHolds`. The inductive invariant
adds to `TypeOK` and `RecordTrue` that no input, plugin or report is about a generation the record has not reached
(`RunsReached`, `InputsReached`, `GenerationFits`), that no claim is numbered above its delivery's attempts
(`AttemptsReached`), and that an input has been shown the claim of its generation or, once that was replaced, claims older than
any to come (`ClaimShown`, `ShownOnce`). Actions are reduced to four shapes: the record keeps its generation, begins a new wake, is
changed by others, or an input is shown an attempt; `Careful`, what no step may do to the generation, is shown of the shapes and
gives `NotResubmitted`.

`VectorRebuildProofs`: `VectorTypes`, `SwapsAreGuarded`, `VectorsAreBacked`. Crashes fall between file operations,
so the invariants speak about what is still to be done. `IInv` (for `TypeOK` and `SwapGuarded`) says that in every phase `plan` is what remains of one of
five file plans (save of the live index, checkpoint and save of the shadow, swap, clean-up, giving up), and that the files have their new
contents exactly as far as the plan has come; the state file is removed last, after the live files are whole. A request has what remains of a
save of the live index (`RequestOK`); such a save only ever puts live files in place, so it cannot make one missing. `BInv` (for `Backed`)
says that, unless two threads have written at once or an index was loaded with ids but no vectors, every index which is or will be saved covers
its own ids and, until the new id map is saved, those of the old map it stands beside; it needs `deleted`,
since an id that came back would be taken for one that has its vector. `BInv` is shown on top of `IInv`. TLC checked both
for two rows, with the checkpoint's counts bounded so that it can enumerate them, before they were proved. That a finite set of ids has a largest element is shown from the well-foundedness of set inclusion
(`WFMin`), without an induction theorem.

Only model-checked: the liveness properties (`LifetimesEnd`, `PreparedResolves`, `RollbackRecovers`, `ItemsEnd`,
`WakeAttempted`, `WakeEnds`, `Converges`) and anything with `ENABLED`, which the prover does not handle; and the two violated properties, whose
counterexamples TLC finds. `RetrySpaced` with a retained service whose clock is set back does not hold and is not claimed. Induction over
data and recursive operators are outside the prover's reach as well; no module needs them so far.

## 7. Not modelled

The pipe protocol of the Codex bridge below `send_message_to_thread`, process custody and the supervisor (operating-system
I/O); request validation in the API and the MCP tools; retrieval, redaction, providers and the decisions of consolidation and
semantic packages (functions of text, or of a language model, without a protocol); retention sweeps and the loop of
`app/worker.py` (plan; two things seen while reading retention: a rebuild commits memories that rest on items it read before its
model call without looking whether a sweep has deleted them since, `storage/sqlite_queue.py:566`, and the stripping of debug
metadata reads the oldest rows only, `storage/sqlite_retention.py:501-506`, so old items that a memory protects can keep it
from ever reaching younger ones); schema, codec and row access; dashboards, command lines, simulations and evaluations; the Codex and Hermes
integrations, whose requests are the nondeterminism of `RelayStore` and `CodexWake`. Much of the repository's code is scripts, tests, command
lines and such adapters, which keep no state of their own that a model could relate to anything.
