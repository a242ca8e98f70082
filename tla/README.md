# TLA+ models of chaski

chaski is a Python SDK for a Colca node: services publish samples and records
over MQTT, read the node's durable streams over HTTP with named cursors, execute
commands, poll machines (connectors) and compute signals (DataOps).  These
modules model the parts where the order of steps matters: durable cursors,
wake-ups, ledgers, acknowledgements, restarts.  Paths below are relative to
the repository (`src/chaski/...`); `dataops/` is `src/chaski/dataops/`.

## 1. Inventory

| Component | Files | State it keeps | Operations | Talks to | Hard parts | What makes it correct |
|---|---|---|---|---|---|---|
| Doorbell | `doorbell.py`, `_wakeup.py` | generation, condition variable, async waiters, `stop` hooks | `ring`, `wait_after`, `after` | every consumer loop; rung from paho's and the watch's threads | lost wake-ups; `stop` set between the check and the wait | a ring or a `stop` after the generation was taken ends the wait |
| Stream cursor | `door.py` (`Stream`, `Page`, `Door.fetch/ack`) | `_acknowledged`, the node's stored cursor | `fetch`, `ack`, `observe`, `drain`, `follow`, `wait_caught_up`, `retire` | the node's `/fetch`, `/ack` | node reset or restore, pruned ranges, lost ack answers, pages cut short | the cursor passes a record only after it was handled; a local position never hides records |
| Stream hints | `stream_changes.py` | newest hint per stream, subscription number, wake-ups | `_run`, `_record`, `latest`, `covers`, `BatchWait.wait` | `/watch`, consumers | hints coalesce, connection lost, stale head | every admitted record is eventually drained, although a covered hint costs no request |
| Consumer loop | `consume.py`, `failures.py` | backoff, `drained_on`, failure counts | `consume`, `_drain` | stream, hints, handler, reject finding | handler fails mid-page, ack fails, reject fails | in order, at least once, failed record never acknowledged |
| Retained view | `retained_view.py` | entries, offsets, positions, revision, published copy, availability | `_bootstrap`, `_snapshot`, `snapshot`, `wait_caught_up`, `_run`, `_tolerate` | `/kv`, streams, hints, readers | snapshot races the stream, tombstones, reset, stale grace | at a position the entries are the state of the scope at that offset; readers see only complete drains |
| Command sender | `command.py` | waiters by correlation id, subscribed ack topics | `send`, `wait`, `_on_ack` | MQTT session | two threads on one ack topic, ack before wait, late ack | the ack subscription is held before the command; first outcome wins |
| Command executor | `executor.py`, `dataops/commands.py` | ledger, answered set, scan mark, link and stop events, cursor | `drain`, `handle`, `_replay`, `_publish_answer`, `_link_before` | `commands` stream, MQTT, ledger, handlers | crash between any two steps, repeated records, repeated operations, broker away, expiry | a command runs once; a command is answered before the cursor passes it; a repeat gets the recorded outcome |
| Pipelined publishes | `publishing.py` | waiting and early PUBACKs by mid, a batch's unconfirmed writes | `send`, `_on_publish`, `forget`, `add`, `settle` | paho's network thread | PUBACK before registration, mid reuse, timeouts, bounded early table | a write counts as confirmed only by its own PUBACK |
| MQTT subscriptions | `subscriptions.py` | held topics, pending SUBACKs, retry timers | `subscribe`, `unsubscribe`, `restore`, `renew`, `_on_subscribe` | broker, timers | refused SUBACK, fresh session, unsubscribe racing a retry timer | a held topic ends subscribed, a dropped one does not come back |
| Topic wake-ups | `topic_wakeup.py` | holders per topic | `add`, `remove`, `rebind`, `close`, `_on_message` | MQTT, Doorbell | two wake-ups sharing a topic, broker calls made outside the lock | a wanted topic is subscribed |
| Service | `service.py` | session, placement, bindings, pending samples, catalogue, status, announcement | `start`, `publish`, `declare`, `_drain_pending`, `_on_signal`, `_on_connect`, `_reannounce`, `_on_own_details`, `close` | broker, node KV, catalogue, pending store | network thread against callers, publish outside the lock, last will after reconnect, close racing | samples of a path reach its signals in order; the retained records converge to the service's state |
| Catalogue | `catalogue.py` | tags by source, dirty flag, published revision | `ensure`, `declare`, `seal`, `record_published` | service | decide under the lock, publish outside it | the retained catalogue ends as the latest one |
| Pending samples | `pending.py` | SQLite rows | `append`, `append_batch`, `page`, `ack` | service, connector | restart, bounded queue | a sample leaves only after every target confirmed it |
| Startup, outages, retries | `startup.py`, `outage.py`, `retry.py` | readiness, outage record, failure count | `start_when_reachable`, `failed`, `delay` | all loops | attempts, jitter, Retry-After | delays stay within bounds |
| Queue telemetry | `backlog.py` | rows, hint time, fence | `watch`, `run`, `fence_snapshot` | `/watch`, `/backlog` | final-drain fence | a fenced snapshot was read after the fence |
| Connector | `connector.py` | targets, journal, previous values, refusal spells, write routes | `_poll_iteration`, `_publish_batch`, `_set_aside`, `_write_signal`, `_reconnect_source` | driver, journal, `/publish/batch`, executor | broker or source lost mid-cycle, partial refusal, restart | no sample is lost or skipped ahead; a refused one is recorded before it is removed |
| Source clock | `source_clock.py` | buckets per minute | `observe`, `status` | connector | clock noise | the estimate drops one minute at each end |
| DataOps ingest | `dataops/ingest.py` | prefetch, next offset, wanted ack, failure | `_step`, `_process`, `_dispatch_page`, `_queue_ack`, `_restart_from_cursor`, `rebind` | stream, buffer, producers, publish batch | read-ahead with background acks, failed handler mid-page, rebind | the cursor never passes an unprocessed record |
| Page checkpoints | `dataops/base.py` | checkpoints per producer, rewind | `handle`, `_rewind`, `abandon`, `finish` | ingest, buffer | failed save, unconfirmed write | a producer's saved state matches the acked records |
| Buffer | `dataops/buffer.py` | points, watermarks, jobs, ledger, outputs | `append`, `one_commit`, `trim`, `queue_output`, ... | all of DataOps | crash between commit and ack, trimming | replaying a page changes nothing |
| Backfill | `dataops/backfill.py` | jobs, position, holds | `_run_job`, `_step`, `_hand_over` | ingest page lock, historian, handlers | handover while pages arrive, restart, code change | every record of the range is handled once, in order, across the handover |
| Outputs | `dataops/outputs.py` | binding, queued samples, emitted ids | `publish`, `flush`, `write_interval`, `clear_window` | buffer, MQTT | binding after queueing | queued samples go first |
| DataOps watch, index, service | `dataops/watch.py`, `resolve.py`, `service.py` | bursts, index, wiring | `_drain`, `observe`, `serve` | MQTT, retained view | superseded events, re-resolution | the newest record is the last one handled |
| Health doors | `dataops/health.py`, `connector.py` | beat, drain age, lag | `healthy`, `snapshot` | probes | read from another thread | a stalled loop is reported |
| Node history client | `dataops/node_historian.py` | token, pacing | `window`, `_bearer` | HTTP API | token expiry | I/O client |
| Embedded node | `node.py` | process, pin, config | `start`, `stop`, `_resolve_parent` | `colcad` process | first-use pin, crash while starting | a different parent key is refused |
| Declarations | `dataops/inputs.py`, `triggers.py`, `codehash.py`, `scheduling.py`, `telemetry.py` | metadata | decorators, hashing | runtime | none | deterministic |

The Colca node itself is not in this repository.  The models use it only as
the SDK does: an append-only stream of offsets with a retention bound, a stored
cursor that only moves forward, hints, a retained key/value state, an MQTT broker.

## 2. Modules

| Module | Models | Uses |
|---|---|---|
| `CommandContract` | what a sender of commands may rely on: abstract specification | |
| `CommandExecutor` | `executor.py` and the handler side of `dataops/commands.py` | refines `CommandContract` |
| `CommandExecutorProofs` | theorems about `CommandExecutor` | extends it and TLAPS |
| `OrderedDelivery` | what a named cursor promises its consumer: abstract specification | |
| `StreamConsumer` | `consume.py`, class `Stream` of `door.py`, `stream_changes.py`, the `Doorbell` | refines `OrderedDelivery` |
| `RetainedView` | `retained_view.py` on top of its streams and hints | |
| `RetainedViewProofs` | theorems about `RetainedView` | extends it and TLAPS |
| `Ingest` | `dataops/ingest.py`, the page checkpoints of `dataops/base.py`, the commit of `dataops/buffer.py`, a page's writes in `publishing.py` | refines `OrderedDelivery` |
| `IngestProofs` | theorems about `Ingest` | extends it and TLAPS |
| `Backfill` | `dataops/backfill.py`, with the ingest and the buffer cut down to what a handover sees | |
| `BackfillProofs` | theorems about `Backfill` | extends it and TLAPS |
| `ServiceRecords` | `service.py`, `catalogue.py`, `pending.py` | |
| `ServiceRecordsProofs` | theorems about `ServiceRecords` | extends it and TLAPS |
| `ConnectorJournal` | `connector.py` and its journal in `pending.py` | |
| `ConnectorJournalProofs` | theorems about `ConnectorJournal` | extends it and TLAPS |
| `MqttSession` | `subscriptions.py`, `topic_wakeup.py` | |
| `ConsumerProofs` | theorems about `StreamConsumer` and `MqttSession` | extends both and TLAPS |
| `DataOpsBindings` | `dataops/service.py`, `dataops/resolve.py`, `dataops/outputs.py` | |
| `DataOpsBindingsProofs` | theorems about `DataOpsBindings` | extends it and TLAPS |
| `...MC` | values of constants that a `.cfg` cannot write; the module a run names | extends its module |

`PROJECT.json` maps every definition to the lines it stands for.

### CommandExecutor

| State | In the code |
|---|---|
| `log`, `cursor` | the node's `commands` stream and its stored cursor |
| `ledger`, `opLedger` | the ledger's entries by correlation id and by `(sender, operation_id)` |
| `answered`, `scannedTo` | `_answered`, `_scanned_to` |
| `pc`, `head`, `page`, `idx`, `ahead`, `code` | where `drain` and `handle` stand, their locals |
| `link` | the broker link as `link_changed` last said it |
| `expired`, `runs`, `stops` | the clock against `expires_at`; how often a handler was called; stops of the process |

`drain` is `ReadHead`, `FetchPage`/`FetchNothing`, `ScanAhead`, `AckPage` and
`AckAnswerLost`; `handle` is `Skip` to `PublishUnconfirmed`, cut wherever the code
awaits the ledger, the node, the link or the handler.  A stop (`Restart`) may
fall between any two of them: a `MemoryLedger` is then empty, a `SqliteLedger`
as it was.  The link wait has two states, `await` and `resume`: `link_changed`
sets the event, but the task looks at it only when it runs next.

### StreamConsumer

The node, the watch's thread and the consumer are three processes.
`SendHint`, `RecordHint` and `Ring` are three steps, because `_record` stores a
hint and `_run` rings afterwards; `TakeGeneration`, `Look` and `Wake` are three,
because the consumer takes the bell's generation, then reads the newest hint,
then sleeps.  `Restart` is a stop between any two steps.  A gap of pruned records
ends the consumer (`pc = "gap"`): `consume` lets `StreamGapError` out.  A page is the
set of offsets left of it, and `InHand` its lowest one, the record `handle` has.

### RetainedView

A drain (`_snapshot`) holds the view's lock over all of its requests, so `holder`
names who drains, and the node, the hints, the clock and readers without the
lock move between any two requests.  `Start` takes the versions of the streams,
`Release` stores them.  `changed` stands for "the version differs from
`_stream_versions`" and `captured` for "it did not move since the running drain
took it"; two booleans hold what the counters are compared for.  The three
passes of the loop are `drain.tries`.  `Finish` and `Fail` are the two ends of a
drain with everything their callers (`_run`, `_tolerate`, `synchronize`) do
then.  `ReaderFinds` and `ReaderRefuses` are two steps, as `snapshot()` reads
`_failing_since` without the lock and `_unavailable` waits for it.

`Reset` is the node coming back without its newest records, on any streams, with
cursors as old as what is left or older.  It may come at any step.  `Behind` is what
the first page of the next drain tells (`retained_view.py:370`).  The view may also
show records the node lost while its position was not past them: it read them from
`/kv`, or it applied them and their ack failed.  Nothing tells it of those; the
history variable `hidden` has their topics until the next bootstrap, and the
properties are about all others.

### Ingest

One walk over the stream: `_step` is a state per await (`pc`), and `then` says
where `_restart_from_cursor` goes back to.  Three things run beside it: the task
of the background ack (`ackSend`, `ackWant`, `ackFailed`), the page read ahead
(`prefetch`), and a `rebind` to other signals.  `todo` holds the handler calls left
for the record in hand, `batch` the page's writes not known to be confirmed.
The records of a page are the set of their offsets, which is also their order.
`durable` is the buffer on disk and `txn` what the open transaction would add:
`one_commit` ends it, another thread's commit writes it early, and the full queue
of an output rolls it back.  `deferring` says that the backfill's runner is inside a
`one_commit` of its own: the two share one count, so a page that ends then leaves
its commit to the runner, and `owed` remembers it.  `entry`, `entered`, `late` are `PageCheckpoints`:
what a producer goes back to when the page fails, a save fails or a write is not
confirmed.  The variables marked history say what happened to each call and are
read by the properties only.

The properties speak of the records of signals that both filters let through.  A
rebind that leaves a signal out ends what is promised for it: when a page failed
after a call for one of its records, with the write of that call lost, the page is
read again through the new filter and the call is not made again.

To `OrderedDelivery` the records of the stream are their offsets, and a record
counts as handled (`Handled`) when all of its calls returned or were recorded as
rejected.  A record that retention took counts too; that the cursor passes one that
was not handled only after the gap was accepted is part of `PassedIsDurable`.

### Backfill

There is a sample at every instant, so `now` is the clock and a sample is its
time.  `conn` is the buffer as its one connection reads it and `disk` as it was
committed; a stop goes back to `disk`.  The ingest is three steps (page, commit,
ack).  A page that ends while the runner is inside its `one_commit` (`rpc = "commit"`)
may leave the commit to the runner; a stop before that takes acknowledged samples,
which `lost` keeps.  The runner is `rpc`: it takes a job, asks the historian for a window, hands
it over, commits, and when it has caught up takes the lock between two pages
(`TakePageLock`) and hands over the rest before it releases the live triggers.
`Start` decides from the code version, the saved state and the edge of the buffer
which jobs there are (`initial`, `replay`, `gap`).

### ServiceRecords

Four kinds of thread: `mpc` starts and closes the service, `net` is paho's network
thread, `wpc` a caller of `publish()`, `dpc` the drain of pending samples.  What is
decided under `_lock` is one step and the publish after it another.  `out` is what
the MQTT client has been handed: sent in order, over a lost link too, and lost by a
crash; `inb` is what the network thread has yet to read.  A path's rows are the set of its samples on disk (`rows`), which a page lists by
their ids (`ById`): a page of 200 holds all of them, for a path has at most 100.
The node binds a signal
to a path of the catalogue, or switches it off; `will` is a last will the broker
has not published yet, which may land after the service announced itself again.

### ConnectorJournal

`pc` is the poll loop, `bpc` the heartbeat's thread, `wpc` a write to the source.
A poll reads the source, keeps what changed, appends it to the journal and drains
the journal; `who` holds `_journal_lock` over `Pages` batches at most.  The result
of a batch is one of: everything taken, some refused with a reason, refused as a
whole, no answer.  `named` says whether the node names its reasons.  A row is its
signal, value and the number of its read or beat, which no other row has; so a page
and what the node keeps are sets of rows, and `Without` removes from the journal
what the code deletes by id.  Signals may be bound to the tags of the source and to the
two synthetic ones, `Beat` (the heartbeat) and `Up` (is_connected).  Without a target
among them a poll only waits (`HasTargets`, `connector.py:988`).

### MqttSession

`doing` is the step of a broker call a thread is in after it left the lock that
decided the call.  `out` and `acks` are the packets on their way; a lost link loses
them, and returns with the broker's session (`Keeps`) or without.  `missed` names
four windows the code leaves open; the properties are about every topic that did
not meet one (`Missed` in the module):

1. `topic_wakeup.py:62`: a wake-up lets a topic go while another takes it.
2. a SUBSCRIBE is lost with a link whose session survives, so nothing restores it.
3. a refusal arrives before its SUBSCRIBE is recorded as sent.
4. a renewal is overtaken by an unsubscribe: the subscription stays at the broker.

### DataOpsBindings

Two threads, `"pass"` (the re-resolve loop) and `"tick"` (a timer); `at` says where
each stands and both may be in `flush`.  `defs` is the history of the node's
definitions, `view` the one the cache holds, `pin` the one a pass works on,
`cached` and `active` those the dispatch was built from.  The signal output's
`binding`, `maybe` and `queue` are shared by the threads without a lock, as in the
code.

## 3. Runs

| Run | Question | Result |
|---|---|---|
| `executor_durable` | two sends of one operation, an untracked malformed command, repeated records, one stop anywhere: does anything run twice, is every command behind the cursor answered, does the executor implement the contract? | holds |
| `executor_memory` | the same with a ledger in memory, a deadline and a failing link: is an answered command run, does an expired one run, is every command answered in the end? | holds |
| `consumer` | pruning, failing handlers, lost answers, and a lost connection, a stop or a reset anywhere: delivery in order, no lost wake-up, no position that hides records, everything handled, woken by hints alone? | holds |
| `view` | is the view the node's state at its position, does `synchronize()` return everything admitted before it, do readers get the node's state in the end, woken by hints alone? | holds, but for what a reset takes unnoticed (section 5) |
| `ingest` | failed requests, writes, saves and handlers, stops, prunes, a rebind, a roll back, a commit put off: is what the cursor passed on disk, does a saved state have every record once, is a failed write ever lost in silence, are records handled in order? | holds, but for what a rollback or a put-off commit cost (section 5) |
| `ingest_rollback` | is every record the cursor passed in the buffer, as the module's first lines say? | no (section 5) |
| `backfill` | stops, failed windows and acks, pruned records, a change of code: does one instance see its timeline in order and complete across the handover, does every job end? | holds, but for what a put-off commit cost, and while no operator has to accept a loss |
| `backfill_left_replay` | code without a backfill is followed by code with a held one: is the producer held until that one is done, as `plan` says? | no (section 5) |
| `service` | a writer, the drain, the network thread, crashes, lost links, a late last will: is an accepted sample kept, does a path keep its tag id, does the queue drain, is the own record true? | holds |
| `connector` | polls, heartbeats, writes, partial refusals, lost links, sources and doors: is a journaled sample kept, is what changes are compared with in the journal, does it drain? | holds; it drains while there is a target |
| `session` | two wake-ups on one topic, refusals, retry timers, a lost link with or without its session: does the broker end with what is wanted? | holds, but for the four windows |
| `dataops` | definitions that change, a lost view, a failed publish, an end of the process: is anything behind the watermark lost, do queued samples leave, does the ingest follow the definitions? | holds |

`CHECK_DEADLOCK FALSE` everywhere: records, stops and failures are bounded, and
a system that has nothing left to read sleeps.

### Bounds

- *Executor*: three commands are enough for an operation, its repeat and a
  stranger; a log of four holds them and an answer between two of them.
  `PageSize` 1 and 2 put the repeat on the same page and on a later one (the
  look-ahead).  `AnsweredLimit` 1 overflows `_answered`.  One stop separates any two
  steps; the proofs cover any number of stops, sends and pages.
- *Consumer*: two records, both wanted, and pages of two: a handler may fail on the
  first or the second of a page.  A reset, a lost connection or a stop comes at any
  step, pruning and failing requests beside it.  Liveness sets the size; the
  theorems cover every filter and page size and any number of records and upsets.
- *View*: one topic among others of its stream, two records with or without a
  payload, pages of one, pruning, and one trouble of lost connection, failed
  request, reset, causal read, at any step.  Not checked: two streams in one
  drain, the interplay of two troubles; so never a reset beside a causal read.  The
  theorems cover both.
- *Ingest*: three records, of a signal two checkpointed producers share, one of
  them alone, and one that only the rebind adds; pages of two, so that a page is
  read ahead of another; any two upsets.  That is enough for a failure while the
  recovery from another one is under way, and for a commit put off before a stop.  The theorems cover every filter before
  and after the rebind, every window and page size, and any number of upsets.
- *Backfill*: two samples before the first start, one after it, windows of one,
  any two upsets.  The code goes from a held to an independent backfill, which
  needs a replay.  `Overtakes = FALSE`: the first page comes before windows past
  it; section 5 says what happens otherwise.  The theorems cover every horizon and
  window, any number of samples and upsets, and every pair of declarations but one.
- *Service*: one path, one writer, two samples, two upsets; a path's queue holds
  two rows.  Two paths would only add the choice of the drain's next one.
- *Connector*: one signal, the heartbeat's and is_connected's, two values, a journal of three rows
  and batches of two, two polls, one upset; three beats, so that one may be skipped.
  The theorems cover any signals and values, every size of the journal and of a
  page, and any number of polls, beats and upsets.
- *Session*: two wake-ups on one topic, three changes, a lost link, a refusal.
  Three changes are a topic taken, let go by one while the other takes it, and
  taken again.
- *DataOps*: two samples with a queue of one and pages of one overflow both; two
  changes of the definitions bind and unbind the signal, at one place; one trouble.  The
  theorem covers any number of each.
- The counters (`upsets`, `stops`, ...) are bounded through the guards of the
  actions that raise them.

### Fairness

- Every thread that can run does (weak fairness of its steps): asyncio tasks and
  Python threads are scheduled; a process that ended is started again; a link, a
  door and a view that went away come back.
- A request that is tried over and over is answered in the end (strong fairness
  of `FetchPage`, `AckPage`, ...): every loop retries with a capped backoff.  The
  node may refuse any number of times, or as often as the module's bound says.
- A handler that is called over and over for a record succeeds in the end.
  Without it a record that always fails holds its cursor for ever, by design.
- The view's lock is free in every wait and backoff, so a thread waiting for
  it gets it (strong fairness of `Disconnected`, `ReaderRefuses`); the same holds
  of the ingest's page lock (`TakePageLock`).  The source's lock of the connector is
  an `asyncio.Lock`, handed over in the order it was asked for (`PollReads`).
- `JournalDrains` is about a node that names its reasons: one that does not may
  refuse a batch as a whole for ever; and about a connector that in the end has a
  target, since one without only waits.
- Passing a gap is assumed of the ingest (`ReadsOn`) only with a historian.  Without
  one it waits for an operator to accept the loss (`dataops/service.py:1009`), and
  nothing says that one will: `BackfillsEnd` is about behaviours in which no operator
  is waited for, in the end.
- Nothing is assumed of stops, disconnects, the clock, new records, ticks, calls of
  `publish()`, or the idle drain of five minutes: the wake-ups alone have to do.

## 4. Proofs

Every theorem below holds for every value of the constants its module's assumption
allows: any number of commands, topics, paths, writers and threads, every page size
and limit, and any number of stops, lost links and other upsets.  Where a theorem
has a hypothesis of its own, it is named.

Each theorem combines an `Init` lemma and a preservation lemma with a step per
action; what an action leaves alone is a frame lemma stated once.

### `CommandExecutorProofs`

- `TypeCorrect`: `Spec => []TypeOK`.  `TypeOK` is inductive as it stands, because
  `DrainOK` says how `page`, `idx` and `cursor` fit together at every `pc`.
- `CalledAtMostOnce`: `Durable => (Spec => []AtMostOnce)`.  `AtMostOnce` is not
  inductive: it says nothing of the ledger that prevents the second call.  `OnceInv`
  adds that a handler that was called left its entry started or answered in the
  ledger (the operation's entry, if it has one), and that an executor about to
  call one found no call of it before.
- `CursorBehindAnswers`: `Spec => []AnsweredBehindCursor`, with either ledger.
  `AnswerInv` adds that every record of the page before `idx` is served too.
- `ImplementsContract`: `Durable => (Spec => ContractSpec)`, the refinement of
  `CommandContract`.  `ReplyInv` carries it: what the ledger holds is what the stream
  answers and a truthful account of the runs (`LedgerTrue`), and a command under way
  has no answer in the ledger, or a truthful one in hand (`HandleTrue`).
- `ExpiredStaysUnrun`: `Spec => ExpiredNeverRuns`, with either ledger.
- `AnsweredNotRun`: `NoRunAfterAnswer`, with either ledger, where `_ANSWERED_LIMIT` covers
  the tracked commands; with more of them the executor forgets ids and this is
  false over a ledger in memory.  `MemoryInv` ties the ledger to the answers until the
  first stop, and `SeenInv` says which records were looked at ahead of the cursor:
  every answer up to there is in `_answered`.

### `ConsumerProofs`

Of a consumer, `StreamConsumer`:

- `TypeCorrect`: `Spec => []TypeOK`.
- `NoWakeUpLost`: `Spec => []NothingHidden`.  That a sleeping consumer has read the
  whole stream takes a chain of facts, the conjuncts of `Inv`: the newest hint of a
  live connection said the head (`WatchOK`); the consumer acts on that hint or is
  going to be rung (`SeenOK`); it drained up to that hint (`DrainOK`); and the
  position it compares with is not ahead of the node's cursor, unless a reset put
  it there, which a new subscription tells (`FreshOK`).
- `ImplementsDelivery`: `Spec => DeliverySpec`.  Each ack passes only what was
  handled, because of `HandledOK` (behind the cursor, and in the part of the page
  already worked off, every wanted record was handled) and `PageOK`.

Of the subscriptions that carry its wake-ups, `MqttSession`, whose own definitions are
named `SessionInit`, `SessionNext` and so on beside those of the consumer:

- `SessionTypeCorrect`: `SessionSpec => []SessionTypeOK`.
- `SettledCorrect`: `SessionSpec => []Settled`.  Three invariants, each on the one
  before, follow a wish from the wake-ups to the broker: `HolderInv` (who takes or lets
  go of a topic is or is not among its holders), `RecordInv` (what the holders say is
  in the record of subscriptions, or a thread is on its way to write it), `WireInv`
  (what the record says is at the broker, on the wire, or about to be sent again).

### `RetainedViewProofs`

- `TypeCorrect`: `Spec => []TypeOK`.
- `AppliedCorrect`: `Spec => []AppliedState`.  It is not inductive: the position moves at
  the ack and the entries before it, with the page.  `PositionInv` says where position
  and cursor are together; `AppliedInv` says it of the records applied and not yet
  acknowledged too (`Since`), and of the snapshot of the first start, which is at
  least as new as the heads that were read before it.  A reset cuts the log; what
  is left of these facts (`ResetApplied`) holds of the topics that count (`Counts`):
  not in `hidden`, and of a stream that is not behind.  `hidden` itself is exact: it
  gets a topic only if no offset from the position to the new head has what the
  view shows.
- `CausalCorrect`: `Spec => CausalRead`, an action property.  `SyncInv` follows a drain
  of `synchronize()`: it does not go by hints, took on every stream, and read every
  stream it is done with past the head it asked for.

### `ServiceRecordsProofs`

- `TypeCorrect`: `Spec => []TypeOK`, where no id is used that was not minted, a path
  counts as pending exactly if it has rows, and a page under way is still on disk.
- `AcceptedCorrect`: `Spec => []AcceptedKept`, with any number of writers.  `KeptInv` adds
  the samples in a writer's hands (`TasksKept`) and on the drain's page (`PageKept`):
  each is at the node, or its write is among those handed to the client under the
  name of the thread that waits for it.  A timeout takes the name away, and with
  it the claim; the caller then has an error, or the page stays on disk.
- `IdCorrect`: `OneWriter => (Spec => []IdKept)`.  `IdInv`: the node's catalogue, the
  catalogues on their way in their order, and the one in memory each keep the ids of
  the one before (`Agrees`), so that a start that loads the node's loses none.
- `SamplesCorrect`: `OneWriter => (Spec => []SamplesKept)`.  `OrderInv` speaks of a path's
  stream, what the node has and then what is on its way: a sample that comes after
  a later one is a repetition (`WaitInOrder`); a row was sent before or is newer than
  all that was sent (`RowsWait`); a sample that goes past the disk is the newest of
  its path and no row waits (`TaskLast`, which is what `_pending_sources` is for).

`OneWriter` (one thread calls `publish()` and `declare()`) is needed: the catalogue is
prepared under the lock and published outside of it (`service.py:1975`), so that two
writers may publish theirs in the other order than they made them, and two samples
of one path in either order.

### `IngestProofs`

- `TypeCorrect`: `Spec => []TypeOK`.
- `PassedCorrect`: `Spec => []PassedIsDurable`.
- `ExactlyOnceCorrect`: `Spec => []ExactlyOnceState`.
- `NoSilentLossCorrect`: `Spec => []NoSilentLoss`.
- `ImplementsDelivery`: `Spec => DeliverySpec`.

All follow from one invariant, `Inv`, since none of them is inductive and each
needs the others.  `CursorSafe` says of every number that is or may become the
cursor (the ack in flight, the newest one asked for meanwhile, the ack of the page
done, the record before a failed one, the offset the next fetch reads from) that
nothing before it is lost (`Past`).  It comes from the page: `Ahead` and `Whole`,
that a page holds every record of the filter it moves the cursor past;
`PageCovered`, that each record of the page is still to be handled, or was written
and its calls made (`Under`), up to the earliest failure so far (`Covers`).  What a
failure takes back is bounded by the producers' part: `StatesGood` (each state a
producer has or may go back to is exact, and its calls were told), `Entries` (the
state in hand is the kept one and the calls since, and the page's start has all
records before the first of the page), `FirstHandled` (no work of the page lies
before the record an unconfirmed write names) and `Chain` (disk, transaction and page
start hold ever more; what one lacks of the other was rolled back and is known).

`PassedIsDurable` speaks of `Disk`: what is committed, or, while a page is owed its
commit, what that commit will write.  A stop in that time puts the page's records that
the cursor passed into `undone`, like a rollback does.  `Spec => []PassedIsDurable`
so has two exceptions, each by the action that causes it, and no other.

The refinement needs no more than that: a call is made only when the records of the
page before its own were worked on (`PageCovered`, `TodoOrder`) and those before the
page may be passed, so it is the contract's `Handle`, or one of several calls of a
record, which the contract does not see; and an ack names only records that may be
passed, so it is its `Pass`.  `TypeOK` is proved; no run checks it.

### `BackfillProofs`

- `TypeCorrect`: `Spec => []TypeOK`.
- `OneTimelineCorrect`: `Spec => []OneTimeline`.
- `FirstIsHeldCorrect`: `Spec => []FirstIsHeld`.
- `NothingMissedCorrect`: `Spec => []NothingMissed`.
- `UnionCoversCorrect`: `Spec => []UnionCovers`.

All five follow from one invariant, `IInv`, and assume `Proviso`: no window overtakes the
first page (`Overtakes = FALSE`), and the declarations do not go from none to a held
backfill.  Both halves are needed: with `Overtakes` TLC finds `OneTimeline` and
`NothingMissed` violated, and the other pair of declarations is the finding of section 5.

That a state is in time order says nothing of what may still come, so `StateOK` says
more: whatever is buffered, or still held by the stream, and not newer than the
state's newest sample is in the state (`Complete`), and of the stream the buffer has
everything up to the state's offset.  A live record or a row of a window then comes
out of order only if it is there already.  This in turn needs the buffer to hold
whole what was read of the stream (`PassedInv`), over a stop that takes it back
to `disk`.  `CoveredTo` says that the state of the job that holds it has all before
the job's position.  It must hold of the live state while the job runs, of the
saved one while a stop may put it back (`SavedInv`), and not of another code's,
whose job starts over (`FreshInv`: with nothing taken in).  At the last window the page
lock keeps the buffer still, the position is past all of it, and `CoveredTo` becomes
`AllIn`; the watermark carries it over later stops (`AllInv`, with `MarkOK`: where the
disk has the code's mark, the checkpoint is this code's, and no job holds the
producer).  `Control` is the part about which jobs there are; it is where the second
half of `Proviso` enters (`LeftOK`: no unfinished replay beside a held first backfill).
A stop may take acknowledged samples (`lost`).  The buffer holds whole what was read of
the stream after the last of them (`HoleEnd`, `L`), and that one lies before all that
the ingest still has to read (`LostInv`); a sample of `lost` is the one thing
`NothingMissed` lets a producer lack besides what retention took.
`UnionInv` says of a first backfill beside live dispatch that what it has walked past
was handled, is buffered, or lies behind a buffered sample; `GapInv` that what the
cursor passed is buffered or was pruned unread.

### `DataOpsBindingsProofs`

- `TypeCorrect`: `Spec => []TypeOK`, which has the limit of the queue in it, and that a
  dispatch is from an index the view has held.  `IndexInv`: active, cached, pinned
  and seen index never overtake; `SampleInv`: a tick under way has a sample left, so
  that what it queues fits.
- `WatermarkLosesNothing`: `Spec => []NothingLost`, without an assumption on the constants.
  `NothingLost` is not inductive:
  it says nothing of the sample whose watermark is about to move, nor of a page
  about to leave the queue.  `LostInv` adds `AdvancesKept` (a tick that has come to
  `"flag"` or `"advance"` has kept its sample) and `PagesConfirmed` (a thread that
  deletes a page from the queue had all of it confirmed).  `AdvancesKept` says
  "kept" and not "queued", because the other thread's flush may send and delete
  the sample in between.

### `ConnectorJournalProofs`

- `TypeCorrect`: `Spec => []TypeOK`.  It needs what is about to be journaled (`RowsOK`:
  a batch is made of rows, and only a poll before its append has one) and which
  call a page belongs to (`CallOK`).
- `SampleKeptCorrect`: `Spec => []SampleKept`.  What is removed from the journal was
  admitted, or set aside with its finding; the finding may be an older one, for a spell
  of refusals is recorded once.  `SampleInv` adds what that memory means: a spell that
  counts as recorded is in the findings (`SpellsFound`), and what a page leaves behind
  when the node took some of it was refused for good (`SomeLeaveBad`), which is the
  ground a node that names no reason gives `refusal_is_final`.
- `LatestJournaledCorrect`: `Spec => []LatestJournaled`.  `LatestInv` says it of the rows
  a poll is about to journal too: the latest value of a signal is that of its newest
  row, journaled or in the batch (`Newest`), and no row is newer than the last read
  (`Numbered`).  Every way out of a poll between its read and its append either
  journals the batch or ends the process, which forgets the latest values.

The journal changes by `Without`, a recursive function over the rows.  That it has a
value, and what it keeps, are induction over a sequence, which cannot be
cited from the library; the lemmas take the shortest prefix for which the claim fails
(`LeastOf`, from the well-foundedness of `<`) and refute it.

### Model-checked only

Liveness: `EventuallyAnswered`, `EventuallyHandled`, `Converges`, `BackfillsEnd`,
`SamplesDrain`, `OwnRecordTrue`, `JournalDrains`, `QueueFlushed`, `BindingsFollow` and
`WantedIsHeard` hold under fairness, and a proof from fairness needs `ENABLED`, which is
out of the prover's reach.  Every invariant and
action property of a passing run is a theorem, with the hypotheses named above.

## 5. Findings

`buffer.py:168`: `queue_output` raises `BufferError` inside `with self._lock,
self._conn` when the queue is full.  Leaving that block by an exception rolls back
everything the one connection has not committed, the points and checkpoints that
`one_commit` deferred for a page under way included.  The page then commits what
is left and is acknowledged: its records are not in the buffer, and a checkpoint may
be older than the cursor.  `PassedIsDurable` and `ExactlyOnceState` exempt the
records in `undone`, and hold for all others.

`dataops/backfill.py:392`: `_plan_replays` records no replay for a producer whose first
backfill is held, but leaves one alone that an earlier start recorded.  Code without a
backfill, stopped while its replay ran, then code with a held one: both jobs are pending,
the replay is the older and runs first (`buffer.py:474`), and its hand-over takes the
producer out of `_held` (line 753).  Live records are dispatched while the first backfill
walks history on the same instance, so that one instance no longer sees its timeline in
order.  The module's text (line 22) and `plan` (line 319) say that the live triggers are
held until the first job is done.  The proof found it: `LeftOK` could not be kept.

### Seen on the way

Counterexamples TLC gave for stronger forms of the properties.  The properties of
section 3 are what holds in spite of them; no run is kept for these.

- `executor.py:622`: a stop inside a handler; the next command of the operation is
  answered 504 and *its* digest recorded, so a true repeat of what ran gets 409.
- `executor.py:715`: a link that comes up and drops before the task runs answers 498
  to a command that has no deadline.
- `door.py:626`: `observe` runs for the first page of a drain only; a node reset
  between two pages makes the drain handle one page for ever.
- `retained_view.py:419`: positions move with every page, the published state with a
  complete drain, so `position()` may be ahead of `snapshot()`.  Line 487: the retry
  of a refused idle drain finds nothing to do.  Line 300: a reader that saw the
  grace over may shut a view that has just recovered.
- `retained_view.py:370`: a reset of the node that takes records the view read from
  `/kv`, or applied without a successful ack, is not noticed, as the position was not
  past them.  The view keeps showing them, and their offsets hide the new records at
  and below those offsets (line 394), which is what the comment at line 371 says the
  rebuild is for.  `hidden` names these topics, and `AppliedState`, `CausalRead` and
  `Converges` hold of the others.
- `dataops/buffer.py:297`: `one_commit` commits when no thread is inside one any more.
  The backfill's runner opens one in a thread of its own, without the page lock
  (`dataops/backfill.py:705`).  A page that ends meanwhile commits nothing and is
  acknowledged; a stop before the runner's commit loses its points and saved states,
  although `dataops/ingest.py:286` says "the page is acked only after it".
  `PassedIsDurable`, `ExactlyOnceState`, `NothingMissed` and `UnionCovers` exempt what
  such a stop took, and nothing else on its account.
- `connector.py:988`: without any target a poll waits for a change; rows in the journal
  stay there, although the node could take them.
- `publishing.py:166`: a failed write is raised in another producer's call, and its
  own producer's state may be saved although the write was never confirmed.
- `dataops/inputs.py:122` and `dataops/service.py:983`: a gap behind buffered samples is
  marked repaired although nobody read it (excluded in `UnionCovers`).
- `dataops/backfill.py`: when the first page comes after windows past it, the edge of
  an empty buffer is the clock, and records in between are not handled
  (`Overtakes = TRUE`).
- `service.py:1052`: a reconnect announces a service that closed meanwhile (excluded
  in `OwnRecordTrue`).  Line 1975: with two writers an older catalogue may overwrite
  a newer one.
- `connector.py:1253`: the heartbeat's task ends on a full journal.  Line 1299:
  `is_connected` stays as it was when its publish timed out.  Lines 1148 and 1157: a
  reconnect of the driver may overlap a write.
- `dataops/outputs.py:228`: a sample queued between a flush's last look and the flag it
  clears stays queued until the definitions change.  Line 180: a tick may keep a
  binding after the pass forgot it.
- `topic_wakeup.py:62` and the three other windows of section 2, `MqttSession`.

And within what the documentation promises: a command without a correlation id may
run again when its page is fetched again; a stop between an operation's record and
the command's answer gives the recorded outcome, one before the record gives 504; a
restarted `MemoryLedger` runs a repeat of an operation again; `wait_caught_up`
returns at once right after a node reset, on the old position.

## 6. Assumptions of the models

- The node's stored cursor only moves forward and never past its head; a fetch
  may return fewer records than asked for; the first hint of a connection names
  every stream; every hint carries its head.
- One executor per cursor.  A publish whose PUBACK is lost is in the stream.
- Handlers end.  Retention of the stream and of the ledger (seven days), the 4096
  entries of `MemoryLedger`, and the order in which `_answered` evicts ids are left
  open or out.
- In `StreamConsumer` the node is reset between drains or before
  a drain's first page only; the entry for `door.py:626` in section 5 is what happens
  otherwise.  In `RetainedView` it is reset at any step; a drain that is between two
  requests that build on one another then fails at the next one, as the node was
  away.  `CommandExecutor` and `Ingest` have no reset.
- The runner's `_commit` is one step, except that a page may end inside it; no other
  thread commits between its writes.
- MQTT keeps the order of one client's packets; a last will may land at any time
  after the link was lost.  SQLite's commits are atomic.
- A historian, where there is one, has every sample the node admitted.
- While the buffer is empty, a first backfill or a replay walks past no sample that is
  on its way to it (`Overtakes = FALSE`).
- Times are not modelled: a backoff, a batch wait, a deadline or a grace is a
  step that may come at any moment.

## 7. Plan

What is left, in this order:

1. Resets of the node in `Ingest`, with `_next_from`.
2. `CommandSender` (`command.py`): two threads on one ack topic, PUBACK before the
   wait, a subscribe that fails after the topic was marked.
3. `Publishes` (`publishing.py`): PUBACK matching, mid reuse, the early table.
4. `BacklogFence` (`backlog.py`), and pure operators: `retry.py`, `source_clock.py`,
   `ViewScope.topic_filters`.

## 8. Not modelled

The components marked `not_modelled` in `PROJECT.json`: those of the plan, and
`node_historian.py` (an I/O client), `node.py` (starts a process), the health
doors (reads of other state), startup, retries and outages (delays and logging),
handler failures (counts and findings), `dataops/watch.py`, and the declarations of
producers (metadata).

Of the modelled components:

- `ServiceRecords`: a move of the service to another place, `announce_commands`,
  `retire()`, identity conflicts and the status record, samples the node refuses,
  growth of the client's own queue, a second signal bound while a page is published.
- `ConnectorJournal`: the announcement of write routes, answers of writes, the
  health door, timing, the source clock.
- `MqttSession`: the bells, how a filter matches a message, `Subscriptions.close()`,
  the delays of the retry timers.
- `Ingest`: node resets, two metric handlers of one producer, rollups, outages.
- `Backfill`: ticks of timers between the edge and the release of a hold; a failing
  commit of the first window; a failing `set_watermark`; a stop between the end of
  a held job and its watermark, which handles records twice.
- `DataOpsBindings`: discovery, the scheduler's clock, interval outputs.  A stop
  is treated like a crash.  `_wake_on_inputs` retries over HTTP only without a
  definition cache, which the service always has.
