# telepty: a verification project in TLA+

telepty is a control plane for terminal agents: one node daemon keeps the
sessions, bridges own the terminals and connect to the daemon by WebSocket, and
clients inject text into sessions, read them and tear them down. What can go
wrong in it is concurrency: files that several processes write under an advisory
lock, a delivery loop that awaits, timers that fire between a text and the
carriage return that submits it, and owners that reconnect in between.

This directory models the way of an injected text from the sender to the child
process: a broker that forwards it between nodes (`src/broker/`), the lock, the
mailbox files, the delivery engine and the inject pipeline of the daemon
(`src/mailbox/`, with the routes and the WebSocket code that interfere), the bridge
that writes it (`src/cli/`), the observation of the session afterwards with the notices to the
sender (`session-state.js`, `src/routes/session-actions.js`), the handoff that moves a session with its texts to a new
owner (`src/principal/`), the ledger that records what became of each inject
(`src/session-store/`), and the daemons themselves from start to end, with the lock that
gives the ledger one writer (`daemon.js`, `daemon-control.js`). Paths below are relative to the repository root.

## 1. Inventory

| component (files) | state it keeps | operations | what it interacts with |
|---|---|---|---|
| session lock (`src/mailbox/lock.js`) | a directory `.lock` with one ticket directory per acquisition, holding `draft`, `number`, `departed` | acquireLock, release, reapSessionLocks | every process that opens the mailbox: daemons, CLI commands |
| FileMailbox (`src/mailbox/index.js`, `storage.js`) | `inbox.jsonl`, `state.jsonl`, `dead-letter.jsonl` per session | enqueue, dequeue, ack, nack, beginNonRetryableAttempt, withdraw, recoverInflight, expireStale, purge, compact | the lock around every operation; the file system |
| DeliveryEngine (`src/mailbox/delivery.js`) | poll timer, `_tickInProgress`, lock failures and skip-until per session | tick: recover, expire, dequeue, fence, await deliverFn, settle | FileMailbox; deliverFn and onDelivery callbacks |
| mailbox routes (`src/routes/mailbox.js`) | none | enqueue, peek, ack, lease, purge, purge of dead letters | FileMailbox, at any time the loop is free |
| inject pipeline (`src/mailbox/session-delivery.js`, `delivery-runtime.js`) | `pendingSubmit` barrier on the session, injectionTargets, mailboxTextWaiters, immediateAttempts | deliverInjectionToSession, deliverFn, onDelivery, the deferred submit | mailbox, engine, session records, owner sockets |
| session ownership (`src/transport/websocket.js`) | `ownerWs`, epoch and clients of a record | claim, replacement (4001), close, auto-registration | records; the inject pipeline reads `ownerWs` |
| session records (`src/routes/session-records.js`, `session-actions.js`) | `sessions[id]`, `isClosing` | register, rename, teardown, DELETE | purge the mailbox, close the sockets |
| session store and inject ledger (`src/session-store/`) | framed segments, checkpoints, cold files, MANIFEST, receipts | submit, group flush, checkpoint, recover, resolve | a worker thread; the inject pipeline awaits its acks |
| cooperative handoff (`src/principal/`, custody and settlement in `src/mailbox/`) | a handoff intent in the session record, the request that awaits its acknowledgement, settlements, receipts of the bridge | open, acknowledge, refuse, time out, commit; dispatch and receipt of what crosses | mailbox custody, ownership, the store, the bridge |
| broker (`src/broker/`, `src/peer-forwarding.js`) | a receipt file per operation, places in use, timers, streams per node; the forward receipts of the destination daemon | inject, broadcast, stream, result, receipt; forwarded inject | nodes over an event stream and HTTP; their local daemons |
| state machine and observers (`session-state.js`, `src/completion-observation.js`, `src/routes/session-actions.js`) | one of eight states per session; the pending report of the newest tracked inject with its settle and dwell timers; which absences the source was told of | feed, tick, transition, ready frame, sweep, exit, delete; begin, abort, dismiss | the ledger (every observation is filed and awaited), the source session, the submit verdict |
| submit gate (`src/submit-gate.js`) | none of its own; rendered screens | poll, submit, retry of a return | screen, owner socket |
| owner bridge (`cli.js`, `src/cli/security-actions.js`, `src/mailbox/bridge-flush-filter.js`, `bridge-stage.js`) | a mailbox of its own, and in memory its index, a count, delivery timers, which bodies were not written | receive a frame, write or park it, flush, tick, withdraw, quarantine at exit, recover | the far end of the owner socket; the child's terminal |
| daemon lifecycle (`daemon.js`, `daemon-control.js`, `src/session-store/ledger-lock.js`, `ledger-client.js`) | `daemon-state.json`, `tracked-injections.lock`, the port; the client's `lockHeld`, `lockDurable`, worker | claim, acquire, open, listen, shutdown, exit; the operator's unlock and the sweep of a stale state file | other daemons of the same HOME through these files; the owner worker |
| supervisor, CLI, installers, audit, diagnostics, screen emulator, cross-machine | | process control, presentation, I/O | |

Hard behaviours, and the property that makes the component correct:

* **Lock.** Processes interleave at every file system call, die anywhere and
  leave tickets; others reap these while new tickets are being published; pids are
  reused. Correct means: one holder, bakery order, no live ticket reaped, no
  contender blocked by the dead, nothing left behind by one that gives up.
* **Mailbox and engine.** Each operation is several appends; a crash leaves any
  prefix. deliverFn is awaited, so HTTP handlers and callers change the files in
  the middle of a delivery. Correct means: at most one physical write of a text
  whose outcome is not known to be "nothing", no dead letter without a record,
  every waiting message settles.
* **Inject.** Text and carriage return are two writes 500 ms apart. Between the
  awaits of a call the session may get another owner, be closed, removed, renamed
  or registered again. Correct means: no return without its text, no two texts
  glued together, text only to the owner the caller was looking at, no wrong
  "refused", and a barrier that is always released.
* **Observation.** What a session shows is filed under the inject that is pending by then:
  timers and awaited answers of the ledger outlive injects, screens and sessions. Correct means:
  quiet that was measured for one inject is not filed under the next, a source hears of each absence
  once, and an idle edge is never swallowed without an answer.
* **Ledger.** One synchronous worker, but every write, fsync and rename may fail,
  the worker may be replaced with submissions in flight, and a loss of power takes
  back what was not fsynced, in the middle of a recovery too. Correct means: an
  acknowledged transaction is never lost, an indeterminate one is there whole or
  not at all and its later answer agrees, recovery rebuilds exactly what the
  log says from checkpoint, cold tier and segments, and never fails on what the
  owner itself has written.
* **Handoff.** A request is saved, sent, acknowledged, timed out and committed by
  handlers between which saves fail, the bridge dies, the daemon restarts and senders
  go on. Correct means: an epoch ends only after its child, what has not been tried
  crosses with its sender's consent and is written once, and a session is not deleted
  before what crossed is accounted for.
* **Owner bridge.** A frame is written at once, or parked, dequeued by a flush and
  written by a timer; the user types, the prompt comes and goes, the child is replaced,
  the process is killed, and any call of the mailbox may throw. Correct means: frames
  reach the child in their order, no submit without its body, "not written" is true
  for ever, nothing is lost without a trace, nothing waits unwatched.
* **Broker.** Five parties (sender, hub, node, its daemon, their files), each of which
  may stop between two writes; results come late, twice or never. Correct means: an
  operation is injected at most once, a receipt that says accepted or failed is true,
  and the places under `max_pending` come back.
* **Daemon lifecycle.** Several daemons of one HOME start, fail to bind, exit and are killed
  while an operator clears what they left; each call on a shared file is one another may come
  between. Correct means: the ledger has one writer, an orderly end leaves no lock that
  would shut the next daemon out, and a stop ends.

`PROJECT.json` lists every component with its status, and every hazard with its
line and the properties that are for it.

## 2. Modules

| module | models |
|---|---|
| `SessionMutex` | what the lock promises: one holder, and nobody overtakes a contender that was queued when it arrived |
| `MailboxLock` | `lock.js`, one action per file system call |
| `MailboxLockProofs` | the theorems about `MailboxLock`, among them that it implements `SessionMutex` |
| `FileMailbox` | operators only: the files, and for each mailbox operation the sequence of disks after each of its writes |
| `MailboxDelivery` | EXTENDS `FileMailbox`: the engine's tick for one session, with the HTTP handlers, the callers and crashes |
| `MailboxDeliveryProofs` | the theorems about `MailboxDelivery` |
| `InjectPipeline` | the calls of `deliverInjectionToSession`, the engine's `deliverFn`, owners and records |
| `InjectPipelineProofs` | the theorems about `InjectPipeline` |
| `InjectObservation` | one session after an inject: state machine, pending reports and their timers, observations on their way through the ledger, notices to the source |
| `InjectLog` | what the ledger promises: a log that only grows, and answers that agree with it while receipts are kept |
| `LedgerFormat` | operators only: frames, groups, and the replay of segments over a checkpoint |
| `Ledger` | EXTENDS `LedgerFormat`: client, owner worker, files, failures and recovery |
| `LedgerProofs` | theorems about `Ledger` and its log, about the operators of `LedgerFormat`, and about `InjectObservation`, whose observations the ledger keeps |
| `LedgerRecoveryProofs` | EXTENDS `LedgerProofs`: the theorems about recovery, what is served and answered, and that `Ledger` implements `InjectLog` |
| `CooperativeHandoff` | the handoff of one session: daemon, store, mailbox, bridges and the frames between them |
| `CooperativeHandoffProofs` | the theorems about `CooperativeHandoff` |
| `OwnerBridge` | the bridge process of one session, its mailbox, its timers and its child |
| `OwnerBridgeProofs` | the theorems about `OwnerBridge` |
| `BrokerHub` | hub, nodes and destination daemons with their receipts |
| `DaemonLifecycle` | the daemons of one HOME, their shared files and port, their workers, and the operator's commands |
| `DaemonProofs` | the theorems about `DaemonLifecycle` and about `BrokerHub`, two separate parts; the names of `DaemonLifecycle` that both would have say so (`LifecycleInit`, `LifecycleSpec`, `NoProcess`) |
| `MCMailboxLock`, `MCMailboxDelivery`, `MCInjectPipeline`, `MCLedger`, `MCCooperativeHandoff`, `MCOwnerBridge`, `MCBrokerHub`, `MCDaemonLifecycle` | the model values and sets of the runs |

A definition named `...Without...`, `...Ignoring...` and the like, with a comment
that begins "Mutant:", is a wrong variant of the definition after it. No
specification uses it: it is there to show which mistake a property catches.

### MailboxLock

A ticket name is `<pid>-<random>` and is never used twice: `Ticket` is an ordered
set (the order of names decides ties), `owner[t]` the pid in the name, `dir`,
`number` and `marker` are what `readdir` and `readFile` would show. `pc[p]` is
the next call of process p, `mode[p]` its loop: doorway scan, admission scan,
removal of its own ticket, or a sweep (`reapSessionLocks`). `Mkdir` is
`mkdirSync(own)`; `ListPeers`, `ReadTicketDir`, `ReadNumber` and `RecheckDeparted`
are one pass of `readTicket`; `Publish` is the rename of `draft` to `number`;
`RemoveList` ... `RemoveRmdir` are the calls of `removeTicket`, for the owner and for
reapers alike. `draft` is not a variable: nobody reads it. The lock is synchronous
in its process, so a process has one acquisition at a time; deadlines are
nondeterministic (`Timeout`), as is the death of a process (`Crash`, for those in `Mortal`)
and the reuse of its pid (`ReusePid`). `NamesOf[p]` are the names process p may draw.
`RmdirFails` is an `rmdir` that throws ENOTEMPTY and throws its caller out of acquireLock.
`MaxContenders` is `MAX_CONTENDERS`: a longer listing throws.
Of the Windows rules for delete-pending entries only the unresolved listing is
modelled (a retry); the rest make an outcome of a call rarer, and are not there.
`ahead[t]` is a history variable: the tickets that had a number when t was made.

### FileMailbox and MailboxDelivery

`Disk` keeps the inbox rows, the last state row of each message, the ids whose
history says "unknown", and the dead letters. Every operation is an operator
from a disk to a sequence of disks, one per append or rewrite; `Commit` runs it to
the end, or kills the daemon after any proper prefix. Times are ages relative to
the clock, cut off where no comparison can tell them apart. A tick is
`StartTick`, `RecoverInflight`*, `Recovered`, `ExpireStale`*, `Expired`, `Dequeue`,
`Invoke` (the fence and deliverFn up to its await), and one of `Succeed`, `Doubt`,
`Fail`, `TargetGone`. Handlers run when the tick is idle or awaiting (`LoopFree`):
the daemon has one thread. An acknowledgement of a handed-off message also settles it;
when the settlement cannot be made durable, `UnsettledAckWrites` takes the ack back with a
`dead_letter` state row (`index.js:184-190`) and the engine leaves the message (`AckThrows`).
`FenceFails` has the fence row on disk or not, and the nack after it whole, cut or refused.
`effects[m]` is a history variable: how many calls of
deliverFn for m are not known to have written nothing.

### InjectPipeline

An action is what the daemon does between two awaits. A `Session` is a record (one
registration of a name), a `Socket` an owner connection; `wire[w]` is what was sent
on it. A call goes gate, queue, tick, text, submit; `barrier[s]` is `pendingSubmit`,
`bound` is injectionTargets, `waiter` and `failure` are awaitMailboxText's,
`unsure` is immediateAttempts' uncertain result. The mailbox is abstracted to the
states `InjectPipeline` can tell apart (what `MailboxDelivery` checks of it is used
here, not checked again): a refused lock is one of `faults`, a fenced message is one
whose outcome is unknown and which is never retried.

### InjectObservation

One session and the tracked injects into it, numbered as they begin. `machine` is its
SessionStateMachine, with `marked` for a recent OSC 133 marker; `Output`, `Silence`,
`ThinkingTimeout` and `Ends` choose what `feed`, `_tick`, onExit and DELETE find, and `Observe` is
what registerStateObserver does in the same step. `Fire` is fireAutoReport: it drops or defers a
ready frame, opens the settle window, or files an observation. `report[i]` is the object in
`pendingReports`: its settle window and timer (`Settle`), the rearms, the dwell timer of a ready
frame (`ReadyTimer`); a timer keeps its object when another takes its place in `pending`, as the
closures of the code do. recordObservation is split at its await: `Filed` adds the call to
`calls`, and `Written` or `Unwritten` is the ledger's answer with what follows it; answers may come in
another order than the calls. `told` are the notices sent, `delivered` is
deliveredAbsenceIdentities. `of` of a call and `owed` are history variables: for which inject the
cause was measured, and that an idle edge has fallen into a settle window. `wrapped` tells a
session with a bridge (ready frames, collected by the health poll) from a spawned one (sweeps,
exits). How far the submit of an inject is, and with it whether a ready frame waits or is dropped, is
open. Words of the screen are reduced to the causes of `OBSERVATION_CAUSES`; the three of `_tick`'s
silence and the sweep's are one. Not there: what classifyConsumption says, the facts about owners
(recordSessionFact), renames, a record that is demoted and comes back hot (it forgets what
it delivered), sources that are gone.

### LedgerFormat and Ledger

A segment is a sequence of lines: frames, commit frames, and `Torn`, a part of a
line; its first `safe` lines are fsynced. `manifest` stands for MANIFEST.json and the
immutable files that it names (hot, cold, receipts): the rename makes them current
together. `own` is the memory of the owner: the records (`hot`, `cold`), the
open group (`frames`, `noops`, `overlay`), `receipts` with the checkpoint that has
each, and the counters. A record is its tracking state, the number of its
observations and the last one: enough to see an effect dropped, repeated or
reordered. Actions are whole handlers of the worker, which is synchronous:
`Submit` (client), `Take` (submit of the owner), `Flush` and `Retry` (flushGroup's two
attempts), `Checkpoint`, `Open` (replaySegments and recover). Failures come
between their file system calls: a write leaves any `Partial`, an fsync that
fails leaves the bytes in the cache, a checkpoint stops before or after
its receipts are stamped or at the rename, a recovery is cut before its MANIFEST.
`PowerLoss` keeps, of each segment, the fsynced part and any prefix of the rest.
Messages of the owner reach the client in order and before its exit event, so they are
delivered in the step that posts. `outcome[t]` is what the submitter knows: `lost`
says that its process ended with the machine. close is `Flush`, `Checkpoint`, `Exit`.
`log` is a history variable: the frames that replay would apply if only
fsynced bytes were left. The owner never reads it.

Assumed of the system: bytes of a file reach the disk in order, directory entries
are durable once their directory is flushed (the code notes that win32 does not offer
that), and a failed write throws (`tryWrite` does not look at the count that writeSync
returns).

### CooperativeHandoff

`mem` is the daemon's record of the session (epoch, owner generation, handoff intent),
`store` what the last visible save made of it; `Save` is done, visible but not
acknowledged, or failed, and the handlers differ in what they do then. `attempt` is
the request of `OpenHandoff` that awaits its acknowledgement: it is answered
(`TakeAck`) or, also when its connection is lost (`Lose`), times out (`TimedOut`).
`journal[m]` is the last state of message m in the mailbox, with the two custody checks
as `CustodyEmpty` and `NeverAttempted`. `consent[m]` is the owner m's sender agreed
to leave; `settled` the rows of the settlement file. Bridge b is the one that was started
with the bearer of epoch b: `child`, `held` (handoffPending), `queue` (accepted input)
and `tried` (the receipts that make a pending write happen once). `down` and `back` are
the frames on the connection, in order; they die with it. Faults are failed saves,
lost connections (a bridge that dies does nothing more after it) and killed daemons.
Signatures and digests are abstract:
an acknowledgement is the bridge's own.

### OwnerBridge

Injection i is frame 2i-1, its body, and frame 2i, the carriage return. `b` is the
memory of the process together with its mailbox: `box` the rows, `grave` the dead
letters, `rec` the index `bridgeRecords`, `count` bridgePendingCount, `timers` the
delivery timers in the order they fire, and the sets by which a return is recognised
as alone (`unwritten`, `held`, `adjacent`, `queuedBody`, `refusedBody`). `ids` says
whether the daemon's frames carry ids; without them a return is paired by its place.
A handler, the tick (`bridgeTick`), the ready route and a timer run without an await:
`Receive`, `Tick`, `Ready`, `Fallback` and `Fire` are one action each, and `Kill` has the
places inside them at which something is already on disk. A `fault` chosen by an action
says which kind of mailbox call throws (enqueue, withdraw, dequeue, ack, the calls at exit
and those of a recovery), for which frames; each kind once.
What the grid and the prompt detectors decide is `Ready`, and typing is `Type`.
Abstracted: a frame does not grow old while timers wait (the time to live is minutes, a
batch takes seconds), the caps of the in-memory indexes (4096 records) are not reached,
a direct `child.write` does not throw, receipts are not lost on a closed socket, and there
is no handoff here (`handoffPending`; that is `CooperativeHandoff`).

### BrokerHub

`state`, `result` and `group` are the receipts on the hub's disk, `active` and `timers`
what its process waits for. A request is admitted (`Inject`, `BroadcastAll`) and then reserves
and dispatches one operation after the other (`Reserve`, `Dispatch`) without another
handler in between (`Idle`). `wire` holds the frames a node has not read; `node`, `posted`
and `request` follow the node through its local inject to the result it posts;
`inbound` is the forward receipt of the destination daemon. A daemon answers with an HTTP
status, and the node reads no more than that and two codes (`Classified`, `node.js:128-139`):
of the `Answers`, `refused` is any status below 500 that is no success, `gone` the 410 of
`session-delivery.js:716-720` that says `delivery_uncertain` and is read like a refusal,
`unsure` a 202, a 5xx or no answer. `SshSubmits` are the operations whose text and return are
two writes to a remote shell: there `refused` may stand for a refused return behind a
written text (`session-delivery.js:640-650`). A write of a receipt may fail
before or after it took effect, and the first write of a record may leave a part of it
(`torn`), after which the listing of the store throws. A retry with the same key
only reads a receipt (`Shown`). hub.close is `Crash`; frames on a stream that
has ended are frames its node never reads; a node that starts afresh and one that connects
again are not told apart.

### DaemonLifecycle

A `Daemon` is a process, started at most once: a restart is another element, and the number
of daemons bounds the number of starts. `pc[d]` is its next call: `claim`, `probe`, `publish`
(claimDaemonState), `acquire` (acquireLock at load), `config`, `open`, `bind`, `up`; `drain`
(after a signal) or `bailout` (the port is taken), `closing` (ledgerClient.close), `verify`,
`unlink` (release), `clear`, `exit`. `exists`, `compare` and `remove` are the three calls of
clearDaemonState, for daemons and operator alike, with `seen` the expected pid and `after` the
place to return to. An acquisition has a counter of its own, `acquiring`, because the one
of open() runs on the thread pool while the daemon binds and serves; `held` is `lockHeld`,
`refusal` what acquireLock answered. `worker[d]` is the owner worker: opening (it verifies
the lock, `VerifyLock`), with the store open, or unavailable; it may exit at any time and be
replaced. The files are `stateFile` (a pid), `lock` (whose it is) and `lockText` (the text
was written). A pid in a file stands for the pid and the token that only its daemon has, except in
isProcessRunning, which answers anything for a pid that was reused (`MayReusePid`).
`met[d]` is a history variable: the daemon was killed, a call of it failed, or its
configuration was unreadable. The operator runs one command at a time, and nobody starts a daemon while
`ledger unlock` runs, nor runs it while a daemon is loading: that is what the CLI demands
(`cli.js:4401`), and without it the property fails (§5). Not there: a daemon
that gets the pid of an earlier one, failures of the worker's open other than the lock
(`Ledger` has them), a signal between load and the result of the bind (it is a `Kill`), the respawn
budget (a replacement may or may not happen), the tailnet listener.

## 3. Runs

| run | question | result |
|---|---|---|
| `lock_safety` | do tickets exclude, in order, through kills, deadlines, reaping and pid reuse, and implement `SessionMutex`? | holds, 2.0 M states |
| `lock_live` | is every contender of three processes admitted, or thrown out by a clash of two removers only? | holds, 352 k states |
| `mailbox_delivery` | at most once, recorded, settled? | holds, 575 k states |
| `inject_pipeline` | are text and return written in pairs, and is what was refused never written? | holds, about 1 M states |
| `inject_live` | does text reach only the owner its caller saw, renames included, and is the barrier always released? | holds, 187 k states |
| `ledger` | does the ledger keep, serve and recover what it acknowledged, and implement `InjectLog`? | holds, 271 k states |
| `handoff` | does a session change owners with every text written once and none stranded? | holds, 968 k states |
| `bridge` | are frames written in order, in pairs, and accounted for? | holds, 1.3 M states |
| `inject_observation` | is what a session shows filed under its inject, told once, and answered? | holds, 544 k states |
| `broker` | are receipts true (but for two answers that a node misreads), is nothing injected twice, do places come back? | holds, 571 k states |
| `daemon_lifecycle` | does the store have one writer, does an orderly end leave nothing, does a stop complete? | holds, 229 k states |
| `ledger_recopy` | does the ledger keep what it acknowledged, if a recovery may be cut within its copy of the last group? | no, see below |

**Bounds.** *Lock:* two processes with three tickets let each process come back
after a death or a release while the other's old tickets are still there, with a
listing that is refused (`MaxContenders = 2` of three); one process also sweeps.
For any number of processes there are the theorems. `lock_live` has three processes, all
of which may be killed anywhere: one acquires twice, one once, and the third only sweeps, so that a
dead ticket can have two removers besides a live contender. There TLC finds the contender
that ENOTEMPTY throws out, which `EventuallyAdmitted` states as its exception (`RemovalClash`; §5); with two
processes it does not happen. With three contenders of one acquisition each, one of them
mortal, the property holds as well (799 k states, not run every time). In `lock_live` there is no refused listing, no deadline and no
pid reuse, because each of these makes a contender give up or wait for an unrelated
process by design. *Mailbox:* two messages, two attempts, a time to live of two
ticks, an in-flight timeout and a backoff of one, compaction at two: the smallest
values at which a retry, an expiry in flight, a recovery and a compaction all
happen, in either order; one fault (a crash or a refused lock) anywhere. An acknowledgement
that throws is no fault in this count: it may happen each time.
*Inject:* two calls are enough for one to overtake the other, two records and two
sockets for one replacement of each; in `inject_live` one call and two names, so
that a rename happens (to whom a text goes does not depend on other calls; with two calls and
one name the property holds too). *Ledger:* two transactions out of begin, observe, abort and
reheat on one record and begin on another of the same session, so that one
supersedes the other; they share a group or not. Three faults are a first
attempt that fails, a retry that fails and the restart that must sort it out, or
a failed write, a failed checkpoint and a loss of power. Two generations: the one of
the fresh store and one checkpoint (its attempt may fail and leave its files).
The same properties hold with three generations, and with three
transactions and two faults; these instances take too long to be run every time. What
two generations cannot show is the trimming of a receipt: it needs four, and four faults besides
(the first of the known limits in section 5; the last case of `Answer` in `InjectLog` is for it, and
one transaction with begin and observe reaches it in 78 k states). The theorems are for any number.
*Observation:* two injects, so that one supersedes the other while its timers run and its calls wait;
the session may have been at work before; the screen speaks twice (output, silence, a ready frame,
a sweep), which with an exit is enough to open a window, to swallow an edge in it and to file the same
cause twice; one rearming stands for the bounded number of them; two calls under way while
the screen goes on. Pushing is on for every cause (`TELEPTY_COMPLETION_UNKNOWN_PUSH=1`): off, the
source is told of less. From a fresh session the properties hold with three changes of the
screen as well (1.5 M states).
*Handoff:* two messages (interchangeable), so that one crosses and one does not, or two
cross; three epochs and owners, so that a text could survive two rotations; two requests, of which
one may be refused or time out and the other commits; two faults, since what a
failed save leaves behind matters when the daemon is killed as well.
*Bridge:* two injections are a parked one and one that could overtake it; two
processes and two children for one kill or exit and one replacement; one kind of
mailbox failure out of all six, for one frame or for all. With four injections and two kinds,
simulation of 34 M states found nothing.
*Broker:* two operations, injected or broadcast, for the two places of
`MaxPending`, to one node, so that they share a stream; two streams for one
loss; one crash of the hub and one failed write; one operation goes to a remote shell
and one does not.
*Daemons:* two, which are two at once or one and its restart, and the operator; every failure,
kill and reuse of a pid at every step. For any number there are the theorems.

**Fairness.** *Lock:* `WF(Step(p))`: acquireLock is synchronous, so a process that
has called it goes on unless it is killed; crashes, deadlines and new calls are not
fair. *Delivery:* `WF(EngineStep)`: the poll timer fires and deliverFn settles
(its writes have timeouts); `WF(Restart)`: the daemon is supervised; `SF(Elapse)`:
the clock advances although ticks enable and disable the action. HTTP requests
and callers owe nothing. *Inject:* `WF(CallStep(i))`: the timers of a call fire and
its promises settle; nothing is asked of the engine, the owners or the records.
*Observation:* `WF(Answer)` and `WF(Settle(i))`: the ledger's client answers every call (its timers see
to that) and an armed timer fires; nothing makes a session speak or a source inject.
*Broker:* `WF` of `Reserve` and `Dispatch` (a handler runs to its end), of each `Timeout`
(an armed timer fires) and of each `StreamLost` (`stream_ms` ends every stream);
nodes, daemons and senders owe nothing.
*Daemons:* `WF` of a daemon's own steps, of its acquisition and of its worker's `VerifyLock`:
calls on files return, and the timer of `close` fires. Nobody has to start, stop or kill one,
workers need not exit or answer, and the operator owes nothing.

The ledger promises no progress that depends on its disk; its run is about safety,
and so are those of the handoff, which may stay `outcome_unknown` by design, and of the
bridge, whose user may type for ever (that what is parked is looked at, while no
dequeue has thrown, is the invariant `Watched`).

`CHECK_DEADLOCK FALSE` is set for the lock (all tickets used, or all processes
dead), for injects (all calls have returned), for the ledger (all transactions submitted and
answered), for the handoff (session deleted, or requests and faults used up), the bridge
(the last process ended), the observation (the session has ended), the broker (all operations answered) and the daemons (all of
them gone). The mailbox never
stops.

**What the violation shows.**

* `ledger_recopy`: `recover` appends its copy of the last group to
  `<epoch + 1>-1.jsonl` before the MANIFEST has that epoch. Cut within the write, it
  leaves a part of the group; the next recovery has the same epoch and appends
  to the same file. Frames without a commit make the count of the next commit frame
  wrong, and groupFrames stops there: what is acknowledged afterwards in that
  file is never applied. A torn line makes the next open fail with
  `corrupt_committed_frame`. `ledger-owner.js:686` says that the copy is idempotent,
  which is so of whole copies; the `ledger` run has those (`MayTearCopy = FALSE`).

## 4. Proofs

`MailboxLockProofs` proves, for any sets of processes and tickets and any
`MaxContenders`, with kills, deadlines, reaping, sweeps, refused listings and pid
reuse allowed or not: type correctness (`TypeCorrect`), `MutualExclusion`
(`Exclusion`), `FirstComeFirstServed` (`AdmissionOrder`), `LiveTicketUntouched`
(`Untouched`) and that a contender that has removed its ticket left no directory of it
(`CleanRelease`, which no run repeats). The only assumption is
`LockAssumption`: tickets are natural numbers (their names are ordered), `NoTicket`
and `NoProc` are no ticket and no process.

The argument is Lamport's, over files. `Order` says: if p is in its admission loop
and q is acquiring, and p's scan needs no more of q's ticket (or p's ticket had a
number when q's was made), then q's number is, or will be, after p's. The second
half is about q's future: while q is in its doorway it has still to list or to read
p's ticket, or has already seen a number at least as high. Two holders would each
come after the other, and an overtaken ticket would come after its overtaker.
`Order` is inductive only with its surroundings, the other conjuncts of `IInv`:

* `Shape`: what a process's `pc` and `mode` say of its ticket and its peer;
* `Current`: a running acquisition has its own directory, unmarked, and a number
  exactly when it has published: what a reader sees of it is what it did;
* `Reapers`: whoever is inside removeTicket for another's ticket is not at a current
  one, so that `Current` cannot be undone by others; this is where the check for a
  dead owner or a departure marker is needed;
* `Fresh`: a name that was never used has no files and is in nobody's listing, so
  making a ticket disturbs nothing that is already known;
* `Ahead`, `Irreflexive`: nobody counts a choosing ticket, or itself, as numbered.

`Initially`, `Inductive` and `Invariant` are the three steps, one case per action.
`CleanRelease` adds one invariant of its own (`Leaving`): a process that removes its
own ticket either sees it gone or is still to unlink it.

It also proves that the file protocol implements `SessionMutex`
(`Refinement`): every step of `MailboxLock` is, under the phases and the queues that
`PhaseOf` and `BeforeOf` read off its state, a step of the abstract mutex or a stutter. It
rests on `IInv`: an entry is allowed because `Order` leaves nobody before the holder,
and a numbered contender stays numbered to the others because `Current` protects its
files.

Of `BrokerHub`, `DaemonProofs` proves type correctness (`TypeCorrect`, which no run repeats) and `ReceiptTruthful`
(`ReceiptsTruthful`) for any sets of operations and nodes, any targets and broadcasts and
any bounds on faults, crashes, streams and places. It assumes that every operation has a
target (`TargetAssumption`), that a broadcast does not name an operation twice
(`BroadcastAssumption`), that `SshSubmits` are operations (`SshAssumption`) and that bounds are numbers
(`BoundsAssumption`).

Whether an operation was injected is known to its daemon only, so the argument follows
the operation on its way and says at each station what cannot have happened yet:

* `NoRecord`, `GroupFirst`, `Requests`, `Sending`, `SendingDistinct`: an operation without
  a record was never sent; one in hand was not sent yet and is in hand once; the operations
  of a broadcast have no record before the broadcast has one, also over a restart;
* `Wires`, `WiresDistinct`: a frame on the wire is there once, on its target's stream, and its
  node has not begun with it;
* `Handled`: what a node does with an operation, it does once, and a daemon's
  request that is not answered has not injected it;
* `Accepted`, `Failed`: wherever a result is said (`Says`: the daemon's receipt and its answer as a
  node reads them, the result on its way, the hub's receipt), accepted means that it was injected, and failed
  that it was not or that the answer is one that nodes misread (`Misread`), and that no daemon
  has still to answer. The daemon saves its receipt before it answers and answers "outcome
  unknown" when the save fails: that is what makes these two inductive.

`Initial`, `Stuttering` and a lemma for each action make up `Inductive`; `Truthful` derives the
property. `PlacesComeBack` is liveness and only model-checked.

`MailboxDeliveryProofs` proves `AtMostOnce` (`AtMostOnceHolds`, for senders that do not use
an id twice, `~MayResend`) and `DeadLetterHasRecord` (`DeadLettersRecorded`, without
that condition, and with the exception that the property makes for an ack that fails to settle), for any messages, limits and faults, and with rewrites that tear. A
message is `Spent` when it has ended, is fenced or was forgotten; no tick dequeues it then.
`Becomes(d, e, X, Y)` says how an operation may change the disk: only messages of X are
no longer spent, only those of Y appear, none is dead without a record. Each operation
satisfies it at each of its writes (`Writes`, one lemma per operation), so that a crash
between two writes needs no case of its own (`Committed`); the acknowledgement that fails to settle satisfies
`Alters`, which is `Becomes` without the record. X is not empty for three
steps only: an enqueue of a new id, a nack after a call that wrote nothing, and a nack after a
fence that failed. `IInv` says that what was called for and not taken back is spent, and
that a message between its dequeue and its fence is not; the three steps keep it.

Its types (`TypeCorrect`) are a matter of data: a row's attempt never passes `MaxRetries`, so that its
delay, doubled at each attempt, stays within `MaxBackoff` (`Backoff`, with the
cardinality of a powerset for 2^k); the latest row of a message exists (`LatestRow`);
what a compaction leaves of the inbox is a sequence of rows (`WithoutType`, about the recursive function
`Without`). The last two are inductions, by `LeastNumber`: a set of numbers has a least one, which follows
from the library's `NatLessThanWellFounded` and `WFMin` without an operator parameter. `Sound` says of
each operation that all its disks have the type; `Typed` adds to `TypeOK` that a
call that is awaited was counted, so that taking it back leaves a number. `DeliveryAssumption` says that
`NoId` is no message and that the bound on faults is a number.

`InjectPipelineProofs` proves the types (`TypeCorrect`), `NoBareSubmit`, `RefusedNeverWritten`,
`WrittenToEntryOwner` and `NoGluedText` (`NoGluedTextHolds`), for any calls, records, sockets, names,
retries and refused locks; it assumes `PipelineAssumption`. None of the four is inductive: a text is written by the engine, long after
its call has looked at the session, so the argument follows the message. An inbox holds pending
messages of its name, each once (`Queued`); a written text leaves its message acked, fenced or purged,
or dead with a doubt that was told (`BodySent`), so that it is not written again. A message that may
still be written is bound to its caller's target, or its caller was told that the outcome is
unknown (`StillBound`). A refused call has no message, or one that is dead or purged
(`Truthful`). The socket that the waiter was told of has got the text (`Owed`), and a written return
ends its call (`SubmitSent`): the return follows the text, once. What each action does to calls
and messages is first stated call by call (`Moves`, `LetIn`, `Enqueues`, `Lapses`, `Submits`,
`Requeues`, `Takes`, `Purges`, with a lemma each, joined in `StepEffects`); the steps of owners and
records change nothing of it. `Inv`, which TLC has checked on the instances of both runs, conjoins these, and
`Invariance` has a lemma for each conjunct.

`NoGluedText` relates two calls and what the socket got, and has an invariant of its own, `Pairs`, which the
steps that keep `Inv` keep too; TLC has checked it on both instances as well. A call that owes a return holds
the barrier of its record from before it enqueues until its submit timer has fired, and a call that was
answered with success has sent its return or reported its absence (`Follows`, kept by each action:
`FollowEnter`, `FollowDeliver`, `AsideFollow`, joined in `FollowStep`). So two calls on one record
that owe a return cannot both be open. The barrier is the record's and the property is the socket's: that a socket is never the
owner of two records (`OneRecord`, `RecordStep`) brings the two together. At the step that writes the later
text, the return is on the wire already (`ReturnFirst`), and since a wire only grows it stays between the
two (`ApartStays`, `ApartNew`).

Of `DaemonLifecycle`, `DaemonProofs` proves type correctness (`LifecycleTypeCorrect`, which no run repeats), `OwnerHoldsLock`
(`OwnerHoldsLockHolds`, with the corollary that the store has one writer), `ExitLeavesNothing`
(`ExitLeavesNothingHolds`) and that no daemon removes or overwrites another's lock
(`ForeignLockKeptHolds`), for any set of daemons and with or without reuse of pids. It assumes
`DaemonAssumption`: the operator and `NoProcess` are no daemons. None of these needs the claim: with the
state file alone two daemons may both believe in theirs. What carries the argument is that memory
agrees with the disk (`HeldOnDisk`: who holds has its own lock there, with its text;
`WorkerHeld`: a worker lives only while its daemon holds), which daemons cannot disturb since
a create is exclusive and a release verifies. The operator can, and `UnlockSeen` says why it
does not: past its reads, whoever holds the lock is the one it has read, which runs. That holds
because no acquisition is under way then (`UnlockQuiet`). For the exits, `LockAccounted` says that a lock
is being written, held, or left by a daemon with a fault, and `Ended` that after a release
nothing is held unless a call failed. `Inv` conjoins these; `InvStep` has a case for each action.
`StopCompletes` is liveness and only model-checked.

`CooperativeHandoffProofs` proves all four properties of the `handoff` run: the types (`TypeCorrect`),
`RotatedAfterExit` (`RotatesBehindTheExit`), `CustodyKept` (`CustodyIsKept`) and the action property
`NothingStranded` (`NothingIsStranded`), for any messages and any bounds on epochs, owners,
requests and faults; `HandoffAssumption` says that `NoMessage` is no message and that the bounds are
numbers, with at least one epoch and one owner. Two arguments meet in `Inv`.

* A text is in one place. What can bring it to a child is the journal, one frame on the wire, or
  one entry of a bridge's queue (`OneCarrier`); while one of these has it, it has not been written,
  and a message that has left `none`, `pristine` and `pending` never returns to them
  (`JournalBack`, `WrittenLater`). `TextsMove` lists the six ways in which a step moves texts, with the crash
  inside a dispatch among them. Whatever says `invoked`, in a receipt, an intent on disk or in memory, or a
  settlement, says it of a text that was written (`ReceiptsTrue`), and a session ends after
  a handoff only when all its records are invoked.
* The epoch moves in one step only (`EpochMoves`): the acknowledged exit meets the request that
  waits. That request is the recorded intent and its state shuts the senders off (`Requested`,
  `RequestKept`), so its stop frame is the last on the wire (`StopLast`); the bridge that takes
  it has nothing queued and accepts nothing more (`Stopped`), and an acknowledged exit is of the
  child of this epoch. So wire and queue are empty at the change, and the custody that is read again there
  says the rest. A restart moves nothing, because memory and disk agree on the epoch
  (`EpochSaved`).

`Connected` (no connection, no frames) and `Flying` (a message in flight is saved as started) are what the
others need; each has a lemma of its own, with a step for each action that disturbs it.

`OwnerBridgeProofs` proves the six properties of the `bridge` run: the types (`TypeCorrect`), `Watched`
(`WatchedAlways`), `NotWrittenIsTrue` (`NotWrittenAlways`), `CustodyKept`
(`CustodyAlways`), `WrittenInOrder` (`OrderAlways`) and `SubmitNotAlone` (`PairsAlways`), for any numbers of
frames, processes and children, with and without ids, and for all kinds of mailbox calls that throw
(each kind in one step, there for one frame or for all, as in the model). It assumes `BridgeAssumption`: the bounds are
numbers, with at least one frame, process and child. Only `Watched` depends on what fails:
`bridgePendingCount` may run ahead for good once a dequeue has thrown, and the tick may stay unarmed
(§5); the property, as checked and as proved, speaks of every state before the first such dequeue.

The parts of the invariant are stated of any bridge s, with the last frame sent n, the failures
met f and the frames that arrived G, because a handler passes through several states of the bridge in one
step (a quarantine, a flush, a write) and the lemmas follow it helper by helper: `QuarantineBuries`,
`DeliverGood`, `FlushGood`, `EnqueueGood`, `WithdrawGood`, `WriteDirectGood`, `MaintainGood`, `StrikeGood`,
`FiredGood`. One lemma for each handler (`...Shows`, `CloseInv`, `KillInv`, `StartInv`) composes them,
and `NextInv` joins these. What the parts say:

* `Indexed`, `Own`, `Settled`, `Armed`, `Counted`: a record says what its row says, and each waiting row of
  this process has one; a written frame waits no more; a timer belongs to a row in flight that is not
  written; the count is that of the pending records. These are what a handler relies on when
  it looks at memory only.
* `Ordered`: what was written comes before what is on a timer, and that before what is pending. A
  direct write is allowed only when nothing waits or is on a timer, a flush takes all that waits:
  that is `WrittenInOrder`. That the timers of one batch follow each other is a fact about `Nth`,
  the i-th smallest frame of a set, which needs the cardinalities of `PlaceGrows` and `PlaceTaken`.
* `Doomed`: a frame that a dead letter calls not written has no timer; if its row is still there
  because the withdrawal threw, the flush that finds it drops it again, as stale or as a submit whose
  body is known to be unwritten. So `NotWrittenIsTrue`, which is not inductive without the reason why the row is
  harmless.
* `Accounted`: the body of a submit that may still be written is written, waits or is on a timer
  ahead of it, or is known to be unwritten; with `Ordered` this is `SubmitNotAlone`.
* `Durable`, `Asleep`: what a process that ends leaves on disk, and that nothing is left of its memory. A kill
  inside a handler reaches `Durable` at each of its places; `StartInv` rebuilds the invariant
  from it, with the recovery that withdraws what is left over.

`LedgerProofs`, and `LedgerRecoveryProofs` behind it, prove of `Ledger` the types (`TypeCorrect`, which no run repeats), that no step takes a committed frame back
(`NothingTakenBack`, an action property that no run repeats), and, for every recovery that is not cut within its copy
of the last group (with such a cut the run `ledger_recopy` violates the first of them), all that the run `ledger`
checks: what was acknowledged is committed (`AckedStaysCommitted`), recovery is complete (`RecoveryLosesNothing`),
the owner serves what is committed and nothing else (`ServesWhatIsCommitted`), its answers are true
(`AnswersAreTrue`), and `Ledger` implements `InjectLog` (`LedgerImplementsLog`); also that the log only grows at
its end (`LogOnlyGrows`, an action property that no run repeats). They hold for any transactions, ids, sessions,
operations, group sizes, generations and numbers of faults. Assumed are that bounds are numbers
(`LedgerAssumption`) and that an operation is one of the four kinds, about an id of `Id`, with a terminal
state if it sets one (`OpAssumption`: `applyFrame` refuses others).

* What the ledger reads is defined by recursive functions over lines and segments (`Along`), so nothing about
  it can be proved without induction. `Climb` is one that needs no operator parameter: a set of numbers with
  0, and with each number after one that it has, has all of them; it follows from the well-foundedness of the
  naturals. With it `FoldExists` says once that a function defined by its steps exists, and `AfterIs`,
  `FirstsIs`, `AfterFramesType` and `AfterSegmentsType` what the readings are.
* `FramesGrow`: lines that are added to a segment, torn ones too, take nothing from the groups before them.
  `LogIs`: the log is the committed frames of the segments. So whatever keeps the fsynced beginning of
  each segment keeps the log (`HeldGrows`), and every write, fsync, roll, copy and loss of power does
  (`MergeFiles`, `FlushFiles`, `RetryFiles`, `PowerLossFiles`, `OpenFiles`, joined in `StepFiles`). `Stored`, with the types of
  memory and answers (`Owned`, `Answered`), is inductive: `Sound`.
* An acknowledged group must also be read again, and a commit frame counts all the frames before it since the last: behind frames
  without a commit frame, or a torn line, a group is lost to the reader. `WholeEnds` says that the owner
  writes behind whole groups (`Clean`), except between a failed write and its retry, which starts a
  segment; and that a segment that a cut recovery has left is whole and fsynced, which is where
  `~MayTearCopy` is needed. Then a merge commits what it acknowledges (`GroupAppended`, `MergeEnds`).
* The order of the log: positions are in a strict order (`BeforeOrder`), and sorted frames are determined by their set
  (`SortedSame`). `Ordered` says that the groups of all files are in order or whole copies of earlier ones (`InOrder`),
  that at most one group that a recovery would find is not durable, and that it is the last (`FilesInOrder`).
  `Writing` says that this one is the owner's open group, and that the next position comes after all that is durable and
  after the checkpoint. So the log is what was durable, and perhaps the open or the found group behind it: each
  write, copy, cut recovery and loss of power either adds that group or does not (`MergeEffect`, `FailEffect`, `CopyEffect`,
  `PowerLossOrder`, joined in `OrderStep`).
* Replaying (here `LedgerRecoveryProofs` begins): a replay of the files comes to what a replay of their log comes to (`ReplayOnce`), since frames that were
  seen change nothing (`OldFrames`) and no other frame has the position or the transaction of one (`Alone`); frames behind the
  checkpoint are skipped (`AllSkipped`). A frame that `Fits` what both tiers show does the same to the hot records and to
  both tiers (`FitStep`), and a `Chain` of such frames is replayed without fault (`ChainReplayed`). Each frame fits when the owner
  takes it (`FrameFits`), which is what noopVerdict, the overlay and the guards on its operation are for.
* `Complete` is inductive: `Sound`, `WholeEnds`, `Ordered`, `Writing`, and `Kept4`: no transaction has two frames
  (`Single`); the MANIFEST replays to what the log makes, without and with the group that is found and
  not durable, either of which a loss of power may leave (`Recoverable`); both tiers of the owner are what the log makes, it has receipts of
  all that follows its checkpoint, and its open group fits (`Serving`); what was answered without a frame is so in the log
  (`Truthful`); and no store is unreadable (`Readable`, so `RecoverUnreadable` never happens: the faults of
  a replay are those of media, which the model leaves out). `CompleteStep` has a lemma for each action.
* `Answering` relates what submitters were told to the log, and is inductive beside `Complete`: what is posted or in
  the open group is pending, so what is answered at once is not in the log (`Posted`); nobody has been told of a group
  that is found and not durable, and a transaction in doubt that is found comes after the checkpoint, so the next recovery
  has its receipt (`Doubtful`); a transaction of the log that was called not applied will not get a receipt again (`Denied`).
  `AnsweringStep` gives `Tells`, the answers of `InjectLog`, for each action, and `AbstractStep` the refinement.

Of `InjectObservation`, `LedgerProofs` proves the types (`ObservationTypes`), `OwnEvidence` (`OwnEvidenceHolds`) and
`ToldOnce` (`ToldOnceHolds`), for any numbers of injects, screens, waiting calls and rearms, with
and without pushed screen observations; it assumes only that the bounds are numbers. `ObsTypeOK` is
inductive with `HasOpener`, what opened a window is remembered while its timer runs: it is what the
timer fires. `FireKeeps` says that `fireAutoReport` adds at most one call, about the report it is
called for and with the inject its caller measured; every caller but the dwell timer of a ready
frame passes the pending one, the settle timer because `StillPending` compares them, which gives
`OwnEvidence`. A notice is ticked off in `deliveredAbsenceIdentities` in the step that sends it
(`TickedOff`), which gives `ToldOnce` whatever the ledger writes again. `QuietAnswered` is
liveness and only model-checked.

Only model-checked are the liveness properties, `EventuallyAdmitted`, `EventuallySettled`, `EveryBarrierReleased`,
`PlacesComeBack`, `StopCompletes` and `QuietAnswered`. Liveness under fairness is outside the prover. The library's
induction theorems take an operator, which its provers cannot instantiate; `LeastNumber` and `Climb` do for one
recursive function at a time, as in `WithoutType` and `FoldExists`.

## 5. Known limits

Found with TLC while modelling; no run is kept for these.

* A committed transaction may be called not applied. A first write fails and leaves frames without a
  commit frame in a segment; the second writes the whole group to a new segment and its fsync fails, so the client
  is in doubt; the next recovery finds the group and answers `committed`. The client keeps the transaction in
  `C.unresolved` and asks about it after every open (`ledger-client.js:286`). Two checkpoints after the one
  that has its receipt, `trimReceipts` drops it (`ledger-owner.js:936-940`), the frames of the first attempt are still there,
  every replay lists them as unapplied, wherever the checkpoint is (`:651`), and `resolve` answers `not_applied` (`:1055-1060`), which the client
  stores over the first answer (`ledger-client.js:457`). The records are not affected. TLC finds it with one transaction,
  four generations and four faults; `AnswersTruthful` and `InjectLog` except it, and what is proved
  (`Denied`) is that the answer then stays what it is.
* A new bridge withdraws what its predecessor left pending. A withdrawal that throws (a lock
  that times out) is swallowed, the row stays pending with a count of 0, and nothing tries again
  (`security-actions.js:1044`, `:409`); when the new bridge parks a frame of its own, the next flush
  dequeues both and writes the old one, first (`:857`). `security-actions.js:1032` says "records left by a
  PREVIOUS bridge process are never replayed", as does `docs/bridge-delivery.md:76`. `NotWrittenIsTrue`
  excepts these frames; stated without the exception, TLC violates it in the `bridge` run.
  `WrittenInOrder` excepts them too: a frame of the new bridge may be written directly before a
  second one is parked, and the flush that this starts writes the old one after the newer. TLC needs
  three injections for it (`MaxInject = 3`, `Failure = {"recover"}`); the proof attempt met it first.
* Two removers of one dead ticket: the slow one lists the ticket before it is marked
  and creates `departed` after the fast one has unlinked it; the fast one's `rmdir` then
  fails with ENOTEMPTY, which is thrown out of its acquireLock (`RmdirFails`), although
  `lock.js:238-239` says this cannot be. So a live contender that reaps may leave unadmitted:
  `EventuallyAdmitted` excepts it, and stated without the exception TLC violates it in `lock_live`.
  The theorems hold with it.
* An acknowledgement whose settlement cannot be made durable quarantines its message with a
  state row alone (`index.js:184-190`): a dead letter that `dead-letter.jsonl` does not have. Its
  payload stays in the inbox, because its unknown outcome keeps compaction from erasing it, which is what
  the comment there promises. `DeadLetterHasRecord` excepts this message.
* A flush clears the tick before it dequeues (`security-actions.js:851`, `:859`). When the dequeue
  throws, the handler of the frame drops the exception (`cli.js:3496`), and what is parked waits, counted,
  without a tick until another event flushes. `Watched` speaks of the states before the
  first dequeue that throws; stated without this, TLC violates it in the `bridge` run.
* A `failed` receipt of the broker may stand over a text that was written. A delivery whose outcome is
  unknown and whose mailbox was purged meanwhile is answered with 410 and `delivery_uncertain: true`
  (`session-delivery.js:716-720`). The daemon files it as `outcome_unknown` (`peer-forwarding.js:264`), but a node
  reads the status only (`node.js:131-133`) and posts `failed`; a replay of the daemon's receipt
  answers 410 again (`peer-forwarding.js:251-253`). A remote shell may take the text and refuse the return: the
  owner that has changed in between is answered with 410 as well, without a hint that the text was
  written (`session-delivery.js:644`). `ReceiptTruthful` excepts both (`Misread`);
  without the first exception TLC violates it in the `broker` run.
* Rewrites of the mailbox files truncate in place (`path-boundary.js:116`): a kill before the
  write loses every row, and with them the history of unknown outcomes that `index.js:186` says
  "compaction must not erase". The run has `MayTearRewrite = FALSE`, because with it no message
  could be promised anything; the theorems of `MailboxDeliveryProofs` hold with it.
* A daemon that starts while the operator unlocks may lose its lock: unlock reads a lock that
  is created and not yet written (no pid in it), or the lock of a dead daemon that is replaced
  meanwhile, and unlinks what is there at the end (`ledger-lock.js:167`); TLC finds it in 15 steps
  when `Start` is not restricted. The CLI asks the user not to do that.
* A claim is read, then published (`daemon-control.js:103-120`): two daemons may both claim. The
  second fails to bind and clears the state file that names it, and the daemon that serves is named
  nowhere. `daemon stop` clears a stale state file in the same way.
* A bind error other than EADDRINUSE is thrown again (`daemon.js:2549`) and leaves the lock, as do a
  signal before there are handlers (`daemon.js:2635`), a failed write of the lock and a failed
  unlink: the next daemon is `lock_present` until an operator unlocks. `ExitLeavesNothing`
  excepts them.
* `nack` stops only at `dead_letter`: an HTTP ack during the await of deliverFn is undone by
  the nack of that attempt, against "Terminal states are immutable"
  (`protocol/mailbox.md:88`, `index.js:213-251`).
* A kill inside `nack` leaves `nacked` as the last state; neither dequeue nor a sweep looks at it
  (`index.js:241-251`; `protocol/mailbox.md:78` says "scheduled for retry").
  `EventuallySettled` is therefore stated with this state as an end.
* A submit with an id can still go out alone after a dequeue that throws in the flush which its
  arrival starts (the tick is not armed again either), after a withdrawal that throws in the
  flush that drops its stale body, and when the child is replaced while the body's timer is
  bound to the old one: `SubmitNotAlone` excludes these.
* Without ids, the write of a delivery timer clears `unwrittenBodyAdjacentAt`, so that a return
  after a body that was refused at its enqueue is written alone, which the comment at
  `security-actions.js:798` excludes; and a withdrawal that failed after its dead letter was
  written can be followed by a write (the condition of `NotWrittenIsTrue`).
* Pending reports are keyed by the session: the dwell timer of a ready frame (`session-actions.js:426`),
  and the submit verdict of one inject, reach whichever report is pending by then. `daemon.js:1943`
  calls the same at another place "one inject's evidence served under another inject's id".
  `OwnEvidence` excepts ready frames.
* A ready frame may open the settle window into which an idle edge then falls; when the window ends,
  the re-entry as a ready signal finds the submit answered and returns
  `observation_duplicate` (`session-actions.js:415`): the edge is never filed. `QuietAnswered` speaks of
  windows that quiet opened.
* An absence is marked as delivered before it is known that the source exists (`session-actions.js:207-213`),
  and a session fact is told to a record that is not hot each time it happens (`:263`).
* A result that was saved, but whose directory could not be flushed, leaves its receipt
  active; when the stream closes, `finish` overwrites `accepted` with `outcome_unknown`
  (`hub.js:104`; `docs/api/broker-v1.md:45`). `ReceiptTruthful` allows it: unknown is not false.
* A record that was cut short makes the listing of the broker's store throw: from then on
  nothing is admitted, and a closing stream leaves receipts active without a timer
  (`\/ Corrupt` in `PlacesComeBack`). A stream write that throws, and a save that fails after it,
  leaves an active receipt that only the end of the stream releases.

Of the models:

* A text without a return (`noEnter`) does not wait for the barrier once it is in
  the mailbox: nacked once, its retry can land between another call's text and its
  return. TLC finds this if `NoGluedText` is stated for all texts; the code states
  no rule for it, so the property speaks of texts that owe a return.
* After a compaction an id is unknown again, so a request sent again is delivered
  again (`MayResend`, FALSE in the runs).
* A dead ticket whose pid now belongs to another process is never reaped, and every
  contender of that session waits for that process or for its deadline.
* Not in `InjectPipeline`: bootstrap and modal parking, aterm and ssh sessions,
  signed approvals, poll-only sessions, the direct fallback, owner re-adoption, and a crash
  of the daemon during a call (the mailbox part of which `MailboxDelivery` has); handoff
  is in `CooperativeHandoff`, which has no await between text and ack of its own.
* A resolve that is repeated late may be wrong: a receipt is trimmed after two more
  checkpoints (or by the next one, if a failed attempt has stamped it), and if the torn
  first copy of its group is still in an old segment, resolve then says `not_applied`
  of a committed transaction. TLC needs four generations to find it when
  `AnswersTruthful` is stated without its last clause; a change of an answer
  already given would need four faults as well.
* `compact` is served in `unavailable_write`: it may demote a record that a possibly
  durable frame refers to, and the replay of that frame then fails. The client has
  the method and nothing in the daemon calls it, so `Checkpoint` is only what a
  threshold and close do.
* Not in `Ledger`: facts and interaction frames, capacity accounting, offline cold
  files, migration, reads, the respawn budget; a daemon restart that resubmits.
* Not in `FileMailbox`: peek, custody snapshots and the proof of a settlement, which
  `CooperativeHandoff` has in its abstraction of the journal. An acknowledgement whose
  settlement fails is in both.
* A bridge of `OwnerBridge` starts only after the one before it has ended (`Start`). A bridge that was
  replaced (close 4001) may run on for a moment beside its successor, with the same mailbox files; that
  overlap is not modelled, so the properties of the `bridge` run are about bridges one after the other.
* Not in `CooperativeHandoff`: `takeover.js`, HTTP principals, signatures, file formats.
* Not in `BrokerHub`: discovery, reply context, request windows and the capacity of the record
  store, a key that is used for two different requests, challenges.

## 6. Not modelled

* **Submit gate, patterns of the state machine, readiness and interaction views** (`src/submit-gate.js`,
  `src/interaction.js`, `src/readiness.js`): classifiers of terminal output with thresholds.
  What they decide is a function of the screen; the modelled parts only use the verdict
  (`Detected` of `InjectObservation`, `Ready` of `OwnerBridge` and of `CooperativeHandoff`).
* **Terminal screen**: a sequential emulator and tables of prompts, well reached by tests.
* **Takeover and HTTP principals, strict transports, the readiness handshake**:
  challenges bound to a socket and an epoch, each checked within one handler. What
  remains without the cryptography is the epoch check, which `CooperativeHandoff` has.
* **Broker discovery, peers, ssh**: requests over the network, with little state.
* **Ledger facts and interactions**: they touch every record lazily and would multiply its
  states; records go through the same segments, groups, checkpoints and replay.
* **Legacy store, credentials, mailbox notifier, poll-only sessions**: whole-file
  writes of small objects, a coalescing timer, a lease timestamp.
* **Supervisor, service managers, CLI, installers, audit, diagnostics, MCP server**: process
  control of the host, presentation and I/O. A daemon that dies and comes back is in the models.
  Of the daemon lifecycle, what is left out is named under `DaemonLifecycle`.

Every invariant, action property and refinement that a run checks is a theorem, with the assumptions of section 4.
The liveness properties (`EventuallyAdmitted`, `EventuallySettled`, `EveryBarrierReleased`, `PlacesComeBack`,
`StopCompletes`, `QuietAnswered`) are model-checked only. The worthwhile next steps are a model of facts and
interaction frames beside `Ledger`, whose receipts and demotion they share, and of the truncating rewrite of the
mailbox files together with a promise that survives it.
