# Signal Desktop in TLA+

A TLA+ model of the parts of Signal Desktop in which the order of events
decides whether a message is kept, sent and accounted for: the transactions of
the protocol store, the receiver of messages, the manager of background jobs,
the job queues with the challenges of the server, the receipts and the sockets.
TLC checks small instances, and TLAPS proves the safety of every component for
every instance, under the hypotheses that section 4 names.

All paths below are relative to `src/`.

## 1. The system

Signal Desktop is an Electron program. The main process owns windows, files and
the database workers; one renderer runs everything else, in a single JavaScript
thread, where two pieces of code interleave only at an `await`, a timer or a
callback. Most of its difficulties are of that kind: state that is read before
an `await` and used after it, and the process dying between two awaits.

| component | state | operations | interacts with | module |
|---|---|---|---|---|
| zone transactions, `ts/SignalProtocolStore.preload.ts` | current zone and its depth, queue of callers, pending sessions, sender keys, unprocessed rows and kyber triples, caches | `withZone`, stores and loads, commit, revert | the receiver and every sender call it; it writes the database | `ZoneTransactions` |
| message receiver, `ts/textsecure/MessageReceiver.preload.ts` | four queues, two batchers, `#isEmptied`, a retry timer, the `unprocessed` table | requests of the socket, decryption in batches, acknowledgement, retries from the table, `onEmpty` | socket, zones, the handlers of the application | `MessageReceiver`, `AtLeastOnceInbox` |
| job manager, `ts/jobs/JobManager.std.ts` | `#enabled`, active jobs, one timer, a table of jobs | `addJob`, `start`, `stop`, `cancelJobs`, `waitForIdle`, runs of jobs and their outcomes | attachment downloads and backups, deletion of call links; started on every connection | `JobManager` |
| batchers, `ts/util/batcher.std.ts`, `waitBatcher.std.ts` | items, timer, queue of batches | `add`, `onIdle`, `flushAndWait` | receiver, job manager, receipts | inside those |
| task timeouts, `ts/textsecure/TaskWithTimeout.std.ts` | running tasks and their ticks | `runTaskWithTimeout` | every queue of the receiver | inside `MessageReceiver` |
| job queues, `ts/jobs/JobQueue.std.ts`, `JobQueueDatabaseStore.preload.ts` | stored jobs, stream, in-memory queues, pause and shutdown flags | `add`, `streamJobs`, `run`, `pause`, `shutdown` | every sender of messages, receipts and profiles | `JobQueue` |
| conversation queue, `ts/jobs/conversationJobQueue.preload.ts` | per conversation: a status, a time, the jobs put aside, callbacks and timeouts; who waits for a captcha | `run`, `retryJobOnQueueIdle`, `#unblockConversationRetries` | job queue below, challenge handler beside | `ConversationJobQueue` |
| challenge handler, `ts/challenge.dom.ts` | conversations that wait, timers, captcha token, online flag | `register`, `unregister`, `onOnline`, `solve`, `#startQueue` | conversation queue, user, server | `ChallengeHandler` |
| send states and receipts, `ts/messages/MessageSendState.std.ts`, `ts/messageModifiers/MessageReceipts.preload.ts`, `ts/util/syncTasks.preload.ts` | a status per recipient in memory and in the row, tasks, receipts that wait for their message | `sendStateReducer`, `onReceipt`, `forMessage`, `send`, `runAllSyncTasks` | receiver, senders, database | `MessageReceipts` |
| sockets, `ts/textsecure/SocketManager.preload.ts` | credentials, two sockets, sleeping loops of `reconnect()`, a status, a timer | `authenticate`, `reconnect`, `logout`, `onNavigatorOnline`, requests | receiver (a connection starts it), job managers | `SocketManager` |
| requests on a socket, `ts/textsecure/WebsocketResources.preload.ts` | requests in flight, keepalive | `fetch`, `respond` | sockets, receiver | not modelled |
| message modifiers, `ts/messageModifiers/` | reactions, edits, deletions that arrive before their target | `onReaction`, `forMessage`, ... | receiver | planned |
| calls, `ts/util/callDisposition.preload.ts` | history of a call | transitions | receiver, RingRTC | planned as operators |
| SQL server, storage service, backups, groups, profiles, Redux state and components, main process, updater, sticker creator, build | | | | not modelled, see 7 |

What makes each of the modelled components correct:

* **Zones.** One zone at a time; nobody sees what a zone has not committed;
  what a call has resolved with is in the database, what it rejected left no
  trace; nobody waits for ever and waiters enter in order; a kyber triple is
  seen once.
* **Receiver.** What the server was told to forget is safe with the client at
  every instant; a message key is spent only when its plaintext is kept;
  messages reach the application in the order of their arrival; `empty` comes
  after everything before it; every envelope is settled in the end.
* **Jobs.** No more run at a time than allowed; what was added is in the table
  until it has finished or is given up; it is given up after all its attempts
  only; it is not run again; no row is stuck; every job ends.
* **Job queues.** A row is in memory or about to be; one insert is one run at a
  time; jobs of a conversation start in the order they were added in; a row
  goes when its job has ended and not before; nothing runs after a shutdown.
* **Conversation queue and challenges.** A job that is put aside has something
  that will try it again, and is in one place only; the time of a challenge is
  kept through periods offline; every job ends though no captcha is solved.
* **Receipts.** A receipt that was confirmed is in the database; a state never
  goes backwards; every receipt reaches its message.
* **Sockets.** The status is true; whoever has an account is connected or about
  to be; without an account nothing connects; a timer closes its own socket.

## 2. Modules and how they correspond to the code

Each component has one module that states it for every value of its constants,
an `MC` module that instantiates it for TLC (symmetry, where nothing orders the
values), and one `.cfg` for each question.

### ZoneTransactions

Calls of `withZone` are processes; the program counter of a call is the `await`
at which it stands. `Enter`, `Wait` and `Leave` are `enterZone`, the queueing
branch of `withZone` and `leaveZone` with the callers it releases; `Buffer`
stores into the pending maps, `WriteThrough` is a store in `GLOBAL_ZONE`;
`Commit` takes the snapshot of `commitZoneChanges`, `WriteSucceeds` and
`WriteFails` are the answer of the database, `Return` and `Throw` the ends of a
call. The zone is entered and a value stored in separate steps, which allows
more interleavings than the code does. A write of the database and its answer
are one step. The removal of prekeys that a kyber triple rests on is abstracted
to the triple; a failing write of a sender key, which the code swallows, is not
modelled, nor are `removeSession*` and the `clear*` operations.

`NestingAssumption` states what the callers do: a call made inside another is
for the zone of the other. A call that broke it would wait for itself.
`BatchAssumption` states that a buffering zone belongs to one batch, which makes
every store in it: `decryptAndCacheBatch` creates its zone for each call
(`new Zone('decryptAndCacheBatch', ...)`, `ts/textsecure/MessageReceiver.preload.ts:993`).
Without it isolation is false: two batches that shared a zone would be inside
together, the second would read what the first has not committed, and TLC shows
it (`NoDirtyRead`). Stores that outlive the body that called them (a task that
timed out) are not modelled.

### MessageReceiver and AtLeastOnceInbox

The nth delivery of the server has the id n (its `receivedAtCounter`), and
`received[n]` is the envelope it carried. The variables are the queues by their
names in the code; an entry names the task that was queued. `Deliver`,
`DeliverEmpty`, `Receive` and `QueueAllCached` are the incoming queue;
`StartBatch`, the six outcomes of a decryption, `CommitBatch` or `CommitFails`
and `AckBatch` are `decryptAndCacheBatch`; `PassToDecrypted`, `PassToApp`,
`DispatchError`, `Dispatch`, `Save`, `Confirm` and `CacheRemove` take the
plaintext to the database and the row out of the table; `OnEmpty` to `EmitEmpty`
are the chain of `onEmpty`. `DecryptTimesOut` leaves a `zombie`, a decryption
that goes on with nobody to take its plaintext.

The commit uses the zone of ZoneTransactions as a lock that is `free`, `held`
or, after a refused commit, `leaked`. The two queries of `getAllFromCache` are
one step. `#appQueue` and the queue of event handlers are the set `working`.
Two answers 'empty' with the same number of deliveries before them are one. Not
modelled: requests that cannot be decoded (500), plaintext delivery receipts
(acknowledged without a row), the senders whose failures remove a row at once,
a timed-out decryption that ends late with an error (which removes the row, at
once or with its error event), `drain()`, and timeouts of tasks other than
decryptions.

`AtLeastOnceInbox` is what the receiver promises: it may take envelopes, the
server forgets only what is held, and only what is held is done.
`ImplementsInbox` is the refinement, with `held` the envelopes that have a row
or are settled.

### JobManager

`run[j]` is the entry of `#activeJobs`: a run is `saving` (its row, as active),
`running` or `settling` (its last request). `asked` is the queue of requests
that the database has not answered: one connection serves them in order, so a
request takes effect when it is made and its caller continues when its answer
is the next. `ScanReturns`, `StartMarked`, `RunJob`, `Close`, `AddReturns` and
`FlushReturns` are what follows the six awaits. `Finish`, `Fail`, `Update` and
`RateLimit` are the outcomes of a run. `timer` is `#tickTimeout`, which serves
the tick and the pause of a rate limit.

The choice and order of the jobs that `getNextJobs` returns (time of receipt,
visible messages) is abstracted to any choice, `shouldHoldOffOnStartingQueuedJobs`
to any answer, and the end of a back-off may come at any time. An abort is a
request that a run may ignore, as `runJob` may. Database errors and the promises
of `waitForJobTo...` are left out. The ghosts `fate` and `tries` record what became
of a job, and `paused` tells a manager that a rate limit has paused from one that
was stopped.

### JobQueue

A job is a number, in the order of the timestamps; `adding[j]` is where its
`add()` stands: `detached` and `persisting` are the two forms of
`insertJob` (called before streaming has started, or after), `waiting` is an
insert that waits for the first fetch, `inserting` the insert of the caller.
`StreamJobs`, `GetJobsInQueue` and `FetchReturns` are `#fetchJobsAtStart`, which
is read and answered in two steps, for it has a connection of its own; `Take`
and `Release` are the loop of `streamJobs` with its sleep while the queue is
paused. `lane[k]` is the p-queue of a key, `Begin`, `RunReturns` and `RunThrows`
the loop over the attempts of its head, `End` what follows the result,
`DeleteReturns` the answer of `deleteJob`. `Quit` and `Crash` end the process;
each write that was in flight may have been served. The gap of two microtasks in
`AsyncQueue`, refused deletions and a second `streamJobs()` (which throws) are
left out, as is a fetch (`getJobsInQueue`) that is refused; `run` is an outcome.

### ConversationJobQueue and ChallengeHandler

`ChallengeHandler` is the state of the handler as a record and its operations as
functions of it, since the queue calls `register`, `unregister` and `maybeSolve`
in the middle of steps of its own; what it does by itself (`TimerFires`,
`Registered`, `OnOnline`, `Solved`, ...) are actions. A time is `none`, `future` or
`past`, and the future may become past at any moment, which stands for every
relation of the clocks.

`ConversationJobQueue` has `data[c]` for `#perConversationData`, `idle` for the
callbacks that wait for `queue.onIdle()`, `timeouts[c]` for the `retryAtTimeout` (one
whose handle is lost is still armed), `waiter` for `#verificationWaitMap` and
`run[c]` for the head of the queue of a conversation, with what it has read
before its first await. `Begin` to `Fail` are `run`; `Challenge` is the answer
428, which puts a job that shows no captcha aside and makes another wait;
`RetryJobOnQueueIdle`, `RetryCallback`, `Unblock` and `QueueStarts` are the ways back.
Several lost handles of one conversation are one `lost`.
A queue of two jobs of the p-queue and the store below it are in `JobQueue`.
Left out: the waits for safety numbers, other kinds of failures, the expiry of
challenges at load, a crash (the handler persists its challenges, and `Loaded`
takes any that the last process left), `setChallengeStatus`, sizes of back-offs, the
early return of `register` for a challenge whose options have no captcha.

### MessageReceipts

`sent` is the send state in memory and `stored` that of the rows, which change
when the write connection serves the next of `writes` (`Serve`); who has asked
waits while `Writing(by)`. `Receive` and `OnReceipt` are the handlers of
receipts, `Kick` to `RemoveNext` one batch of `processReceiptBatcher`, `FirstRun`,
`SecondRun` and `Modify` the two runs of `modifyTargetMessage` around the save of a
transcript, `Begin` to `End` an attempt of `sendNormalMessage` with the marks of
`send()`. `Restart` is the end of a process and `runAllSyncTasks` of the next. The
statuses are numbers, as in `STATUS_NUMBERS`. The ghosts: `lost` are the receipts
that a crash has lost between `forMessage` and the save of the message, `missed`
those that no batch has found a message for, `early` those taken by `forMessage`.
Left out: receipts that settings drop, receipts for stories, reactions and
edits, transcripts of updates, deletion of a message between lookup and
application, eviction from the message cache, expiry of old tasks, the batcher
of `deleteSentProtoRecipient`, the row of the send job. The last attempt marks
every recipient it has not reached as failed; the code does so for those whose
error names a conversation that it finds.

### SocketManager

`auth` is `#authenticated` and `owner` who awaits the attempt: a loop of `reconnect()`
or another caller of `authenticate()`. An attempt that is aborted is counted in
`stale` until its rejection comes. `held` is the sleep whose controller the
manager holds, `loops` the sleeps that have been replaced and go on. `Follow` is
the `catch` of an attempt, which drops, stops, throws or reconnects by the
error; `Closes` the listener of `close`; `Wakes` a loop after its sleep; the
others are the methods by their names. The unauthenticated socket has `unauth`,
`wanted` (a fetch waits for it) and `timer`. Abort and replacement of an attempt
are one step, as they are in the code. Left out: incoming requests and their
handlers, the provisioning socket, keepalive and `check()`, sizes of back-offs,
the microtasks between the two awaits of `authenticate`, and the `await` at line 762
between reading the unauthenticated socket and setting its timer, which are one
step. The ghosts: `loggedOut`, whether nobody has logged in since the last logout or
expiration, for `credentials` are what the code remembers; `reason`, why a manager
with an account does not reconnect.

## 3. Runs

| run | instance | what it shows |
|---|---|---|
| `zones` | 2 batches in zones of their own, a session job and a lone store in `GLOBAL_ZONE`; any write may be refused; fair | every promise of `withZone`; every call settles unless a commit was refused |
| `receiver_crash` | crashes, refused commits, failing keys and handlers | decrypted is kept, and the inbox is implemented, of which durability is a part |
| `receiver_reconnect` | connections that break during batches | acknowledged is durable, order, and `empty` after all before it |
| `receiver_settles` | a crash, two timed-out decryptions, a fair retry timer; fair | every envelope settles |
| `jobs` | 3 jobs, 2 slots, a crash, a stop, restarts | limit, no stuck row, nothing lost, nothing run again |
| `jobs_settle` | 2 jobs, every form of addition, cancel, stop, rate limit, fair | every job ends |
| `job_queue` | 3 jobs of 2 queues, one inserted by its caller, one that does not parse; a pause, a shutdown, a crash, refused inserts; fair | nothing forgotten, one run for one insert, order, rows kept and deleted in the end, quiet after a shutdown |
| `conversation_queue` | two jobs that show no captcha, or one of them and one that shows it; 2 challenges with a time or a token, 2 captchas (solved, refused or never answered) or periods offline; fair | jobs put aside are tried again, are in one place, and end; times are kept |
| `receipts` | a message of ours and one of another device, 2 recipients, a receipt for each message, 2 attempts, a retry or a restart; fair | confirmed is durable, never backwards, every receipt lands |
| `sockets` | 2 accounts, 6 calls, every outcome of an attempt; fair | the status is true, reconnection, silence without an account, the timer, and that it opens in the end |

The type invariants of all components are proved (section 4); those of
`MessageReceiver` and `JobManager` are run as well.

Two further questions have the answer no; each is a run that TLC ends with a
counterexample, and a finding in PROJECT.json that quotes the line which
promises the contrary:

| run | what happens |
|---|---|
| `zones_leak` | a refused commit of the outermost call skips `leaveZone`: the zone is kept with no user inside |
| `receiver_overlap` | a reconnection loads a row that is queued; its second copy fails as a duplicate, overwrites the plaintext and removes it |

The properties that a finding violates are kept out of the passing runs by
their constants or their scope: `receiver_crash` has no second connection,
`receiver_reconnect` has one, decryptions that do not fail and no crash,
`receiver_settles` names what was decrypted too late, `jobs` does not add a job
again, and `RevertLeavesNoTrace` and `EveryCallSettles` name their exceptions.

### Known behaviours

The models show more of this kind, for which no run is kept. Where a property
excludes one it does so by a named set.

* Zones: `revertZoneChanges` keeps `#pendingKyberTriples`, and the next commit
  writes the triple of a transaction that was reverted.
* Receiver: a decryption that timed out and succeeds late spends its key, so the
  retry of its row is taken for a duplicate and removed (`Late`, excluded from
  `AckedIsDurable` and `EverythingSettles`). A connection may start with `#isEmptied` set.
* Job manager: `isLastAttempt` is decided before an addition resets the
  attempts, so a job added again in its last attempt is removed. A `start()`
  that waits, or a `waitForIdle()`, replaces the timer that would end the pause of
  a rate limit, and the manager is disabled until the next connection starts it
  (`PauseForgotten`, excluded from `EveryJobEnds`). A scan that waits
  for the database during `stop()` starts its jobs after it. A cancelled run that
  ends with a retry at once is found by its own scan before its row is removed.
* Job queue: a job whose `add()` was called before `streamJobs()` and whose row is
  written after the fetch has read the table is overlooked until the next start
  (`overlooked`, excluded from `NothingForgotten`). An insert of the caller before
  the fetch has answered is both fetched and streamed (`Own`, excluded from
  `OncePerInsert`). The base class drops a job that needs a retry.
* Conversation queue: `unregister` of a retry does not wake a job that waits for
  the captcha, which looks again within five minutes. A captcha that is never
  answered leaves `#solving` up, and no other is asked for. `register` ignores a
  new challenge of a conversation that has one. The promise of a job resolves
  while it is only put aside. `run` looks for a `retryAt` before it looks at the age of
  a job, also for one that is past: of two jobs one may be put aside for the
  `retryAt` of the other just after that has come, and the other then for its. The
  times are minutes apart and the window is short, but the model, which knows no
  lengths, repeats it (`JustMissed`; `EveryJobEnds` excludes that it recurs for ever).
* Challenge handler: `onOnline` clears `#pendingStarts` and starts only those
  whose own time is past (`dropped`, excluded from `RetriedInTime`): a queue that
  another timer wanted to start waits for the next event.
* Receipts: `forMessage` removes a task before the message is saved (`lost`). A
  receipt for a message of ours that is looked up before the send has marked it
  waits for the next start (`missed`).
* Sockets: a rate limit is thrown to a caller of `authenticate()`, and nobody
  reconnects until the next request or event (`reason`, excluded from
  `NeverSilent`). A loop whose controller was replaced survives a logout and ends
  in its assertion. After the five minutes the socket drops itself at once, so
  the code that would reconnect it is not reached.

### Bounds

The counters of crashes, reconnections, retries, starts, stops, additions and
rate limits are bounded by the constants `Max...`, which guard the actions that
count. Three zones, one of them with two callers, are what it takes for a
queue with waiters of two kinds and a release of a prefix. Two or three envelopes give a
batch with a success and a failure and one more behind it; one crash or
reconnection falls between any two steps of the batch. Three jobs for two slots
make a scan that must leave one out, and two attempts make a first and a last
one. Two jobs of one conversation and one of another show order and
independence; one crash, pause or shutdown falls between any two steps of an
`add()`, a fetch and a run. One conversation is enough for the challenges, whose
only state in common is the captcha (one at a time) and the network. The instance
has two conversations, and `MaxBusy` lets one of them get jobs. Two jobs that are put
aside make jobs that find the `retryAt` of another, timeouts whose handle is lost and
a `retryAt` that moves while jobs are held; a job of either kind makes the two ways to
wait meet. `MaxEvents` counts captchas and periods offline: two captchas that overlap,
one of them answered with the token of the other, or one and a period offline, besides
the one in which the handler starts. Two recipients, one of whom sends receipts,
make a send that succeeds in part. Six calls to the socket manager make two
logins, a logout and three interruptions. Each mutant of PROJECT.json, an operator marked `Mutant of` beside the
definition it changes, shows that its property can fail within these bounds.

### Fairness

JavaScript promises and timers that are due are run: that is weak fairness of
every step the process takes by itself and of the answers of the database. The
network comes back and the server delivers (`Connect`, `Deliver`), handlers end
and confirm, runs of jobs end. Nobody has to add, cancel, stop, disconnect or
crash. For a manager that was stopped, `StartDisabled` is fair, for `start()`
is called on every connection (`ts/background.preload.ts:1982`); for one that a
rate limit has paused it is not, only the timer of the pause is. Job queues: the
application calls `streamJobs()` at every start, who pauses resumes, and an
application that was shut down is started again.
Receipts: the transcript of a message comes in the end, for the server
redelivers it. Challenges: the network comes back (`OnOnline`, while offline), times
come, requests to the server are answered; nobody has to solve a captcha.

Strong fairness is assumed twice. A job that looks at its time again and again
finds it over (`GiveUp`: `commonShouldJobContinue` compares with the timestamp of
the job). A network that lets attempts begin again and again lets one open
(`ConnectionOpens`). Both steps are disabled in between, so weak fairness would not do.

## 4. Proofs

Each proof module proves its theorems for every value of the constants that
the named assumptions of its component allow. The argument is always the same:
none of the properties is inductive alone, so a strengthening holds initially
and is kept by each action, one step of the proof for each, and the properties
follow from it. TLC checked every strengthening before it was proved.
`SequenceFacts` has the lemmas on sequences that several of them cite: what
`Append`, `Tail`, concatenation and a split do to the elements, to the number of
times one occurs, to who is behind whom and to any relation between the earlier
and the later elements, and that a finite set of numbers can be sorted.

### Zones

`ZoneTransactionsProofs`, for any number of calls, zones and keys:

* `TypeCorrect`, the type invariant;
* `MutualExclusion`, no two users are inside different zones;
* `QueueKeepsWaiters`, the queue holds exactly the calls that wait, each once;
* `NoLostWakeup`, no call waits while no zone is current;
* `QueueIsFair`, nobody enters past a call that has waited longer;
* `ReadsAreClean`, nobody reads what another transaction has not committed;
* `RevertIsComplete`, a rejected call has left no trace, but the kyber triples that
  the code keeps;
* `ResolvedIsWritten`, what a resolved call has stored is in the database;
* `TripleIsFinal`, a committed kyber triple is not accepted again.

The lock: `IInv` joins the types with `OneZoneAtATime` and `QueueIsWaiters`,
with `ZoneIsHeld` (a zone is current exactly while the depth is not zero, and the
first waiter waits for another zone) and with `WritersWait` (every write in flight
belongs to a call of its own that awaits it, so an answer finds its caller
inside). That the depth is a cardinality is what makes the decrement of `Leave`
safe, so the lemmas state how `Cardinality` changes when a call enters or leaves
and when a prefix of the queue is released.

The data: `DataInv` follows a stored value. `PendingIsOpen` says that what is
pending belongs to a batch that has not decided, `WritesAreCommits` that what is in
flight is written by the batch that stored it, `DbIsResolved` that what is in the
database is of a batch that has resolved, and `StoredIsPending` the converse: what
an open batch has stored is pending, and in its write once it commits. They need
to know that the users of the depth share the zone (`UsersShareZone`), that a
nested call runs within the body of its parent (`Nested`), which calls write
through (`WritesThrough`), and that the caches agree with the database between
two steps (`cache = db`). They use `NestingAssumption` and `BatchAssumption`.

### Receiver

`MessageReceiverProofs`, for any envelopes and any number of deliveries, crashes,
reconnections and retries:

* `TypeCorrect`, the type invariant;
* `NoneOvertakes`, messages reach the application in the order of their arrival;
* `EmptyIsLast`, `empty` comes after all that was delivered before it;
* `AckedStaysDurable`, if `NoOverlap`: what was acknowledged has a row or is settled;
* `DecryptedStaysKept`, if `NoOverlap` and no timeouts: a spent key means a kept
  plaintext;
* `ReceiverIsInbox`, under the same two: every step of the receiver is one of
  `AtLeastOnceInbox` or leaves it alone;
* `DurableOverOneConnection`, the last three without `NoOverlap`, for a receiver that
  neither reconnects nor retries.

`TypeInv` adds to the types which entries each queue may hold (`Fit`) and that the
zone is held exactly while a batch decrypts, before whose end `onIdle` of the
encrypted queue does not come (`Phases`, which `TypeOK` includes and `receiver_crash`
checks). `OrderInv` lists the seven stages from
the socket to the application: an envelope in a later stage has a smaller id
than every one in an earlier (`Stages`), and an `empty` is kept behind what it was
behind (`Cleared`) while it waits for the batchers, which is where the four
queues could let it pass. `ArrivalOrder` follows for the queue that the stages
make together.

Durability follows a row. `SeparateInv` says that no row is twice on its way to a
decryption. Of `KeptInv`, `SpentIsKept` says where the plaintext of a spent key is:
with the batch, in a row, saved, given up, or lost with a timeout; `BatchKept` and
`BatchStored` that a batch which commits has what it writes and one that
acknowledges has written it; `Removable` that a row is removed only for an
envelope that is settled or has failed for good; `Handled` that what the
application works on has a row with its plaintext; `Acked` is the property.

`SeparateInv` is false in general: a reconnection or a retry may load a row whose
first decryption is still queued, the disagreement that `receiver_overlap` shows.
The hypothesis `NoOverlap` excludes that step and nothing else: `queueAllCached` loads
no row as encrypted whose decryption is in `items`. It is a property of the
execution, which any number of reconnections and crashes may have, and `OneLoad`
proves it where there are no reconnections and retries. A decryption that times
out and succeeds late spends its key with nobody to take the plaintext, hence
the assumption `MaxTimeouts = 0` of the two theorems about keys; durability of what
was acknowledged does not need it, for `AckedIsDurable` names those envelopes.

### Job manager

`JobManagerProofs`, for any jobs, slots, attempts and bounds:

* `TypeCorrect`, the type invariant;
* `ActiveRowsRun`, a row that scans pass over has a run;
* `SlotsRespected`, if `~Forces`: no more run than the limit;
* `WantedIsInTable`, if `~ReAdds` and `~Batches`: what was added is in the table;
* `AttemptsAreMade`, if `~ReAdds`: a job is given up only after all its attempts;
* `FinishedIsFinal`, if `~ReAdds`: a job that has finished is not run again.

`IInv` ties the queue of requests to the runs: at most one scan is asked
(`OneScan`), a run that is saving or settling has one request in the queue, and
only one (`RunsWait`, `WaitOnce`), and only an add is forced (`AddsFlagged`). With
it, an answer always finds the run it belongs to. `ActiveRuns` is either that or
the state after a crash, in which nothing runs until `start()` marks the rows.
`SlotsInv` counts the jobs that run together with those that a scan in the queue
will start; that is what keeps two scans from filling the same slot. `JobInv`
is about one job: its row, its run and every request have made no more attempts
than `tries`, a job that is batched is nowhere else, and of a job that has
finished every request that could begin it again is answered before one that
settles it (`Behind`), when its row is gone.

The hypotheses exclude behaviour of the code that breaks the properties
(`Known behaviours`): `forceStart` starts a job whatever runs, a batched addition is in
memory only until its flush, and a job that is added again while its run is
being removed is lost with it. TLC violates `NotTooMany`, `WantedIsKept` and
`GivenUpAfterAllAttempts` with `Forces`, `Batches` and `ReAdds` set. It finds no
violation of `FinishedStaysFinished` with `ReAdds`; that theorem takes the hypothesis
over from `JobInv`, which is false with it. The run `jobs` has the same
constants, and `jobs_settle` has all of these additions.

### Job queues

`JobQueueProofs`, for any jobs, keys, attempts and bounds:

* `TypeCorrect`, the type invariant;
* `NoRowForgotten`, a row is in memory or about to be, but for the overlooked;
* `OneCopy`, one insert is at one place;
* `InOrder`, jobs of a queue start in the order of their addition;
* `Quiet`, no run begins after a shutdown;
* `RowsLeaveForResults`, a row leaves only once its job has its result.

`IInv` says where a job may be. Before the fetch is answered nothing is in memory
but what it has read (`NothingBeforeTheFetch`); what has been read while inserts
went on is the table but for the overlooked and those who wait for the answer
(`FetchSeesTheTable`); a job whose row was never written is nowhere
(`UnwrittenIsNowhere`), which is what makes the insert of a row create the first
copy; every other is at one place (`OnePlace`). For the order, `OrderKept` says
of a job and one that was added before it that wherever the later one is the
earlier is ahead of it, or a shutdown has let it go; after a shutdown the
later job does not begin, which `ShutdownWaits` guarantees.

### Conversation queue

`ConversationJobQueueProofs`, for any jobs, conversations and challenges:

* `TypeCorrect`, the type invariant;
* `TriggersRemain`, a job that was put aside has a callback or a timeout;
* `JobsAreOnce`, a job that has not ended is in one place, and a job that has is
  in none.

`IInv`: jobs are held only in the status `blocked with jobs` (`HeldAreBlocked`), and
that status comes with a callback or an armed timeout (`BlockedHaveATrigger`);
`JobsKept` counts the copies of each job over its queue, the jobs held and the
jobs a callback returns; `Bounded` bounds the captchas asked for at once, across every
operation of the challenge handler.

### Receipts

`MessageReceiptsProofs`, for any messages, recipients, receipts, attempts and
restarts:

* `TypeCorrect`, the type invariant;
* `NoRowFallsBack`, the row of a message that was sent to somebody never falls back;
* `ConfirmedStays`, a confirmed receipt is a task, or in the row of its message, or was
  taken by a transcript.

Both properties follow the writes that the database has not served. `OrderInv`: along
the line from the row over these writes to the memory no state of a message is
behind an earlier one (`Rises`), for whoever saves, saves what is in memory at that
moment, and the memory only rises (`Asks`). That a send marks the state it reads
after its save, and not the one from before, is what this rests on. `DurableInv`:
a task is removed only when its receipt is in the row or was taken
(`RemovalsSpare`), which a batch ensures by waiting for its save (`BatchSaves`), and a
receipt is confirmed only when its task is written (`ReceivedSafe`). It needs
`OrderInv`, since the row that shows a receipt must not be overwritten with less.

### Sockets

`SocketManagerProofs`, for any accounts and any number of calls, aborted
attempts and sleeping loops:

* `TrueStatus`, the status is that of the authenticated socket;
* `NoSilence`, a manager with an account is connected, connecting or about to;
* `QuietAfterLogout`, after a logout or an expiration nothing connects;
* `CurrentTimer`, the timer is that of the unauthenticated socket there is.

Its strengthening `IInv` joins the four and the types with
`LoggedOutHasNoAccount`: whoever is logged out has left no credentials, and after
an expiration everybody is logged out. So a loop that still sleeps cannot connect,
which `QuietWithoutAccount` alone does not say: it is about the socket there is.

### Only model-checked

Every liveness property, for fairness and ENABLED are out of the prover's reach:
`EveryCallSettles`, `EverythingSettles`, `EveryJobEnds`, `RetriedInTime`, `EveryReceiptLands`,
`OpensInTheEnd` and the others of the fair runs. The durability of the receiver is
proved for executions with `NoOverlap` and is false for some of the others.

## 5. Hazards

PROJECT.json lists, at the line where each bites, what a test would hardly
reach, with the properties that would catch it. The ones without a property say
why: most are in operations that are not modelled yet, and are the work list of
the plan.

## 6. Plan

In this order; each module with its MC module, runs and mutants before the next.

1. Done: `ZoneTransactions`, `MessageReceiver` over `AtLeastOnceInbox`, `JobManager`,
   `JobQueue`, `ConversationJobQueue` over `ChallengeHandler`, `MessageReceipts` and
   `SocketManager`, each with its runs.
2. Done: the proofs of the types and the safety of each, and of the refinement of
   the inbox. Left is to weaken `NoOverlap` to the rows whose second decryption
   fails, which are the ones that are lost.
3. `SessionQueues`: the identity and session queues around `withZone`
   (`ts/SignalProtocolStore.preload.ts:1079`) and the removal of sessions, to
   replace `NestingAssumption` by a check.
4. Reactions, edits and deletions that come before their target, beside
   `MessageReceipts`; the transitions of call histories as operators.
5. `SocketManager` composed with `MessageReceiver`, whose connections it makes.

## 7. What is not modelled and why

The cryptography of libsignal, RingRTC and zkgroup are external: a decryption
has an outcome. The SQL server runs statements one at a time: the statements
that matter are atomic steps of the modules that make them. What each modelled
component leaves out is said in section 2. The storage
service, backups, groups and profiles are mostly the merging of data with a
server. The Redux state, the components, the main process, the updater, the
sticker creator, scripts and locales are sequential or pure input and output.
They are most of the lines of the repository: the model covers the few thousand
in which several activities meet.
