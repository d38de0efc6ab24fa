-------------------------- MODULE MessageReceiver --------------------------
(***************************************************************************)
(* MessageReceiver: from the envelope on the web socket to the message in  *)
(* the database.  An envelope is decrypted and cached in the `unprocessed` *)
(* table in a batch, inside one zone (see ZoneTransactions), acknowledged, *)
(* handed to the application and removed from the table once the           *)
(* application confirms it.                                                *)
(*                                                                         *)
(* The nth delivery gets the id n, which is also its receivedAtCounter:    *)
(* received[n] is the envelope it carries.  The server delivers its        *)
(* envelopes in order, again on every connection until they are            *)
(* acknowledged, and then says that its queue is empty.                    *)
(***************************************************************************)
EXTENDS Naturals, SequencesExt, FiniteSets

CONSTANTS
    Total,          \* the server holds the envelopes 1..Total
    Junk,           \* envelopes dropped once decrypted: blocked senders, ...
    DecryptsFail,   \* may a decryption fail, for want of a key?
    HandlersFail,   \* may the application throw before it confirms?
    WritesFail,     \* may the database refuse the batch?
    MayPause,       \* may pauseProcessing stop the receiver?
    MaxAttempts,    \* MAX_UNPROCESSED_ATTEMPTS
    MaxTimeouts,    \* bounds of the model: runTaskWithTimeout gives up,
    MaxCrashes, MaxReconnects, MaxRetries

ASSUME ReceiverAssumption ==
    /\ Total \in Nat /\ Junk \subseteq 1..Total
    /\ {DecryptsFail, HandlersFail, WritesFail, MayPause} \subseteq BOOLEAN
    /\ MaxAttempts \in Nat \ {0}
    /\ {MaxTimeouts, MaxCrashes, MaxReconnects, MaxRetries} \subseteq Nat

Envelopes == 1..Total

VARIABLES
    \* the server and the connection
    server,     \* envelopes not acknowledged
    conn,       \* "new": not yet connected by this process, "up" or "down"
    base,       \* deliveries made before this connection
    told,       \* has the server said on this connection that it is empty?
    received,   \* the envelope of every delivery
    \* the queues of one process
    incoming,   \* #incomingQueue
    draining,   \* calls of onEmpty that wait for the batcher to be idle
    items,      \* #decryptAndCacheBatcher
    batch,      \* the running decryptAndCacheBatch
    zombies,    \* decryptions that went on after their task timed out
    zone,       \* the zone of SignalProtocolStore: free, held or leaked
    encrypted,  \* #encryptedQueue
    decrypted,  \* #decryptedQueue
    app,        \* #appQueue
    working,    \* what the application handles now
    removals,   \* #cacheRemoveBatcher
    emptied,    \* #isEmptied
    retry,      \* is #retryCachedTimeout set?
    stopping,   \* #stoppingProcessing
    \* the database
    rows,       \* unprocessed: none, encrypted or decrypted, for every id
    attempts,   \* the attempts column
    used,       \* envelopes whose message key is spent
    saved,      \* envelopes that became a message
    settled,    \* envelopes given up for a reason the code states
    spent       \* what the bounds have allowed so far

net == <<server, conn, base, told, received>>
flags == <<emptied, retry, stopping>>
disk == <<rows, attempts, used, saved, settled>>
queues == <<incoming, draining, items, batch, zombies, zone,
            encrypted, decrypted, app, working, removals>>
vars == <<net, queues, flags, disk, spent>>

\* An entry of a queue; `live` when it answers a request of the server.
Entry(kind, id, tries, live) ==
    [kind |-> kind, id |-> id, tries |-> tries, live |-> live]
Plain(kind, id) == Entry(kind, id, 0, FALSE)

NoBatch == [phase |-> "idle", items |-> <<>>, plain |-> <<>>, failed |-> <<>>,
            used |-> {}, dropped |-> {}]

Ids == 1..Len(received)
EnvelopesOf(ids) == {received[n] : n \in ids}
IdsIn(q) == {q[i].id : i \in DOMAIN q}
Relabel(q, kind) == [i \in DOMAIN q |-> [q[i] EXCEPT !.kind = kind]]

-----------------------------------------------------------------------------
InitProcess ==
    /\ conn = "new" /\ told = FALSE
    /\ incoming = <<>> /\ draining = {} /\ items = <<>> /\ batch = NoBatch
    /\ zombies = {} /\ zone = "free"
    /\ encrypted = <<>> /\ decrypted = <<>> /\ app = <<>>
    /\ working = {} /\ removals = {}
    /\ emptied = FALSE /\ retry = FALSE /\ stopping = FALSE

Init ==
    /\ InitProcess
    /\ server = Envelopes /\ base = 0 /\ received = <<>>
    /\ rows = <<>> /\ attempts = <<>>
    /\ used = {} /\ saved = {} /\ settled = {}
    /\ spent = [crashes |-> 0, reconnects |-> 0, retries |-> 0]

-----------------------------------------------------------------------------
\* The connection.

\* afterAuthSocketConnect: startProcessingQueue, registerRequestHandler.
Connect ==
    /\ conn # "up"
    /\ IF conn = "new" THEN UNCHANGED spent
       ELSE /\ spent.reconnects < MaxReconnects
            /\ spent' = [spent EXCEPT !.reconnects = @ + 1]
    /\ conn' = "up" /\ told' = FALSE /\ base' = Len(received)
    /\ stopping' = FALSE
    /\ incoming' = Append(incoming, Plain("cached", 0))
    /\ UNCHANGED <<server, received, draining, items, batch, zombies, zone,
                   encrypted, decrypted, app, working, removals,
                   emptied, retry, disk>>

\* handleDisconnect.
Disconnect ==
    /\ conn = "up" /\ spent.reconnects < MaxReconnects
    /\ conn' = "down" /\ emptied' = FALSE
    /\ UNCHANGED <<server, base, told, received, queues, retry, stopping,
                   disk, spent>>

\* unregisterRequestHandler: when offline, and with stopProcessing in
\* pauseProcessing.
Unregister ==
    /\ conn = "up"
    /\ conn' = "down"
    /\ \E pause \in {FALSE, MayPause} :
         /\ pause \/ spent.reconnects < MaxReconnects
         /\ stopping' = (stopping \/ pause)
    /\ UNCHANGED <<server, base, told, received, queues, emptied, retry,
                   disk, spent>>

Unsent == server \ EnvelopesOf({n \in Ids : n > base})

\* handleRequest, ApiMessage: the job that will decode the request.
Deliver ==
    /\ conn = "up" /\ Unsent # {}
    /\ LET e == CHOOSE x \in Unsent : \A y \in Unsent : x <= y IN
         received' = Append(received, e)
    /\ rows' = Append(rows, "none")
    /\ attempts' = Append(attempts, 0)
    /\ incoming' = Append(incoming, Entry("message", Len(received'), 0, TRUE))
    /\ UNCHANGED <<server, conn, base, told, draining, items, batch, zombies,
                   zone, encrypted, decrypted, app, working, removals, flags,
                   used, saved, settled, spent>>

\* handleRequest, ApiEmptyQueue.
DeliverEmpty ==
    /\ conn = "up" /\ Unsent = {} /\ ~told
    /\ told' = TRUE
    /\ incoming' = Append(incoming, Plain("empty", Len(received)))
    /\ UNCHANGED <<server, conn, base, received, draining, items, batch,
                   zombies, zone, encrypted, decrypted, app, working, removals,
                   flags, disk, spent>>

-----------------------------------------------------------------------------
\* The incoming queue.

\* decryptAndCache.
Receive ==
    /\ incoming # <<>> /\ Head(incoming).kind = "message"
    /\ incoming' = Tail(incoming)
    /\ items' = Append(items, [Head(incoming) EXCEPT !.kind = "decrypt"])
    /\ UNCHANGED <<net, draining, batch, zombies, zone, encrypted, decrypted,
                   app, working, removals, flags, disk, spent>>

\* ORDER BY receivedAtCounter.
ByReceivedAt(ids) ==
    CHOOSE s \in [1..Cardinality(ids) -> ids] :
        \A i, j \in DOMAIN s : i < j => s[i] < s[j]

\* queueAllCached: getAllFromCache gives up the rows that were tried too often
\* and counts an attempt of the others; queueCached sends the plaintexts
\* through the encrypted queue and the ciphertexts back to the batcher.
QueueAllCached ==
    /\ incoming # <<>> /\ Head(incoming).kind = "cached"
    /\ stopping \/ zone = "free"
    /\ incoming' = Tail(incoming)
    /\ IF stopping THEN UNCHANGED <<items, encrypted, rows, attempts, settled>>
       ELSE LET cached == {n \in Ids : rows[n] # "none"}
                worn == {n \in cached : attempts[n] >= MaxAttempts}
                Fetched(row) ==
                    ByReceivedAt({n \in cached \ worn : rows[n] = row})
                Requeued(kind, ids) == [i \in DOMAIN ids |->
                    Entry(kind, ids[i], attempts[ids[i]] + 1, FALSE)] IN
            /\ rows' = [n \in Ids |-> IF n \in worn THEN "none" ELSE rows[n]]
            /\ attempts' = [n \in Ids |-> attempts[n]
                                        + (IF n \in cached \ worn THEN 1 ELSE 0)]
            /\ settled' = settled \cup EnvelopesOf(worn)
            /\ items' = items \o Requeued("decrypt", Fetched("encrypted"))
            /\ encrypted' = encrypted \o Requeued("handoff", Fetched("decrypted"))
    /\ UNCHANGED <<net, draining, batch, zombies, zone, decrypted, app, working,
                   removals, flags, used, saved, spent>>

-----------------------------------------------------------------------------
\* decryptAndCacheBatch.

\* The batcher starts a batch with the items it had when it was kicked off;
\* withZone waits for its zone.
StartBatch ==
    /\ batch.phase = "idle" /\ items # <<>> /\ zone = "free"
    /\ \E k \in 1..Len(items) :
         /\ batch' = [NoBatch EXCEPT !.phase = "decrypting",
                                     !.items = SubSeq(items, 1, k)]
         /\ items' = SubSeq(items, k + 1, Len(items))
         /\ encrypted' = encrypted \o SubSeq(items, 1, k)
    /\ zone' = "held"
    /\ UNCHANGED <<net, incoming, draining, zombies, decrypted, app, working,
                   removals, flags, disk, spent>>

Spent(e) == e \in used \cup batch.used

\* The decryption at the head of the encrypted queue.
Decrypting(it) == encrypted # <<>> /\ it = Head(encrypted) /\ it.kind = "decrypt"

\* Mutant of DecryptSucceeds: the plaintexts of a batch are stacked.
DecryptSucceedsOnTop(it) ==
    LET e == received[it.id] IN
    /\ Decrypting(it) /\ ~stopping /\ ~Spent(e) /\ e \notin Junk
    /\ encrypted' = Tail(encrypted)
    /\ batch' = [batch EXCEPT !.plain = <<it>> \o @, !.used = @ \cup {e}]
    /\ UNCHANGED <<net, incoming, draining, items, zombies, zone, decrypted,
                   app, working, removals, flags, disk, spent>>

DecryptSucceeds(it) ==
    LET e == received[it.id] IN
    /\ Decrypting(it) /\ ~stopping /\ ~Spent(e) /\ e \notin Junk
    /\ encrypted' = Tail(encrypted)
    /\ batch' = [batch EXCEPT !.plain = Append(@, it), !.used = @ \cup {e}]
    /\ UNCHANGED <<net, incoming, draining, items, zombies, zone, decrypted,
                   app, working, removals, flags, disk, spent>>

\* decryptEnvelope removes it from the cache and returns no plaintext.
DecryptDrops(it) ==
    LET e == received[it.id] IN
    /\ Decrypting(it) /\ ~stopping /\ ~Spent(e) /\ e \in Junk
    /\ encrypted' = Tail(encrypted)
    /\ batch' = [batch EXCEPT !.used = @ \cup {e}, !.dropped = @ \cup {e}]
    /\ removals' = removals \cup {it.id}
    /\ UNCHANGED <<net, incoming, draining, items, zombies, zone, decrypted,
                   app, working, flags, disk, spent>>

\* DuplicatedMessage: the key was spent before.
DecryptRepeats(it) ==
    /\ Decrypting(it) /\ ~stopping /\ Spent(received[it.id])
    /\ encrypted' = Tail(encrypted)
    /\ batch' = [batch EXCEPT !.failed = Append(@, it)]
    /\ removals' = removals \cup {it.id}
    /\ UNCHANGED <<net, incoming, draining, items, zombies, zone, decrypted,
                   app, working, flags, disk, spent>>

\* Any other error: the application is told, on the decrypted queue, and will
\* remove the envelope from the cache.
DecryptErrs(it) ==
    /\ Decrypting(it) /\ ~stopping /\ DecryptsFail /\ ~Spent(received[it.id])
    /\ encrypted' = Tail(encrypted)
    /\ batch' = [batch EXCEPT !.failed = Append(@, it)]
    /\ decrypted' = Append(decrypted, Plain("error", it.id))
    /\ UNCHANGED <<net, incoming, draining, items, zombies, zone, app, working,
                   removals, flags, disk, spent>>

\* unsealEnvelope throws while processing is stopped.
DecryptStopped(it) ==
    /\ Decrypting(it) /\ stopping
    /\ encrypted' = Tail(encrypted)
    /\ batch' = [batch EXCEPT !.failed = Append(@, it)]
    /\ UNCHANGED <<net, incoming, draining, items, zombies, zone, decrypted,
                   app, working, removals, flags, disk, spent>>

\* runTaskWithTimeout rejects, and nothing stops the decryption itself.
DecryptTimesOut(it) ==
    /\ Decrypting(it) /\ ~stopping /\ Cardinality(zombies) < MaxTimeouts
    /\ encrypted' = Tail(encrypted)
    /\ batch' = [batch EXCEPT !.failed = Append(@, it)]
    /\ zombies' = zombies \cup {it}
    /\ UNCHANGED <<net, incoming, draining, items, zone, decrypted, app,
                   working, removals, flags, disk, spent>>

\* It succeeds late: the session is stored, the plaintext has no reader.
ZombieSucceeds(it) ==
    LET e == received[it.id] IN
    /\ it \in zombies /\ ~Spent(e)
    /\ IF batch.phase = "decrypting" /\ it \in ToSet(batch.items)
       THEN batch' = [batch EXCEPT !.used = @ \cup {e}] /\ UNCHANGED used
       ELSE zone = "free" /\ used' = used \cup {e} /\ UNCHANGED batch
    /\ UNCHANGED <<net, incoming, draining, items, zombies, zone, encrypted,
                   decrypted, app, working, removals, flags, rows, attempts,
                   saved, settled, spent>>

\* What the batch stores: pendingUnprocessed is keyed by id, and the failed
\* envelopes are added after the decrypted ones.
Stored == IdsIn(batch.plain) \cup IdsIn(batch.failed)
StoredRow(n) == IF n \in IdsIn(batch.failed) THEN "encrypted" ELSE "decrypted"
StoredTries(n) ==
    LET all == batch.plain \o batch.failed
        places == {i \in DOMAIN all : all[i].id = n}
    IN  all[CHOOSE i \in places : \A j \in places : j <= i].tries

\* Mutant of AllDecrypted: the callback of withZone does not wait for what it has
\* queued.
AllDecryptedUnawaited == batch.phase = "decrypting"

\* The callback of withZone has waited for the decryptions.
AllDecrypted ==
    /\ batch.phase = "decrypting"
    /\ \A i \in DOMAIN encrypted : encrypted[i].kind # "decrypt"

\* The zone is left: sessions and envelopes are committed together.
CommitBatch ==
    /\ AllDecrypted
    /\ rows' = [n \in Ids |-> IF n \in Stored THEN StoredRow(n) ELSE rows[n]]
    /\ attempts' = [n \in Ids |-> IF n \in Stored THEN StoredTries(n)
                                                  ELSE attempts[n]]
    /\ used' = used \cup batch.used
    /\ settled' = settled \cup batch.dropped
    /\ zone' = "free"
    /\ batch' = [batch EXCEPT !.phase = "stored"]
    /\ UNCHANGED <<net, incoming, draining, items, zombies, encrypted,
                   decrypted, app, working, removals, flags, saved, spent>>

\* Mutant of CommitFails: a refused batch is acknowledged all the same.
CommitFailsAndAcks ==
    /\ AllDecrypted /\ WritesFail
    /\ zone' = "leaked"
    /\ batch' = NoBatch
    /\ server' = server \ EnvelopesOf(IdsIn(batch.items))
    /\ UNCHANGED <<conn, base, told, received, incoming, draining, items,
                   zombies, encrypted, decrypted, app, working, removals,
                   flags, disk, spent>>

\* The commit is refused: 500 to all, and the zone is not left.
CommitFails ==
    /\ AllDecrypted /\ WritesFail
    /\ zone' = "leaked"
    /\ batch' = NoBatch
    /\ UNCHANGED <<net, incoming, draining, items, zombies, encrypted,
                   decrypted, app, working, removals, flags, disk, spent>>

\* 200 for every request, lost if its connection is; then
\* queueAllDecryptedEnvelopes, which ends with maybeScheduleRetryTimeout.
AckBatch ==
    /\ batch.phase = "stored"
    /\ server' = IF conn # "up" THEN server
                 ELSE server \ EnvelopesOf({it.id : it \in
                          {x \in ToSet(batch.items) : x.live /\ x.id > base}})
    /\ decrypted' = decrypted \o Relabel(batch.plain, "handle")
                              \o <<Plain("scheduleRetry", 0)>>
    /\ batch' = NoBatch
    /\ UNCHANGED <<conn, base, told, received, incoming, draining, items,
                   zombies, zone, encrypted, app, working, removals, flags,
                   disk, spent>>

-----------------------------------------------------------------------------
\* The other tasks of the encrypted queue, and the decrypted queue.

\* queueCached hands a stored plaintext over; onEmpty passes through.
PassToDecrypted ==
    /\ encrypted # <<>> /\ Head(encrypted).kind \in {"handoff", "empty"}
    /\ encrypted' = Tail(encrypted)
    /\ decrypted' = Append(decrypted, [Head(encrypted) EXCEPT !.kind =
                        IF @ = "handoff" THEN "handle" ELSE @])
    /\ UNCHANGED <<net, incoming, draining, items, batch, zombies, zone, app,
                   working, removals, flags, disk, spent>>

\* handleDecryptedEnvelope queues the event for the application, or nothing
\* once processing is stopped; onEmpty passes through.
PassToApp ==
    /\ decrypted # <<>> /\ Head(decrypted).kind \in {"handle", "empty"}
    /\ decrypted' = Tail(decrypted)
    /\ app' = IF Head(decrypted).kind = "handle" /\ stopping THEN app
              ELSE Append(app, Head(decrypted))
    /\ UNCHANGED <<net, incoming, draining, items, batch, zombies, zone,
                   encrypted, working, removals, flags, disk, spent>>

\* DecryptionErrorEvent goes to the application at once.
DispatchError ==
    /\ decrypted # <<>> /\ Head(decrypted).kind = "error"
    /\ decrypted' = Tail(decrypted)
    /\ working' = working \cup {[kind |-> "error", id |-> Head(decrypted).id]}
    /\ UNCHANGED <<net, incoming, draining, items, batch, zombies, zone,
                   encrypted, app, removals, flags, disk, spent>>

\* Mutant of ScheduleRetry: the timer is armed by the empty event only.
ScheduleNoRetry ==
    /\ decrypted # <<>> /\ Head(decrypted).kind = "scheduleRetry"
    /\ decrypted' = Tail(decrypted)
    /\ UNCHANGED <<net, incoming, draining, items, batch, zombies, zone,
                   encrypted, app, working, removals, flags, disk, spent>>

\* maybeScheduleRetryTimeout.
ScheduleRetry ==
    /\ decrypted # <<>> /\ Head(decrypted).kind = "scheduleRetry"
    /\ decrypted' = Tail(decrypted)
    /\ retry' = (retry \/ emptied)
    /\ UNCHANGED <<net, incoming, draining, items, batch, zombies, zone,
                   encrypted, app, working, removals, emptied, stopping, disk,
                   spent>>

\* #retryCachedTimeout: queueAllCached on the incoming queue.
RetryFires ==
    /\ retry /\ spent.retries < MaxRetries
    /\ spent' = [spent EXCEPT !.retries = @ + 1]
    /\ retry' = FALSE
    /\ incoming' = Append(incoming, Plain("cached", 0))
    /\ UNCHANGED <<net, draining, items, batch, zombies, zone, encrypted,
                   decrypted, app, working, removals, emptied, stopping, disk>>

-----------------------------------------------------------------------------
\* The application.

\* Mutant of Dispatch: the event is confirmed as it is dispatched.
DispatchAndConfirm ==
    /\ app # <<>> /\ Head(app).kind = "handle"
    /\ app' = Tail(app)
    /\ working' = working \cup {[kind |-> "handle", id |-> Head(app).id]}
    /\ removals' = removals \cup {Head(app).id}
    /\ UNCHANGED <<net, incoming, draining, items, batch, zombies, zone,
                   encrypted, decrypted, flags, disk, spent>>

\* dispatchEvent: the application starts on the message.
Dispatch ==
    /\ app # <<>> /\ Head(app).kind = "handle"
    /\ app' = Tail(app)
    /\ working' = working \cup {[kind |-> "handle", id |-> Head(app).id]}
    /\ UNCHANGED <<net, incoming, draining, items, batch, zombies, zone,
                   encrypted, decrypted, removals, flags, disk, spent>>

\* saveAndNotify: the message is in the database before it is confirmed.
Save(w) ==
    /\ w \in working /\ w.kind = "handle"
    /\ saved' = saved \cup {received[w.id]}
    /\ working' = (working \ {w}) \cup {[w EXCEPT !.kind = "saved"]}
    /\ UNCHANGED <<net, incoming, draining, items, batch, zombies, zone,
                   encrypted, decrypted, app, removals, flags, rows, attempts,
                   used, settled, spent>>

\* confirm: removeFromCache.  An error is settled with its event.
Confirm(w) ==
    /\ w \in working /\ w.kind \in {"saved", "error"}
    /\ working' = working \ {w}
    /\ removals' = removals \cup {w.id}
    /\ settled' = IF w.kind = "error" THEN settled \cup {received[w.id]}
                                      ELSE settled
    /\ UNCHANGED <<net, incoming, draining, items, batch, zombies, zone,
                   encrypted, decrypted, app, flags, rows, attempts, used,
                   saved, spent>>

\* The handler throws and nobody confirms.
HandlerFails(w) ==
    /\ w \in working /\ w.kind \in {"handle", "error"} /\ HandlersFail
    /\ working' = working \ {w}
    /\ UNCHANGED <<net, incoming, draining, items, batch, zombies, zone,
                   encrypted, decrypted, app, removals, flags, disk, spent>>

\* Mutant of CacheRemove: every row of the envelope goes, whatever its id.
CacheRemoveByEnvelope(n) ==
    /\ n \in removals /\ zone = "free"
    /\ removals' = removals \ {n}
    /\ rows' = [m \in Ids |-> IF received[m] = received[n] THEN "none"
                                                           ELSE rows[m]]
    /\ UNCHANGED <<net, incoming, draining, items, batch, zombies, zone,
                   encrypted, decrypted, app, working, flags, attempts, used,
                   saved, settled, spent>>

\* cacheRemoveBatch.
CacheRemove(n) ==
    /\ n \in removals /\ zone = "free"
    /\ removals' = removals \ {n}
    /\ rows' = [rows EXCEPT ![n] = "none"]
    /\ UNCHANGED <<net, incoming, draining, items, batch, zombies, zone,
                   encrypted, decrypted, app, working, flags, attempts, used,
                   saved, settled, spent>>

-----------------------------------------------------------------------------
\* onEmpty: wait for everything received so far to pass every queue.

OnEmpty ==
    /\ incoming # <<>> /\ Head(incoming).kind = "empty"
    /\ incoming' = Tail(incoming)
    /\ draining' = draining \cup {Head(incoming).id}
    /\ UNCHANGED <<net, items, batch, zombies, zone, encrypted, decrypted, app,
                   working, removals, flags, disk, spent>>

\* Mutant of BatcherIdle: onEmpty does not wait for the batcher.
BatcherIgnored == TRUE

\* onIdle, flushAndWait: nothing is queued and no batch runs.
BatcherIdle == items = <<>> /\ batch.phase = "idle"

WaitForCacheAddBatcher(m) ==
    /\ m \in draining /\ BatcherIdle
    /\ draining' = draining \ {m}
    /\ incoming' = Append(incoming, Plain("drained", m))
    /\ UNCHANGED <<net, items, batch, zombies, zone, encrypted, decrypted, app,
                   working, removals, flags, disk, spent>>

WaitForIncomingQueue ==
    /\ incoming # <<>> /\ Head(incoming).kind = "drained"
    /\ incoming' = Tail(incoming)
    /\ encrypted' = Append(encrypted, Plain("empty", Head(incoming).id))
    /\ UNCHANGED <<net, draining, items, batch, zombies, zone, decrypted, app,
                   working, removals, flags, disk, spent>>

\* emitEmpty, once both batchers are flushed.
EmitEmpty ==
    /\ app # <<>> /\ Head(app).kind = "empty"
    /\ BatcherIdle /\ removals = {}
    /\ app' = Tail(app)
    /\ emptied' = TRUE /\ retry' = TRUE
    /\ UNCHANGED <<net, incoming, draining, items, batch, zombies, zone,
                   encrypted, decrypted, working, removals, stopping, disk,
                   spent>>

-----------------------------------------------------------------------------
\* The process dies: only the database and the server remember.
Crash ==
    /\ spent.crashes < MaxCrashes
    /\ spent' = [spent EXCEPT !.crashes = @ + 1]
    /\ conn' = "new" /\ told' = FALSE
    /\ incoming' = <<>> /\ draining' = {} /\ items' = <<>> /\ batch' = NoBatch
    /\ zombies' = {it \in zombies : received[it.id] \in used} /\ zone' = "free"
    /\ encrypted' = <<>> /\ decrypted' = <<>> /\ app' = <<>>
    /\ working' = {} /\ removals' = {}
    /\ emptied' = FALSE /\ retry' = FALSE /\ stopping' = FALSE
    /\ UNCHANGED <<server, base, received, disk>>

DecryptTask(it) ==
    \/ DecryptSucceeds(it) \/ DecryptDrops(it) \/ DecryptRepeats(it)
    \/ DecryptErrs(it) \/ DecryptStopped(it) \/ DecryptTimesOut(it)

\* What the process does by itself.
Work ==
    \/ Receive \/ QueueAllCached \/ StartBatch
    \/ \E it \in ToSet(encrypted) : DecryptTask(it)
    \/ CommitBatch \/ CommitFails \/ AckBatch
    \/ PassToDecrypted \/ PassToApp \/ DispatchError \/ ScheduleRetry
    \/ Dispatch
    \/ OnEmpty \/ WaitForIncomingQueue \/ EmitEmpty
    \/ \E m \in draining : WaitForCacheAddBatcher(m)

Next ==
    \/ Connect \/ Disconnect \/ Unregister \/ Deliver \/ DeliverEmpty
    \/ Work
    \/ \E it \in zombies : ZombieSucceeds(it)
    \/ \E w \in working : Save(w) \/ Confirm(w) \/ HandlerFails(w)
    \/ \E n \in removals : CacheRemove(n)
    \/ RetryFires \/ Crash

\* The server delivers, the network comes back, no queue stalls and the
\* application handles what it is given; nothing else has to happen.
Fairness ==
    /\ WF_vars(Connect) /\ WF_vars(Deliver) /\ WF_vars(DeliverEmpty)
    /\ WF_vars(Receive \/ QueueAllCached \/ OnEmpty \/ WaitForIncomingQueue)
    /\ WF_vars(StartBatch) /\ WF_vars(CommitBatch) /\ WF_vars(AckBatch)
    /\ WF_vars(PassToDecrypted \/ \E it \in ToSet(encrypted) : DecryptTask(it))
    /\ WF_vars(PassToApp \/ DispatchError \/ ScheduleRetry)
    /\ WF_vars(Dispatch \/ EmitEmpty) /\ WF_vars(RetryFires)
    /\ WF_vars(\E w \in working : Save(w) \/ Confirm(w))
    /\ WF_vars(\E n \in removals : CacheRemove(n))
    /\ WF_vars(\E m \in draining : WaitForCacheAddBatcher(m))

Spec == Init /\ [][Next]_vars
FairSpec == Spec /\ Fairness
-----------------------------------------------------------------------------
Entries == [kind : {"message", "cached", "empty", "drained", "decrypt",
                    "handoff", "handle", "error", "scheduleRetry"},
            id : Nat, tries : Nat, live : BOOLEAN]
Queue == Seq(Entries)

\* A batch decrypts in the zone, and decryptions are queued only for it: withZone
\* is left when all that its callback has queued is over.
Phases ==
    /\ batch.phase = "idle" => batch = NoBatch
    /\ zone = "held" <=> batch.phase = "decrypting"
    /\ batch.phase # "decrypting" =>
          \A x \in ToSet(encrypted) : x.kind # "decrypt"

\* The types of the state, and what a phase says of the batch, its zone and the
\* encrypted queue (decryptAndCacheBatch).
TypeOK ==
    /\ server \subseteq Envelopes /\ received \in Seq(Envelopes)
    /\ conn \in {"new", "up", "down"} /\ base \in 0..Len(received)
    /\ told \in BOOLEAN
    /\ {incoming, items, encrypted, decrypted, app} \subseteq Queue
    /\ batch \in [phase : {"idle", "decrypting", "stored"},
                  items : Queue, plain : Queue, failed : Queue,
                  used : SUBSET Envelopes, dropped : SUBSET Envelopes]
    /\ zombies \subseteq {it \in Entries : it.id \in Ids}
    /\ zone \in {"free", "held", "leaked"}
    /\ draining \subseteq 0..Len(received) /\ removals \subseteq Ids
    /\ working \subseteq [kind : {"handle", "saved", "error"}, id : Ids]
    /\ {emptied, retry, stopping} \subseteq BOOLEAN
    /\ rows \in [Ids -> {"none", "encrypted", "decrypted"}]
    /\ attempts \in [Ids -> Nat]
    /\ used \cup saved \cup settled \subseteq Envelopes
    /\ Phases

\* The envelopes the client answers for: one of their rows is in the
\* database, or they became a message, or were given up.
Held == saved \cup settled \cup EnvelopesOf({n \in Ids : rows[n] # "none"})

\* What was decrypted after its task had timed out: nobody reads that plaintext,
\* and another attempt finds the key spent.
Late == {received[it.id] : it \in zombies} \cap used

\* Whatever the server was told to forget is safe with the client: a crash
\* right after the acknowledgement loses nothing (decryptAndCacheBatch,
\* removeFromCache).  Only a decryption that comes too late is lost.
AckedIsDurable == Envelopes \ server \subseteq Held \cup Late

\* A message key is spent only together with keeping its plaintext, for the
\* ciphertext is worthless from then on: "Persist both decrypted envelopes and
\* envelopes that we failed to decrypt" (decryptAndCacheBatch).
DecryptedIsKept ==
    used \subseteq saved \cup settled
                 \cup EnvelopesOf({n \in Ids : rows[n] = "decrypted"})

\* The way from the socket to the application, whose end comes first.
Pipeline == app \o decrypted \o batch.plain \o encrypted \o items \o incoming
LivePlaces == {i \in DOMAIN Pipeline : Pipeline[i].live}

\* No envelope overtakes another on its way from the socket to the
\* application: receivedAtCounter is the order of the messages.
ArrivalOrder ==
    \A i, j \in LivePlaces : i < j => Pipeline[i].id < Pipeline[j].id

\* The 'empty' event comes after everything that was received before the
\* server said so was handed to the application (onEmpty).
EmptyMeansDrained ==
    [][app # <<>> /\ Head(app).kind = "empty" /\ app' = Tail(app)
       => \A i \in LivePlaces : Pipeline[i].id > Head(app).id]_vars

\* What the receiver promises to the server and to the application.
Inbox == INSTANCE AtLeastOnceInbox
    WITH offered <- server, held <- Held, done <- saved \cup settled
ImplementsInbox == Inbox!Spec

\* Every envelope ends as a message or is given up, the server forgets it and
\* the cache is empty: a decryption that has timed out leaves a row that only the
\* retry timer brings back, whenever 'empty' comes (maybeScheduleRetryTimeout).
\* One that then succeeds too late is the exception.
EverythingSettles ==
    <>[](/\ server = {}
         /\ Envelopes = saved \cup settled \cup Late
         /\ \A n \in Ids : rows[n] = "none")
=============================================================================
