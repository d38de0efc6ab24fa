-------------------------- MODULE ZoneTransactions --------------------------
(***************************************************************************)
(* The re-entrant transaction of SignalProtocolStore: withZone and the     *)
(* store operations that run inside it.                                    *)
(*                                                                         *)
(* Every call of withZone is a Call.  A Root is a call whose body runs     *)
(* other calls (a receive batch, enqueueSessionJob); a Store is a call     *)
(* whose body records one change (storeSession, addUnprocessed,            *)
(* removePreKeys, maybeRemoveKyberPreKey).  A step is the code between two *)
(* awaits.  A value is named by the Store that wrote it.                   *)
(***************************************************************************)
EXTENDS Naturals, Sequences, FiniteSets

CONSTANTS
    Roots,       \* calls of withZone with a body of other calls
    Stores,      \* calls of withZone made by a store operation
    Zones,       \* Zone objects
    Buffering,   \* the zones whose options support pending changes
    Keys,        \* rows: session addresses, unprocessed ids, pre keys, ...
    Triples,     \* the keys that are kyber pre key triples
    ZoneOf,      \* the zone argument of a call
    ParentOf,    \* the Root whose body makes a Store, or NoCall
    KeyOf,       \* the row a Store changes
    WritesFail,  \* may the database reject a write?
    NoZone, NoCall

Calls == Roots \cup Stores

ASSUME ZoneAssumption ==
    /\ IsFiniteSet(Roots) /\ IsFiniteSet(Stores)
    /\ Roots \cap Stores = {}
    /\ NoZone \notin Zones /\ NoCall \notin Calls
    /\ Buffering \subseteq Zones /\ Triples \subseteq Keys
    /\ ZoneOf \in [Calls -> Zones]
    /\ ParentOf \in [Stores -> Roots \cup {NoCall}]
    /\ KeyOf \in [Stores -> Keys]
    /\ WritesFail \in BOOLEAN

\* A nested operation is handed the zone of the body it runs in.
ASSUME NestingAssumption ==
    \A s \in Stores : ParentOf[s] # NoCall => ZoneOf[s] = ZoneOf[ParentOf[s]]

\* A buffering zone is made for a batch, whose body makes every call in it
\* (decryptAndCacheBatch).
ASSUME BatchAssumption ==
    /\ \A r1, r2 \in Roots :
          ZoneOf[r1] \in Buffering /\ ZoneOf[r1] = ZoneOf[r2] => r1 = r2
    /\ \A s \in Stores : ZoneOf[s] \in Buffering => ParentOf[s] # NoCall

VARIABLES
    currentZone,  \* #currentZone
    depth,        \* #currentZoneDepth
    zoneQueue,    \* #zoneQueue: the calls waiting for another zone
    pending,      \* the six #pending... collections
    cache,        \* the in-memory stores
    db,           \* the tables behind DataWriter
    writes,       \* commitDecryptResult calls in flight, in order
    pc            \* where each call of withZone is

lock == <<currentZone, depth, zoneQueue>>
vars == <<currentZone, depth, zoneQueue, pending, cache, db, writes, pc>>

Value == Stores \cup {NoCall}
Rows == [Keys -> Value]
Empty == [k \in Keys |-> NoCall]

Inside == {"body", "writing", "returned", "threw", "committing"}
Final == {"resolved", "rejected", "leaked"}
PCs == {"idle", "waiting"} \cup Inside \cup Final

\* Calls between enterZone and leaveZone.
Active == {c \in Calls : pc[c] \in Inside}
\* Calls whose commit failed: rejected without leaveZone.
Leaked == {c \in Calls : pc[c] = "leaked"}
\* Calls that count in #currentZoneDepth.
Users == Active \cup Leaked

Overlay(base, changes) ==
    [k \in Keys |-> IF changes[k] # NoCall THEN changes[k] ELSE base[k]]

-----------------------------------------------------------------------------
Init ==
    /\ currentZone = NoZone
    /\ depth = 0
    /\ zoneQueue = <<>>
    /\ pending = Empty
    /\ cache = Empty
    /\ db = Empty
    /\ writes = <<>>
    /\ pc = [c \in Calls |-> "idle"]

\* A parent runs the call from its body.
MayCall(c) ==
    c \in Stores /\ ParentOf[c] # NoCall => pc[ParentOf[c]] = "body"

\* withZone finds the zone free, or its own: enterZone.
Enter(c) ==
    /\ pc[c] = "idle" /\ MayCall(c)
    /\ currentZone \in {NoZone, ZoneOf[c]}
    /\ currentZone' = ZoneOf[c]
    /\ depth' = depth + 1
    /\ pc' = [pc EXCEPT ![c] = "body"]
    /\ UNCHANGED <<zoneQueue, pending, cache, db, writes>>

\* withZone finds another zone: the call queues behind it.
Wait(c) ==
    /\ pc[c] = "idle" /\ MayCall(c)
    /\ currentZone \notin {NoZone, ZoneOf[c]}
    /\ zoneQueue' = Append(zoneQueue, c)
    /\ pc' = [pc EXCEPT ![c] = "waiting"]
    /\ UNCHANGED <<currentZone, depth, pending, cache, db, writes>>

\* Mutant of ReleasedPrefix: every queued call of the zone, wherever it is.
ReleasedAnywhere ==
    {i \in 1..Len(zoneQueue) : ZoneOf[zoneQueue[i]] = ZoneOf[zoneQueue[1]]}

\* The queued calls leaveZone lets in: the first and those of its zone that
\* directly follow it.
ReleasedPrefix ==
    {i \in 1..Len(zoneQueue) :
        \A j \in 1..i : ZoneOf[zoneQueue[j]] = ZoneOf[zoneQueue[1]]}
Released == {zoneQueue[i] : i \in ReleasedPrefix}

\* Mutant of Leave: the last user leaves without waking the queue.
LeaveWithoutWaking(c, end) ==
    /\ depth' = depth - 1
    /\ currentZone' = IF depth > 1 THEN currentZone ELSE NoZone
    /\ pc' = [pc EXCEPT ![c] = end]
    /\ UNCHANGED zoneQueue

\* Mutant of Leave: any user that leaves gives the zone away.
LeaveIgnoringDepth(c, end) ==
    /\ currentZone' = IF zoneQueue = <<>> THEN NoZone ELSE ZoneOf[zoneQueue[1]]
    /\ depth' = Cardinality(Released)
    /\ zoneQueue' = SubSeq(zoneQueue, Cardinality(ReleasedPrefix) + 1,
                                      Len(zoneQueue))
    /\ pc' = [x \in Calls |-> IF x = c THEN end
                            ELSE IF x \in Released THEN "body" ELSE pc[x]]

\* leaveZone; the call's promise settles as `end`.
Leave(c, end) ==
    IF depth > 1 THEN
        /\ depth' = depth - 1
        /\ pc' = [pc EXCEPT ![c] = end]
        /\ UNCHANGED <<currentZone, zoneQueue>>
    ELSE
        /\ currentZone' = IF zoneQueue = <<>> THEN NoZone
                                              ELSE ZoneOf[zoneQueue[1]]
        /\ depth' = Cardinality(Released)
        /\ zoneQueue' = SubSeq(zoneQueue, Cardinality(ReleasedPrefix) + 1,
                                          Len(zoneQueue))
        /\ pc' = [x \in Calls |-> IF x = c THEN end
                                ELSE IF x \in Released THEN "body" ELSE pc[x]]

-----------------------------------------------------------------------------
\* The body of a store operation.

DuplicateTriple(k) ==
    k \in Triples /\ (cache[k] # NoCall \/ pending[k] # NoCall)

\* The zone keeps changes pending: the body only records the change.
Buffer(s) ==
    /\ pc[s] = "body" /\ ~DuplicateTriple(KeyOf[s])
    /\ ZoneOf[s] \in Buffering
    /\ pending' = [pending EXCEPT ![KeyOf[s]] = s]
    /\ pc' = [pc EXCEPT ![s] = "returned"]
    /\ UNCHANGED <<lock, cache, db, writes>>

\* The zone does not: commitZoneChanges takes everything pending at once.
WriteThrough(s) ==
    /\ pc[s] = "body" /\ ~DuplicateTriple(KeyOf[s])
    /\ ZoneOf[s] \notin Buffering
    /\ writes' = Append(writes,
           [by |-> s, changes |-> [pending EXCEPT ![KeyOf[s]] = s]])
    /\ pending' = Empty
    /\ pc' = [pc EXCEPT ![s] = "writing"]
    /\ UNCHANGED <<lock, cache, db>>

\* The body throws before its change: a duplicate kyber triple must, any other
\* operation may (a store that is not hydrated, a record that does not parse).
StoreThrows(s) ==
    /\ pc[s] = "body"
    /\ pc' = [pc EXCEPT ![s] = "threw"]
    /\ UNCHANGED <<lock, pending, cache, db, writes>>

\* The body of a Root ends when the calls it awaits have settled.
ChildrenSettled(r) ==
    \A s \in Stores :
        ParentOf[s] = r => pc[s] \in Final \cup {"idle"}

RootEnds(r) ==
    /\ pc[r] = "body" /\ ChildrenSettled(r)
    /\ \E end \in {"returned", "threw"} : pc' = [pc EXCEPT ![r] = end]
    /\ UNCHANGED <<lock, pending, cache, db, writes>>

-----------------------------------------------------------------------------
\* The tail of withZone.

\* The outermost call commits: the pending changes are swapped out before the
\* database is asked to write them.
Commit(c) ==
    /\ pc[c] = "returned" /\ depth = 1 /\ pending # Empty
    /\ writes' = Append(writes, [by |-> c, changes |-> pending])
    /\ pending' = Empty
    /\ pc' = [pc EXCEPT ![c] = "committing"]
    /\ UNCHANGED <<lock, cache, db>>

\* Mutant of Return: the outermost call leaves without committing.
ReturnWithoutCommit(c) ==
    /\ pc[c] = "returned"
    /\ Leave(c, "resolved")
    /\ UNCHANGED <<pending, cache, db, writes>>

\* An inner call, or one with nothing to commit, just leaves.
Return(c) ==
    /\ pc[c] = "returned" /\ (depth > 1 \/ pending = Empty)
    /\ Leave(c, "resolved")
    /\ UNCHANGED <<pending, cache, db, writes>>

\* revertZoneChanges clears every pending collection but the kyber triples.
Reverted == [k \in Keys |-> IF k \in Triples THEN pending[k] ELSE NoCall]

Throw(c) ==
    /\ pc[c] = "threw"
    /\ pending' = IF depth = 1 THEN Reverted ELSE pending
    /\ Leave(c, "rejected")
    /\ UNCHANGED <<cache, db, writes>>

-----------------------------------------------------------------------------
\* commitDecryptResult: one SQL transaction, then the in-memory stores.

\* Mutant of Clash: INSERT OR REPLACE in place of INSERT OR FAIL.
NoClash(changes) == FALSE

Clash(changes) == \E k \in Triples : changes[k] # NoCall /\ db[k] # NoCall

WriteSucceeds ==
    /\ writes # <<>> /\ ~Clash(Head(writes).changes)
    /\ writes' = Tail(writes)
    /\ db' = Overlay(db, Head(writes).changes)
    /\ cache' = Overlay(cache, Head(writes).changes)
    /\ LET c == Head(writes).by IN
         IF pc[c] = "committing" THEN Leave(c, "resolved")
         ELSE /\ pc' = [pc EXCEPT ![c] = "returned"]
              /\ UNCHANGED lock
    /\ UNCHANGED pending

\* Mutant of WriteFails: the in-memory stores are changed before the database.
WriteFailsAfterApply ==
    /\ writes # <<>> /\ (WritesFail \/ Clash(Head(writes).changes))
    /\ writes' = Tail(writes)
    /\ cache' = Overlay(cache, Head(writes).changes)
    /\ LET c == Head(writes).by IN
         pc' = [pc EXCEPT ![c] =
                   IF pc[c] = "committing" THEN "leaked" ELSE "threw"]
    /\ UNCHANGED <<lock, pending, db>>

\* Mutant of WriteFails: a refused commit is put back among the pending changes.
WriteFailsAndKeeps ==
    /\ writes # <<>> /\ (WritesFail \/ Clash(Head(writes).changes))
    /\ writes' = Tail(writes)
    /\ pending' = Overlay(pending, Head(writes).changes)
    /\ LET c == Head(writes).by IN
         pc' = [pc EXCEPT ![c] =
                   IF pc[c] = "committing" THEN "leaked" ELSE "threw"]
    /\ UNCHANGED <<lock, cache, db>>

\* The awaits of commitZoneChanges in a body reject into it; the one in the
\* tail of withZone is outside its try block, so leaveZone is skipped.
WriteFails ==
    /\ writes # <<>> /\ (WritesFail \/ Clash(Head(writes).changes))
    /\ writes' = Tail(writes)
    /\ LET c == Head(writes).by IN
         pc' = [pc EXCEPT ![c] =
                   IF pc[c] = "committing" THEN "leaked" ELSE "threw"]
    /\ UNCHANGED <<lock, pending, cache, db>>

-----------------------------------------------------------------------------
StoreBody(s) == Buffer(s) \/ WriteThrough(s) \/ StoreThrows(s)
Ending(c) == Commit(c) \/ Return(c) \/ Throw(c)

Next ==
    \/ \E c \in Calls : Enter(c) \/ Wait(c) \/ Ending(c)
    \/ \E s \in Stores : StoreBody(s)
    \/ \E r \in Roots : RootEnds(r)
    \/ WriteSucceeds
    \/ WriteFails

\* Every continuation that is ready runs; the database answers every write.
Fairness ==
    /\ \A c \in Calls : WF_vars(Ending(c))
    /\ \A s \in Stores : WF_vars(StoreBody(s))
    /\ \A r \in Roots : WF_vars(RootEnds(r))
    /\ WF_vars(WriteSucceeds \/ WriteFails)

Spec == Init /\ [][Next]_vars
FairSpec == Spec /\ Fairness
-----------------------------------------------------------------------------
TypeOK ==
    /\ currentZone \in Zones \cup {NoZone}
    /\ depth \in Nat
    /\ zoneQueue \in Seq(Calls)
    /\ pending \in Rows /\ cache \in Rows /\ db \in Rows
    /\ writes \in Seq([by : Calls, changes : Rows])
    /\ pc \in [Calls -> PCs]

\* "Only one session transaction could be running at the same time": calls of
\* different zones are never inside withZone together, and the depth counts
\* exactly the calls that have not left (enterZone, leaveZone).
OneZoneAtATime ==
    /\ \A c \in Active : ZoneOf[c] = currentZone
    /\ depth = Cardinality(Users)

\* Nobody waits for a zone nobody uses: as long as no commit has failed, a
\* queued call waits for a call that is inside, in another zone (leaveZone
\* must wake the queue exactly when the last user leaves).
NobodyStranded ==
    zoneQueue # <<>> /\ Leaked = {} =>
        /\ Active # {}
        /\ ZoneOf[zoneQueue[1]] # currentZone

\* A call is queued exactly while it waits, and once: leaveZone neither drops
\* nor repeats a callback.
QueueIsWaiters ==
    /\ {zoneQueue[i] : i \in 1..Len(zoneQueue)} = {c \in Calls : pc[c] = "waiting"}
    /\ \A i, j \in 1..Len(zoneQueue) : i # j => zoneQueue[i] # zoneQueue[j]

\* What loadSession finds: pending changes first, then the cache.
Visible(k) == IF pending[k] # NoCall THEN pending[k] ELSE cache[k]

\* No dirty reads: a value that is not in the database is visible only inside
\* the zone that stored it (withZone, loadSession, commitZoneChanges).
NoDirtyRead ==
    \A k \in Keys \ Triples :
        Visible(k) # db[k] => ZoneOf[Visible(k)] = currentZone

\* A transaction that ends with an error leaves no change behind, in memory
\* or in the database (revertZoneChanges, and commitZoneChanges when the
\* database refuses).  Kyber triples are the exception the code makes.
RevertLeavesNoTrace ==
    \A s \in Stores : LET r == ParentOf[s]
                          k == KeyOf[s] IN
        /\ r # NoCall /\ ZoneOf[s] \in Buffering /\ k \notin Triples
        /\ pc[r] \in {"rejected", "leaked"}
        => s \notin {pending[k], cache[k], db[k]}

\* A transaction that ends well has all its changes in the database at that
\* moment, each overwritten by a sibling at most (commitZoneChanges runs
\* before leaveZone lets anyone else in).
ResolvedIsDurable ==
    [][\A s \in Stores : LET r == ParentOf[s] IN
        /\ r # NoCall /\ pc[s] = "resolved"
        /\ pc[r] # "resolved" /\ pc'[r] = "resolved"
        /\ ZoneOf[s] \in Buffering
        => /\ db'[KeyOf[s]] # NoCall
           /\ ParentOf[db'[KeyOf[s]]] = r]_vars

\* A kyber triple that was seen stays seen: it is never recorded for a second
\* message (maybeRemoveKyberPreKey, markKyberTripleSeenOrFail).
TripleSeenOnce ==
    [][\A k \in Triples : db[k] # NoCall => db'[k] = db[k]]_vars

\* The queue is fair between zones: no queued call enters before one that was
\* queued earlier (leaveZone lets in a prefix).
WaitersEnterInOrder ==
    [][\A i, j \in 1..Len(zoneQueue) :
        /\ i < j
        /\ pc'[zoneQueue[j]] # "waiting"
        => pc'[zoneQueue[i]] # "waiting"]_vars

\* Every call of withZone settles, whatever the other zones do and whatever
\* writes the database refuses, but for a commit (see ZoneLeftWhenUnused).
EveryCallSettles ==
    \A c \in Calls : pc[c] # "idle" ~> pc[c] \in Final \/ Leaked # {}

-----------------------------------------------------------------------------
\* What a comment promises and the code does not keep.

\* "Leave the zone and yield to another one only if there are no active zone
\* users anymore": a queued call waits only while the zone has a user.
ZoneLeftWhenUnused ==
    zoneQueue # <<>> => Active # {}
=============================================================================
