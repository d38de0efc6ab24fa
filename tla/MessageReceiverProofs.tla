----------------------- MODULE MessageReceiverProofs -----------------------
(***************************************************************************)
(* Proofs about MessageReceiver, for any number of envelopes, deliveries,  *)
(* crashes, reconnections, retries and attempts.  The types and the order  *)
(* of the queues need no more than Spec.  What was acknowledged is safe,   *)
(* and the abstract inbox is implemented, as long as #queueAllCached loads *)
(* no row whose decryption is queued (NoOverlap): always, when the process *)
(* neither reconnects nor retries; the run receiver_overlap shows what two *)
(* reconnections may do.                                                   *)
(***************************************************************************)
EXTENDS MessageReceiver, SequenceFacts

\* The tasks that carry an envelope, and what an entry of a queue may be.
Carriers == {"message", "decrypt", "handoff", "handle", "error"}
Fits(x, kinds) ==
    /\ x.kind \in kinds /\ x.id <= Len(received)
    /\ x.kind \in Carriers => x.id \in Ids
    /\ x.live => x.kind \in {"message", "decrypt", "handle"}

ToDecrypt == ToSet(batch.items) \cup ToSet(batch.plain) \cup ToSet(batch.failed)

Fit ==
    /\ \A x \in ToSet(incoming) :
          Fits(x, {"message", "cached", "empty", "drained"})
    /\ \A x \in ToSet(items) \cup ToDecrypt \cup zombies : Fits(x, {"decrypt"})
    /\ \A x \in ToSet(encrypted) : Fits(x, {"decrypt", "handoff", "empty"})
    /\ \A x \in ToSet(decrypted) :
          Fits(x, {"handle", "error", "empty", "scheduleRetry"})
    /\ \A x \in ToSet(app) : Fits(x, {"handle", "empty"})

\* The types of the variables, one by one.
NetTypes ==
    /\ server \in SUBSET Envelopes /\ received \in Seq(Envelopes)
    /\ conn \in {"new", "up", "down"} /\ base \in 0..Len(received)
    /\ told \in BOOLEAN
QueueTypes ==
    /\ incoming \in Queue /\ items \in Queue /\ encrypted \in Queue
    /\ decrypted \in Queue /\ app \in Queue
BatchTypes ==
    /\ batch \in [phase : {"idle", "decrypting", "stored"},
                  items : Queue, plain : Queue, failed : Queue,
                  used : SUBSET Envelopes, dropped : SUBSET Envelopes]
    /\ zone \in {"free", "held", "leaked"}
    /\ zombies \in SUBSET Entries
WorkTypes ==
    /\ draining \in SUBSET (0..Len(received)) /\ removals \in SUBSET Ids
    /\ working \in SUBSET [kind : {"handle", "saved", "error"}, id : Ids]
    /\ emptied \in BOOLEAN /\ retry \in BOOLEAN /\ stopping \in BOOLEAN
DiskTypes ==
    /\ rows \in [Ids -> {"none", "encrypted", "decrypted"}]
    /\ attempts \in [Ids -> Nat]
    /\ used \in SUBSET Envelopes /\ saved \in SUBSET Envelopes
    /\ settled \in SUBSET Envelopes
    /\ spent \in [crashes : Nat, reconnects : Nat, retries : Nat]

TypeInv ==
    /\ NetTypes /\ QueueTypes /\ BatchTypes /\ WorkTypes /\ DiskTypes
    /\ Fit /\ Phases

-----------------------------------------------------------------------------
\* x may be ahead of y in the pipeline: ids grow, from the deliveries and from
\* the 'empty' of the server to the deliveries behind them.
Precedes(x, y) == (x.live \/ x.kind = "empty") /\ y.live => x.id < y.id
Ahead(A, B) == \A x \in A, y \in B : Precedes(x, y)
InOrder(q) == Pairwise(q, {p \in Entries \X Entries : Precedes(p[1], p[2])})

\* x and y are decryptions of different rows.
Undecrypted == {"message", "decrypt"}
Differ(x, y) ==
    x.kind \in Undecrypted /\ y.kind \in Undecrypted => x.id # y.id
Apart(A, B) == \A x \in A, y \in B : Differ(x, y)
Distinct(q) == Pairwise(q, {p \in Entries \X Entries : Differ(p[1], p[2])})

\* From the relations on entries to those on sets of them.
LEMMA AcrossEntries ==
    ASSUME NEW A \in SUBSET Entries, NEW B \in SUBSET Entries
    PROVE  /\ Cross(A, B, {p \in Entries \X Entries : Precedes(p[1], p[2])})
                <=> Ahead(A, B)
           /\ Cross(A, B, {p \in Entries \X Entries : Differ(p[1], p[2])})
                <=> Apart(A, B)
<1>1. ASSUME NEW x \in A, NEW y \in B
      PROVE  /\ <<x, y>> \in {p \in Entries \X Entries : Precedes(p[1], p[2])}
                  <=> Precedes(x, y)
             /\ <<x, y>> \in {p \in Entries \X Entries : Differ(p[1], p[2])}
                  <=> Differ(x, y)
  OBVIOUS
<1>. QED
  BY <1>1 DEF Cross, Ahead, Apart

\* The entries of a queue.
LEMMA QueueSet ==
    ASSUME NEW q \in Queue
    PROVE  ToSet(q) \in SUBSET Entries
<1>1. \A i \in 1..Len(q) : q[i] \in Entries
  BY ElementOfSeq DEF Queue
<1>. QED
  BY <1>1, LenProperties DEF ToSet, Queue

\* The empty queue.
LEMMA QueueEmpty ==
    <<>> \in Queue /\ ToSet(<<>>) = {} /\ InOrder(<<>>) /\ Distinct(<<>>)
BY EmptyFacts, EmptySeq, PairwiseEmpty DEF Queue, InOrder, Distinct

\* An entry joins a queue.
LEMMA QueueAppend ==
    ASSUME NEW q \in Queue, NEW e \in Entries
    PROVE  /\ Append(q, e) \in Queue
           /\ ToSet(Append(q, e)) = ToSet(q) \cup {e}
           /\ InOrder(q) /\ Ahead(ToSet(q), {e}) => InOrder(Append(q, e))
           /\ Distinct(q) /\ Apart(ToSet(q), {e}) => Distinct(Append(q, e))
<1>1. ToSet(q) \in SUBSET Entries /\ {e} \in SUBSET Entries
  BY QueueSet
<1>2. Append(q, e) \in Queue /\ ToSet(Append(q, e)) = ToSet(q) \cup {e}
  BY AppendFacts DEF Queue
<1>3. InOrder(q) /\ Ahead(ToSet(q), {e}) => InOrder(Append(q, e))
  BY <1>1, AcrossEntries, PairwiseAppend DEF InOrder, Queue
<1>4. Distinct(q) /\ Apart(ToSet(q), {e}) => Distinct(Append(q, e))
  BY <1>1, AcrossEntries, PairwiseAppend DEF Distinct, Queue
<1>. QED
  BY <1>2, <1>3, <1>4

\* The head leaves a queue.
LEMMA QueueTail ==
    ASSUME NEW q \in Queue, q # <<>>
    PROVE  /\ Tail(q) \in Queue /\ Head(q) \in Entries
           /\ ToSet(q) = {Head(q)} \cup ToSet(Tail(q))
           /\ InOrder(q) =>
                 InOrder(Tail(q)) /\ Ahead({Head(q)}, ToSet(Tail(q)))
           /\ Distinct(q) =>
                 Distinct(Tail(q)) /\ Apart({Head(q)}, ToSet(Tail(q)))
<1>1. /\ Tail(q) \in Queue /\ Head(q) \in Entries
      /\ ToSet(q) = {Head(q)} \cup ToSet(Tail(q))
  BY TailFacts DEF Queue
<1>2. ToSet(Tail(q)) \in SUBSET Entries /\ {Head(q)} \in SUBSET Entries
  BY <1>1, QueueSet
<1>3. InOrder(q) => InOrder(Tail(q)) /\ Ahead({Head(q)}, ToSet(Tail(q)))
  BY <1>2, AcrossEntries, PairwiseTail DEF InOrder, Queue
<1>4. Distinct(q) => Distinct(Tail(q)) /\ Apart({Head(q)}, ToSet(Tail(q)))
  BY <1>2, AcrossEntries, PairwiseTail DEF Distinct, Queue
<1>. QED
  BY <1>1, <1>3, <1>4

\* One queue joins another.
LEMMA QueueConcat ==
    ASSUME NEW q \in Queue, NEW r \in Queue
    PROVE  /\ q \o r \in Queue /\ ToSet(q \o r) = ToSet(q) \cup ToSet(r)
           /\ InOrder(q) /\ InOrder(r) /\ Ahead(ToSet(q), ToSet(r))
                 => InOrder(q \o r)
           /\ Distinct(q) /\ Distinct(r) /\ Apart(ToSet(q), ToSet(r))
                 => Distinct(q \o r)
<1>1. ToSet(q) \in SUBSET Entries /\ ToSet(r) \in SUBSET Entries
  BY QueueSet
<1>2. q \o r \in Queue /\ ToSet(q \o r) = ToSet(q) \cup ToSet(r)
  BY ConcatFacts DEF Queue
<1>3. InOrder(q) /\ InOrder(r) /\ Ahead(ToSet(q), ToSet(r)) => InOrder(q \o r)
  BY <1>1, AcrossEntries, PairwiseConcat DEF InOrder, Queue
<1>4. Distinct(q) /\ Distinct(r) /\ Apart(ToSet(q), ToSet(r))
         => Distinct(q \o r)
  BY <1>1, AcrossEntries, PairwiseConcat DEF Distinct, Queue
<1>. QED
  BY <1>2, <1>3, <1>4

\* The first k entries leave a queue.
LEMMA QueueSplit ==
    ASSUME NEW q \in Queue, NEW k \in 1..Len(q), NEW first, NEW rest,
           first = SubSeq(q, 1, k), rest = SubSeq(q, k + 1, Len(q))
    PROVE  /\ first \in Queue /\ rest \in Queue
           /\ ToSet(first) \subseteq ToSet(q) /\ ToSet(rest) \subseteq ToSet(q)
           /\ InOrder(q) => /\ InOrder(first) /\ InOrder(rest)
                            /\ Ahead(ToSet(first), ToSet(rest))
           /\ Distinct(q) => /\ Distinct(first) /\ Distinct(rest)
                             /\ Apart(ToSet(first), ToSet(rest))
<1>1. /\ first \in Queue /\ rest \in Queue
      /\ ToSet(first) \subseteq ToSet(q) /\ ToSet(rest) \subseteq ToSet(q)
  BY SplitFacts DEF Queue
<1>2. ToSet(first) \in SUBSET Entries /\ ToSet(rest) \in SUBSET Entries
  BY <1>1, QueueSet
<1>3. InOrder(q) => /\ InOrder(first) /\ InOrder(rest)
                    /\ Ahead(ToSet(first), ToSet(rest))
  BY <1>2, AcrossEntries, SplitFacts DEF InOrder, Queue
<1>4. Distinct(q) => /\ Distinct(first) /\ Distinct(rest)
                     /\ Apart(ToSet(first), ToSet(rest))
  BY <1>2, AcrossEntries, SplitFacts DEF Distinct, Queue
<1>. QED
  BY <1>1, <1>3, <1>4

\* A queue of which the entries have another kind.
LEMMA QueueRelabel ==
    ASSUME NEW q \in Queue, NEW kind,
           kind \in {"message", "cached", "empty", "drained", "decrypt",
                     "handoff", "handle", "error", "scheduleRetry"}
    PROVE  /\ Relabel(q, kind) \in Queue
           /\ ToSet(Relabel(q, kind))
                = {[x EXCEPT !.kind = kind] : x \in ToSet(q)}
           /\ InOrder(q) /\ kind # "empty" => InOrder(Relabel(q, kind))
<1> DEFINE r == Relabel(q, kind)
<1>1. Len(q) \in Nat /\ DOMAIN q = 1..Len(q) /\ (\A i \in 1..Len(q) : q[i] \in Entries)
  BY LenProperties, ElementOfSeq DEF Queue
<1>2. DOMAIN r = DOMAIN q /\ \A i \in DOMAIN q : r[i] = [q[i] EXCEPT !.kind = kind]
  BY DEF Relabel
<1>3. \A i \in DOMAIN q : r[i] \in Entries
  BY <1>1, <1>2 DEF Entries
<1>4. r \in Queue
  <2>1. r \in [1..Len(q) -> Entries]
    BY <1>1, <1>3 DEF Relabel
  <2>. QED
    BY <1>1, <2>1, SeqDef DEF Queue
<1>5. ToSet(r) = {[x EXCEPT !.kind = kind] : x \in ToSet(q)}
  BY <1>2 DEF ToSet
<1>6. ASSUME InOrder(q), kind # "empty" PROVE InOrder(r)
  <2>1. ASSUME NEW m \in DOMAIN q, NEW n \in DOMAIN q, m < n
        PROVE  <<r[m], r[n]>> \in {p \in Entries \X Entries : Precedes(p[1], p[2])}
    <3>1. <<q[m], q[n]>> \in {p \in Entries \X Entries : Precedes(p[1], p[2])}
      BY <1>6, <2>1 DEF InOrder, Pairwise
    <3>2. Precedes(q[m], q[n])
      BY <3>1
    <3>3. /\ q[m] \in Entries /\ q[n] \in Entries
          /\ r[m] = [q[m] EXCEPT !.kind = kind] /\ r[n] = [q[n] EXCEPT !.kind = kind]
      BY <1>1, <1>2
    <3>4. Precedes(r[m], r[n])
      BY <1>6, <3>2, <3>3 DEF Precedes, Entries
    <3>. QED
      BY <1>3, <3>4
  <2>. QED
    BY <1>2, <2>1 DEF InOrder, Pairwise
<1>. QED
  BY <1>4, <1>5, <1>6

-----------------------------------------------------------------------------
\* The types.

\* TypeInv has the types of TypeOK.
LEMMA TypesHold == TypeInv => TypeOK
<1>1. ASSUME TypeInv PROVE TypeOK
  <2>1. zombies \subseteq {it \in Entries : it.id \in Ids}
    BY <1>1 DEF TypeInv, BatchTypes, Fit, Fits, Carriers
  <2>2. {incoming, items, encrypted, decrypted, app} \subseteq Queue
    BY <1>1 DEF TypeInv, QueueTypes
  <2>. QED
    BY <1>1, <2>1, <2>2
       DEF TypeInv, NetTypes, BatchTypes, WorkTypes, DiskTypes, TypeOK
<1>. QED
  BY <1>1

\* The process begins with its queues empty.
LEMMA TypesInitially == Init => TypeInv
<1>1. SUFFICES ASSUME Init PROVE TypeInv
  OBVIOUS
<1>2. received = <<>> /\ Len(received) = 0 /\ Ids = {}
  BY <1>1, EmptySeq DEF Init, Ids
<1>3. NetTypes
  <2>1. received \in Seq(Envelopes) /\ base = 0 /\ 0 \in 0..Len(received)
    BY <1>1, <1>2, EmptySeq DEF Init
  <2>. QED
    BY <1>1, <2>1 DEF Init, InitProcess, NetTypes
<1>4. QueueTypes
  BY <1>1, QueueEmpty DEF Init, InitProcess, QueueTypes
<1>5. BatchTypes
  BY <1>1, QueueEmpty DEF Init, InitProcess, BatchTypes, NoBatch
<1>6. WorkTypes
  BY <1>1 DEF Init, InitProcess, WorkTypes
<1>7. DiskTypes
  BY <1>1, <1>2 DEF Init, InitProcess, DiskTypes
<1>8. Fit /\ Phases
  BY <1>1, QueueEmpty DEF Init, InitProcess, Fit, Phases, ToDecrypt, NoBatch
<1>. QED
  BY <1>3, <1>4, <1>5, <1>6, <1>7, <1>8 DEF TypeInv

\* A connection queues the load of the table.
LEMMA TypesConnect == ASSUME TypeInv, Connect PROVE TypeInv'
<1> DEFINE e == Plain("cached", 0)
<1>1. e \in Entries /\ Fits(e, {"cached"})
  BY DEF TypeInv, NetTypes, Plain, Entry, Entries, Fits, Carriers
<1>2. incoming' \in Queue /\ ToSet(incoming') = ToSet(incoming) \cup {e}
  BY <1>1, QueueAppend DEF TypeInv, QueueTypes, Connect
<1>3. NetTypes'
  <2>1. base' \in 0..Len(received') /\ received' = received
    BY LenProperties DEF TypeInv, NetTypes, Connect
  <2>2. conn' = "up" /\ told' = FALSE /\ server' = server
    BY DEF Connect
  <2>. QED
    BY <2>1, <2>2 DEF TypeInv, NetTypes
<1>4. QueueTypes' /\ BatchTypes' /\ WorkTypes'
  BY <1>2 DEF TypeInv, QueueTypes, BatchTypes, WorkTypes, Connect, Ids
<1>5. DiskTypes'
  <2>1. spent' \in [crashes : Nat, reconnects : Nat, retries : Nat]
    BY DEF TypeInv, DiskTypes, Connect
  <2>. QED
    BY <2>1 DEF TypeInv, DiskTypes, Connect, disk, Ids
<1>6. Fit'
  BY <1>1, <1>2 DEF TypeInv, Fit, Fits, ToDecrypt, Connect, Ids
<1>7. Phases'
  BY DEF TypeInv, Phases, Connect
<1>. QED
  BY <1>3, <1>4, <1>5, <1>6, <1>7 DEF TypeInv

\* decryptAndCache.
LEMMA TypesReceive == ASSUME TypeInv, Receive PROVE TypeInv'
<1> DEFINE h == Head(incoming)
           e == [h EXCEPT !.kind = "decrypt"]
<1>1. /\ h \in Entries /\ e \in Entries /\ incoming' \in Queue
      /\ ToSet(incoming) = {h} \cup ToSet(incoming')
  BY QueueTail DEF TypeInv, QueueTypes, Receive, Entries
<1>2. Fits(e, {"decrypt"})
  BY <1>1 DEF TypeInv, Fit, Fits, Carriers, Receive, Entries
<1>3. items' \in Queue /\ ToSet(items') = ToSet(items) \cup {e}
  BY <1>1, QueueAppend DEF TypeInv, QueueTypes, Receive
<1>4. NetTypes' /\ QueueTypes' /\ BatchTypes' /\ WorkTypes' /\ DiskTypes'
  BY <1>1, <1>3 DEF TypeInv, NetTypes, QueueTypes, BatchTypes, WorkTypes,
     DiskTypes, Receive, net, flags, disk, Ids
<1>5. Fit'
  BY <1>1, <1>2, <1>3 DEF TypeInv, Fit, Fits, ToDecrypt, Receive, net, Ids
<1>6. Phases'
  BY DEF TypeInv, Phases, Receive
<1>. QED
  BY <1>4, <1>5, <1>6 DEF TypeInv

\* The connection ends.
LEMMA TypesDisconnect == ASSUME TypeInv, Disconnect \/ Unregister PROVE TypeInv'
<1>1. /\ conn' \in {"new", "up", "down"} /\ emptied' \in BOOLEAN
      /\ stopping' \in BOOLEAN
      /\ UNCHANGED <<server, base, told, received, queues, retry, disk, spent>>
  BY DEF TypeInv, WorkTypes, Disconnect, Unregister
<1>2. NetTypes' /\ QueueTypes' /\ BatchTypes' /\ WorkTypes' /\ DiskTypes'
  BY <1>1 DEF TypeInv, NetTypes, QueueTypes, BatchTypes, WorkTypes, DiskTypes,
     queues, disk, Ids
<1>3. Fit' /\ Phases'
  BY <1>1 DEF TypeInv, Fit, Fits, ToDecrypt, Phases, queues, Ids
<1>. QED
  BY <1>2, <1>3 DEF TypeInv

\* The table has a row more.
LEMMA ColumnAppend ==
    ASSUME NEW S, NEW m \in Nat, NEW f \in [1..m -> S], NEW v \in S
    PROVE  /\ Append(f, v) \in [1..(m + 1) -> S]
           /\ Append(f, v)[m + 1] = v
           /\ \A i \in 1..m : Append(f, v)[i] = f[i]
<1>1. f \in Seq(S)
  BY SeqDef
<1>2. Len(f) = m
  BY <1>1, LenProperties
<1>3. /\ Append(f, v) \in Seq(S) /\ Len(Append(f, v)) = m + 1
      /\ Append(f, v)[m + 1] = v
      /\ \A i \in 1..m : Append(f, v)[i] = f[i]
  BY <1>1, <1>2, AppendProperties
<1>4. Append(f, v) \in [1..Len(Append(f, v)) -> S]
  BY <1>3, LenProperties
<1>. QED
  BY <1>3, <1>4

\* handleRequest: there is one delivery more.
LEMMA NewDelivery ==
    ASSUME TypeInv, Deliver
    PROVE  /\ Len(received) \in Nat /\ Len(received') = Len(received) + 1
           /\ received' \in Seq(Envelopes)
           /\ \A i \in Ids : received'[i] = received[i]
           /\ Ids = 1..Len(received) /\ Ids' = 1..(Len(received) + 1)
<1>0. Len(received) \in Nat
  BY LenProperties DEF TypeInv, NetTypes
<1>1. PICK x : x \in Unsent /\ received' = Append(received, x)
  <2>1. Unsent \subseteq 1..Total /\ Unsent # {}
    BY DEF TypeInv, NetTypes, Deliver, Unsent, Envelopes
  <2>0. Total \in Nat
    BY ReceiverAssumption
  <2>2. IsFiniteSet(1..Total) /\ 1..Total \subseteq Nat
    BY <2>0, FS_Interval
  <2>3. IsFiniteSet(Unsent) /\ Unsent \in SUBSET Nat
    BY <2>1, <2>2, FS_Subset
  <2>4. \E x \in Unsent : \A y \in Unsent : x <= y
    BY <2>1, <2>3, SmallestExists
  <2>. QED
    BY <2>4 DEF Deliver
<1>2. x \in Envelopes /\ received \in Seq(Envelopes)
  BY <1>1 DEF TypeInv, NetTypes, Unsent
<1>3. /\ received' \in Seq(Envelopes) /\ Len(received') = Len(received) + 1
      /\ \A i \in 1..Len(received) : received'[i] = received[i]
  BY <1>1, <1>2, AppendProperties
<1>. QED
  BY <1>0, <1>3 DEF Ids

\* handleRequest: a new column in the table, and a task on the incoming queue.
LEMMA TypesDeliver == ASSUME TypeInv, Deliver PROVE TypeInv'
<1> DEFINE n == Len(received) + 1
<1>0. Len(received) \in Nat
  BY LenProperties DEF TypeInv, NetTypes
<1>1. /\ received' \in Seq(Envelopes) /\ Len(received') = n
      /\ Ids' = 1..n /\ Ids = 1..Len(received) /\ Ids \subseteq Ids'
  BY <1>0, NewDelivery
<1>2. PICK e \in Entries :
          /\ incoming' = Append(incoming, e)
          /\ e.kind = "message" /\ e.id = n
  <2>1. Entry("message", Len(received'), 0, TRUE) = Entry("message", n, 0, TRUE)
    BY <1>1
  <2>2. Entry("message", n, 0, TRUE) \in Entries
    BY <1>0 DEF Entry, Entries
  <2>3. /\ Entry("message", n, 0, TRUE).kind = "message"
        /\ Entry("message", n, 0, TRUE).id = n
    BY DEF Entry
  <2>. QED
    BY <2>1, <2>2, <2>3 DEF Deliver
<1>3. incoming' \in Queue /\ ToSet(incoming') = ToSet(incoming) \cup {e}
  <2>1. incoming \in Queue
    BY DEF TypeInv, QueueTypes
  <2>. QED
    BY <1>2, <2>1, QueueAppend
<1>4. NetTypes'
  BY <1>0, <1>1 DEF TypeInv, NetTypes, Deliver
<1>5. QueueTypes' /\ BatchTypes'
  BY <1>3 DEF TypeInv, QueueTypes, BatchTypes, Deliver
<1>6. WorkTypes'
  BY <1>0, <1>1 DEF TypeInv, WorkTypes, Deliver, flags
<1>7. DiskTypes'
  <2>1. /\ rows' \in [Ids' -> {"none", "encrypted", "decrypted"}]
        /\ attempts' \in [Ids' -> Nat]
    <3>1. /\ rows \in [1..Len(received) -> {"none", "encrypted", "decrypted"}]
          /\ attempts \in [1..Len(received) -> Nat]
      BY DEF TypeInv, DiskTypes, Ids
    <3>2. /\ rows' = Append(rows, "none") /\ attempts' = Append(attempts, 0)
          /\ "none" \in {"none", "encrypted", "decrypted"} /\ 0 \in Nat
      BY DEF Deliver
    <3>. QED
      BY <1>0, <1>1, <3>1, <3>2, ColumnAppend
  <2>. QED
    BY <2>1 DEF TypeInv, DiskTypes, Deliver
<1>8. Fit'
  <2>1. ASSUME NEW x \in Entries, NEW K, Fits(x, K) PROVE Fits(x, K)'
    BY <1>0, <1>1, <2>1 DEF Fits, Entries
  <2>2. /\ incoming \in Queue /\ items \in Queue /\ encrypted \in Queue
        /\ decrypted \in Queue /\ app \in Queue /\ batch.items \in Queue
        /\ batch.plain \in Queue /\ batch.failed \in Queue
        /\ zombies \in SUBSET Entries
    BY DEF TypeInv, QueueTypes, BatchTypes
  <2>3. /\ \A x \in ToSet(incoming) : x \in Entries
        /\ \A x \in ToSet(items) \cup ToDecrypt \cup zombies : x \in Entries
        /\ \A x \in ToSet(encrypted) : x \in Entries
        /\ \A x \in ToSet(decrypted) : x \in Entries
        /\ \A x \in ToSet(app) : x \in Entries
    BY <2>2, QueueSet DEF ToDecrypt
  <2>4. /\ \A x \in ToSet(incoming) :
              Fits(x, {"message", "cached", "empty", "drained"})'
        /\ \A x \in ToSet(items) \cup ToDecrypt \cup zombies :
              Fits(x, {"decrypt"})'
        /\ \A x \in ToSet(encrypted) :
              Fits(x, {"decrypt", "handoff", "empty"})'
        /\ \A x \in ToSet(decrypted) :
              Fits(x, {"handle", "error", "empty", "scheduleRetry"})'
        /\ \A x \in ToSet(app) : Fits(x, {"handle", "empty"})'
    BY <2>1, <2>3 DEF TypeInv, Fit
  <2>5. Fits(e, {"message", "cached", "empty", "drained"})'
    <3>1. n \in Ids' /\ n <= Len(received')
      BY <1>0, <1>1
    <3>2. e.kind \in {"message", "cached", "empty", "drained"}
      BY <1>2
    <3>. QED
      BY <1>2, <3>1, <3>2 DEF Fits
  <2>6. UNCHANGED <<items, batch, zombies, encrypted, decrypted, app>>
    BY DEF Deliver
  <2>7. ToDecrypt' = ToDecrypt
    BY <2>6 DEF ToDecrypt
  <2>8. \A x \in ToSet(incoming') :
           Fits(x, {"message", "cached", "empty", "drained"})'
    <3>1. ASSUME NEW x \in ToSet(incoming')
          PROVE  Fits(x, {"message", "cached", "empty", "drained"})'
      <4>1. CASE x \in ToSet(incoming)
        BY <2>4, <4>1
      <4>2. CASE x = e
        BY <2>5, <4>2
      <4>. QED
        BY <1>3, <3>1, <4>1, <4>2
    <3>. QED
      BY <3>1
  <2>. QED
    BY <2>4, <2>6, <2>7, <2>8 DEF Fit
<1>9. Phases'
  BY DEF TypeInv, Phases, Deliver
<1>. QED
  BY <1>4, <1>5, <1>6, <1>7, <1>8, <1>9 DEF TypeInv

\* The server has nothing more, or the retry timer fires.
LEMMA TypesDeliverEmpty ==
    ASSUME TypeInv, DeliverEmpty \/ RetryFires PROVE TypeInv'
<1>0. Len(received) \in Nat
  BY LenProperties DEF TypeInv, NetTypes
<1>1. PICK e \in Entries :
          /\ Fits(e, {"cached", "empty"})
          /\ incoming' = Append(incoming, e)
  <2>1. CASE DeliverEmpty
    <3> DEFINE x == Plain("empty", Len(received))
    <3>1. x \in Entries /\ x.kind = "empty" /\ x.id = Len(received) /\ ~x.live
      BY <1>0 DEF Plain, Entry, Entries
    <3>2. Fits(x, {"cached", "empty"})
      BY <1>0, <3>1 DEF Fits, Carriers
    <3>. QED
      BY <2>1, <3>1, <3>2 DEF DeliverEmpty
  <2>2. CASE RetryFires
    <3> DEFINE x == Plain("cached", 0)
    <3>1. x \in Entries /\ x.kind = "cached" /\ x.id = 0 /\ ~x.live
      BY DEF Plain, Entry, Entries
    <3>2. Fits(x, {"cached", "empty"})
      BY <1>0, <3>1 DEF Fits, Carriers
    <3>. QED
      BY <2>2, <3>1, <3>2 DEF RetryFires
  <2>. QED
    BY <2>1, <2>2
<1>2. incoming' \in Queue /\ ToSet(incoming') = ToSet(incoming) \cup {e}
  BY <1>1, QueueAppend DEF TypeInv, QueueTypes
<1>3. /\ told' \in BOOLEAN /\ retry' \in BOOLEAN
      /\ spent' \in [crashes : Nat, reconnects : Nat, retries : Nat]
      /\ UNCHANGED <<server, conn, base, received, draining, items, batch,
                     zombies, zone, encrypted, decrypted, app, working,
                     removals, emptied, stopping, disk>>
  <2>1. CASE DeliverEmpty
    BY <2>1 DEF TypeInv, WorkTypes, DiskTypes, DeliverEmpty, flags
  <2>2. CASE RetryFires
    <3>1. spent' \in [crashes : Nat, reconnects : Nat, retries : Nat]
      BY <2>2 DEF TypeInv, DiskTypes, RetryFires
    <3>. QED
      BY <2>2, <3>1 DEF TypeInv, NetTypes, RetryFires, net
  <2>. QED
    BY <2>1, <2>2
<1>4. NetTypes' /\ QueueTypes' /\ BatchTypes' /\ WorkTypes' /\ DiskTypes'
  BY <1>2, <1>3 DEF TypeInv, NetTypes, QueueTypes, BatchTypes, WorkTypes,
     DiskTypes, disk, Ids
<1>5. Fit' /\ Phases'
  BY <1>1, <1>2, <1>3 DEF TypeInv, Fit, Fits, ToDecrypt, Phases, Ids
<1>. QED
  BY <1>4, <1>5 DEF TypeInv

-----------------------------------------------------------------------------
\* The rows a fetch reads, in the order of their ids.
LEMMA ByReceivedAtFacts ==
    ASSUME NEW T \in SUBSET Nat, IsFiniteSet(T)
    PROVE  /\ ByReceivedAt(T) \in Seq(T) /\ ToSet(ByReceivedAt(T)) = T
           /\ \A i, j \in DOMAIN ByReceivedAt(T) :
                 i # j => ByReceivedAt(T)[i] # ByReceivedAt(T)[j]
<1>1. Sorting(ByReceivedAt(T), T)
  BY SortExists DEF Sorting, ByReceivedAt
<1>2. /\ ByReceivedAt(T) \in Seq(T) /\ ToSet(ByReceivedAt(T)) = T
      /\ \A n : Once(ByReceivedAt(T), n)
  BY <1>1, SortedFacts
<1>. QED
  BY <1>2 DEF Once

\* queueAllCached: the entries of the rows that were fetched.
Requeued(kind, ids) ==
    [i \in DOMAIN ids |-> Entry(kind, ids[i], attempts[ids[i]] + 1, FALSE)]
Cached == {n \in Ids : rows[n] # "none"}
Worn == {n \in Cached : attempts[n] >= MaxAttempts}
Fetched(row) == ByReceivedAt({n \in Cached \ Worn : rows[n] = row})

\* They are those of rows in the database, each once, in the order of their ids.
LEMMA RequeuedFacts ==
    ASSUME TypeInv, NEW row, NEW kind \in {"decrypt", "handoff"}
    PROVE  /\ Requeued(kind, Fetched(row)) \in Queue
           /\ \A x \in ToSet(Requeued(kind, Fetched(row))) :
                 /\ x.kind = kind /\ ~x.live
                 /\ x.id \in Cached \ Worn /\ rows[x.id] = row
           /\ InOrder(Requeued(kind, Fetched(row)))
           /\ Distinct(Requeued(kind, Fetched(row)))
<1> DEFINE T == {n \in Cached \ Worn : rows[n] = row}
           t == Fetched(row)
           q == Requeued(kind, Fetched(row))
<1>1. T \in SUBSET Ids /\ IsFiniteSet(T) /\ T \in SUBSET Nat
  <2>1. Len(received) \in Nat
    BY LenProperties DEF TypeInv, NetTypes
  <2>2. IsFiniteSet(Ids) /\ Ids \subseteq Nat
    BY <2>1, FS_Interval DEF Ids
  <2>3. T \in SUBSET Ids
    BY DEF Cached
  <2>. QED
    BY <2>2, <2>3, FS_Subset
<1>2. /\ t \in Seq(T) /\ ToSet(t) = T
      /\ \A i, j \in DOMAIN t : i # j => t[i] # t[j]
  <2>1. t = ByReceivedAt(T)
    BY DEF Fetched
  <2>. QED
    BY <1>1, <2>1, ByReceivedAtFacts
<1>3. Len(t) \in Nat /\ DOMAIN t = 1..Len(t) /\ \A i \in DOMAIN t : t[i] \in T
  BY <1>2, LenProperties
<1>4. DOMAIN q = 1..Len(t)
  BY <1>3 DEF Requeued
<1>5. ASSUME NEW i \in DOMAIN t
      PROVE  /\ q[i] \in Entries /\ q[i].id = t[i] /\ q[i].kind = kind
             /\ ~q[i].live
  <2>1. t[i] \in Ids /\ t[i] \in Nat /\ attempts[t[i]] + 1 \in Nat
    BY <1>1, <1>3 DEF TypeInv, DiskTypes
  <2>2. q[i] = Entry(kind, t[i], attempts[t[i]] + 1, FALSE)
    BY DEF Requeued
  <2>. QED
    BY <2>1, <2>2 DEF Entry, Entries
<1>6. q \in Queue
  <2>1. q \in [1..Len(t) -> Entries]
    BY <1>3, <1>4, <1>5 DEF Requeued
  <2>. QED
    BY <1>3, <2>1, SeqDef DEF Queue
<1>7. \A x \in ToSet(q) : /\ x.kind = kind /\ ~x.live
                          /\ x.id \in Cached \ Worn /\ rows[x.id] = row
  BY <1>3, <1>4, <1>5 DEF ToSet
<1>8. InOrder(q)
  <2>1. ASSUME NEW i \in DOMAIN q, NEW j \in DOMAIN q, i < j
        PROVE  <<q[i], q[j]>> \in {p \in Entries \X Entries : Precedes(p[1], p[2])}
    <3>1. q[i] \in Entries /\ q[j] \in Entries /\ ~q[j].live
      BY <1>3, <1>4, <1>5
    <3>2. Precedes(q[i], q[j])
      BY <3>1 DEF Precedes
    <3>. QED
      BY <3>1, <3>2
  <2>. QED
    BY <2>1 DEF InOrder, Pairwise
<1>9. Distinct(q)
  <2>1. ASSUME NEW i \in DOMAIN q, NEW j \in DOMAIN q, i < j
        PROVE  <<q[i], q[j]>> \in {p \in Entries \X Entries : Differ(p[1], p[2])}
    <3>1. /\ q[i] \in Entries /\ q[j] \in Entries
          /\ q[i].id = t[i] /\ q[j].id = t[j]
      BY <1>3, <1>4, <1>5
    <3>2. i # j /\ i \in DOMAIN t /\ j \in DOMAIN t
      BY <1>3, <1>4, <2>1
    <3>3. t[i] # t[j]
      BY <1>2, <3>2
    <3>4. Differ(q[i], q[j])
      BY <3>1, <3>3 DEF Differ
    <3>. QED
      BY <3>1, <3>4
  <2>. QED
    BY <2>1 DEF Distinct, Pairwise
<1>. QED
  BY <1>6, <1>7, <1>8, <1>9

\* queueAllCached, in the terms above.
LEMMA LoadsRows ==
    ASSUME QueueAllCached, ~stopping
    PROVE  /\ rows' = [n \in Ids |-> IF n \in Worn THEN "none" ELSE rows[n]]
           /\ attempts' = [n \in Ids |-> attempts[n]
                               + (IF n \in Cached \ Worn THEN 1 ELSE 0)]
           /\ settled' = settled \cup EnvelopesOf(Worn)
           /\ items' = items \o Requeued("decrypt", Fetched("encrypted"))
           /\ encrypted' = encrypted \o Requeued("handoff", Fetched("decrypted"))
BY DEF QueueAllCached, Requeued, Fetched, Cached, Worn

\* queueAllCached.
LEMMA TypesQueueAllCached == ASSUME TypeInv, QueueAllCached PROVE TypeInv'
<1>0. /\ incoming' = Tail(incoming) /\ incoming # <<>>
      /\ UNCHANGED <<net, draining, batch, zombies, zone, decrypted, app,
                     working, removals, flags, used, saved, spent>>
  BY DEF QueueAllCached
<1>1. /\ incoming' \in Queue
      /\ ToSet(incoming') \subseteq ToSet(incoming)
  BY <1>0, QueueTail DEF TypeInv, QueueTypes
<1>2. CASE stopping
  <2>1. UNCHANGED <<items, encrypted, rows, attempts, settled>>
    BY <1>2 DEF QueueAllCached
  <2>2. NetTypes' /\ QueueTypes' /\ BatchTypes' /\ WorkTypes' /\ DiskTypes'
    BY <1>0, <1>1, <2>1 DEF TypeInv, NetTypes, QueueTypes, BatchTypes,
       WorkTypes, DiskTypes, net, flags, Ids
  <2>3. Fit' /\ Phases'
    BY <1>0, <1>1, <2>1 DEF TypeInv, Fit, Fits, ToDecrypt, Phases, net, Ids
  <2>. QED
    BY <2>2, <2>3 DEF TypeInv
<1>3. CASE ~stopping
  <2> DEFINE I == Requeued("decrypt", Fetched("encrypted"))
             E == Requeued("handoff", Fetched("decrypted"))
  <2>1. /\ items' = items \o I /\ encrypted' = encrypted \o E
        /\ rows' = [n \in Ids |-> IF n \in Worn THEN "none" ELSE rows[n]]
        /\ attempts' = [n \in Ids |-> attempts[n]
                            + (IF n \in Cached \ Worn THEN 1 ELSE 0)]
        /\ settled' = settled \cup EnvelopesOf(Worn)
    BY <1>3, LoadsRows
  <2>2. /\ I \in Queue /\ E \in Queue
        /\ \A x \in ToSet(I) : x.kind = "decrypt" /\ ~x.live /\ x.id \in Ids
        /\ \A x \in ToSet(E) : x.kind = "handoff" /\ ~x.live /\ x.id \in Ids
    BY RequeuedFacts DEF Cached
  <2> HIDE DEF I, E
  <2>3. /\ items' \in Queue /\ ToSet(items') = ToSet(items) \cup ToSet(I)
        /\ encrypted' \in Queue
        /\ ToSet(encrypted') = ToSet(encrypted) \cup ToSet(E)
    <3>1. items \in Queue /\ encrypted \in Queue
      BY DEF TypeInv, QueueTypes
    <3>. QED
      BY <2>1, <2>2, <3>1, QueueConcat
  <2>4. NetTypes' /\ QueueTypes' /\ BatchTypes' /\ WorkTypes'
    BY <1>0, <1>1, <2>3 DEF TypeInv, NetTypes, QueueTypes, BatchTypes,
       WorkTypes, net, flags, Ids
  <2>5. DiskTypes'
    <3>1. rows' \in [Ids -> {"none", "encrypted", "decrypted"}]
      BY <2>1 DEF TypeInv, DiskTypes
    <3>2. attempts' \in [Ids -> Nat]
      BY <2>1 DEF TypeInv, DiskTypes
    <3>3. settled' \in SUBSET Envelopes
      <4>1. \A n \in Ids : received[n] \in Envelopes
        BY ElementOfSeq DEF TypeInv, NetTypes, Ids
      <4>. QED
        BY <2>1, <4>1 DEF TypeInv, DiskTypes, EnvelopesOf, Worn, Cached
    <3>. QED
      BY <1>0, <3>1, <3>2, <3>3 DEF TypeInv, DiskTypes, net, Ids
  <2>6. Fit'
    <3>1. \A x \in ToSet(I) : Fits(x, {"decrypt"})
      BY <2>2, LenProperties DEF Fits, Ids, TypeInv, NetTypes
    <3>2. \A x \in ToSet(E) : Fits(x, {"decrypt", "handoff", "empty"})
      BY <2>2, LenProperties DEF Fits, Ids, TypeInv, NetTypes
    <3>. QED
      BY <1>0, <1>1, <2>3, <3>1, <3>2
         DEF TypeInv, Fit, Fits, ToDecrypt, net, Ids
  <2>7. Phases'
    BY <1>0, <2>2, <2>3 DEF TypeInv, Phases
  <2>. QED
    BY <2>4, <2>5, <2>6, <2>7 DEF TypeInv
<1>. QED
  BY <1>2, <1>3

\* decryptAndCacheBatch begins: the zone is entered.
LEMMA TypesStartBatch == ASSUME TypeInv, StartBatch PROVE TypeInv'
<1>1. PICK k \in 1..Len(items) :
          /\ batch' = [NoBatch EXCEPT !.phase = "decrypting",
                                      !.items = SubSeq(items, 1, k)]
          /\ items' = SubSeq(items, k + 1, Len(items))
          /\ encrypted' = encrypted \o SubSeq(items, 1, k)
  BY DEF StartBatch
<1> DEFINE first == SubSeq(items, 1, k)
<1>2. /\ first \in Queue /\ items' \in Queue
      /\ ToSet(first) \subseteq ToSet(items)
      /\ ToSet(items') \subseteq ToSet(items)
  BY <1>1, QueueSplit DEF TypeInv, QueueTypes
<1>3. /\ batch'.phase = "decrypting" /\ batch'.items = first
      /\ batch'.plain = <<>> /\ batch'.failed = <<>>
      /\ batch'.used = {} /\ batch'.dropped = {}
      /\ batch' = [phase |-> "decrypting", items |-> first, plain |-> <<>>,
                   failed |-> <<>>, used |-> {}, dropped |-> {}]
  BY <1>1 DEF NoBatch
<1>4. encrypted' = encrypted \o first
  BY <1>1
<1> HIDE DEF first
<1>5. /\ encrypted' \in Queue
      /\ ToSet(encrypted') = ToSet(encrypted) \cup ToSet(first)
  BY <1>2, <1>4, QueueConcat DEF TypeInv, QueueTypes
<1>6. NetTypes' /\ QueueTypes' /\ WorkTypes' /\ DiskTypes'
  BY <1>2, <1>5 DEF TypeInv, NetTypes, QueueTypes, WorkTypes, DiskTypes,
     StartBatch, net, flags, disk, Ids
<1>7. BatchTypes'
  <2>1. zombies' = zombies /\ zone' = "held" /\ <<>> \in Queue
    BY QueueEmpty DEF StartBatch
  <2>. QED
    BY <1>2, <1>3, <2>1 DEF TypeInv, BatchTypes
<1>8. Fit'
  <2>1. ToDecrypt' \subseteq ToSet(items)
    BY <1>2, <1>3, QueueEmpty DEF ToDecrypt
  <2>2. UNCHANGED <<received, incoming, zombies, decrypted, app>>
    BY DEF StartBatch, net
  <2>. QED
    BY <1>2, <1>5, <2>1, <2>2 DEF TypeInv, Fit, Fits, Ids
<1>9. Phases'
  BY <1>3 DEF Phases, StartBatch
<1>. QED
  BY <1>6, <1>7, <1>8, <1>9 DEF TypeInv

\* The envelope of a queued row.
LEMMA ReceivedEnvelope == ASSUME TypeInv, NEW n \in Ids PROVE received[n] \in Envelopes
BY ElementOfSeq DEF TypeInv, NetTypes, Ids

\* What the six outcomes of a decryption have in common.
DecryptEffect(it, p, f, u, d) ==
    /\ encrypted # <<>> /\ it = Head(encrypted) /\ it.kind = "decrypt"
    /\ encrypted' = Tail(encrypted)
    /\ batch' = [batch EXCEPT !.plain = p, !.failed = f, !.used = u, !.dropped = d]
    /\ UNCHANGED <<net, incoming, draining, items, zone, app, working, flags,
                   disk, spent>>

Rejected(it) ==
    /\ DecryptEffect(it, batch.plain, Append(batch.failed, it), batch.used,
                     batch.dropped)

\* The six outcomes, by what each does besides.
LEMMA DecryptOutcomes ==
    ASSUME TypeInv, NEW it
    PROVE  /\ DecryptSucceeds(it) =>
                /\ DecryptEffect(it, Append(batch.plain, it), batch.failed,
                       batch.used \cup {received[it.id]}, batch.dropped)
                /\ UNCHANGED <<decrypted, removals, zombies>>
                /\ ~Spent(received[it.id])
           /\ DecryptDrops(it) =>
                /\ DecryptEffect(it, batch.plain, batch.failed,
                       batch.used \cup {received[it.id]},
                       batch.dropped \cup {received[it.id]})
                /\ removals' = removals \cup {it.id}
                /\ UNCHANGED <<decrypted, zombies>>
           /\ DecryptRepeats(it) =>
                /\ Rejected(it) /\ Spent(received[it.id])
                /\ removals' = removals \cup {it.id}
                /\ UNCHANGED <<decrypted, zombies>>
           /\ DecryptErrs(it) =>
                /\ Rejected(it)
                /\ decrypted' = Append(decrypted, Plain("error", it.id))
                /\ UNCHANGED <<removals, zombies>>
           /\ DecryptStopped(it) =>
                /\ Rejected(it) /\ UNCHANGED <<decrypted, removals, zombies>>
           /\ DecryptTimesOut(it) =>
                /\ Rejected(it) /\ zombies' = zombies \cup {it}
                /\ UNCHANGED <<decrypted, removals>>
<1>1. batch \in [phase : {"idle", "decrypting", "stored"},
                 items : Queue, plain : Queue, failed : Queue,
                 used : SUBSET Envelopes, dropped : SUBSET Envelopes]
  BY DEF TypeInv, BatchTypes
<1>2. ASSUME NEW p, NEW u
      PROVE  [batch EXCEPT !.plain = p, !.used = u]
               = [batch EXCEPT !.plain = p, !.failed = batch.failed,
                               !.used = u, !.dropped = batch.dropped]
  BY <1>1
<1>3. ASSUME NEW u, NEW d
      PROVE  [batch EXCEPT !.used = u, !.dropped = d]
               = [batch EXCEPT !.plain = batch.plain, !.failed = batch.failed,
                               !.used = u, !.dropped = d]
  BY <1>1
<1>4. ASSUME NEW f
      PROVE  [batch EXCEPT !.failed = f]
               = [batch EXCEPT !.plain = batch.plain, !.failed = f,
                               !.used = batch.used, !.dropped = batch.dropped]
  BY <1>1
<1>5. DecryptSucceeds(it) =>
        /\ DecryptEffect(it, Append(batch.plain, it), batch.failed,
               batch.used \cup {received[it.id]}, batch.dropped)
        /\ UNCHANGED <<decrypted, removals, zombies>>
        /\ ~Spent(received[it.id])
  BY <1>2 DEF DecryptSucceeds, DecryptEffect, Decrypting
<1>6. DecryptDrops(it) =>
        /\ DecryptEffect(it, batch.plain, batch.failed,
               batch.used \cup {received[it.id]},
               batch.dropped \cup {received[it.id]})
        /\ removals' = removals \cup {it.id}
        /\ UNCHANGED <<decrypted, zombies>>
  BY <1>3 DEF DecryptDrops, DecryptEffect, Decrypting
<1>7. DecryptRepeats(it) =>
        /\ Rejected(it) /\ Spent(received[it.id])
        /\ removals' = removals \cup {it.id}
        /\ UNCHANGED <<decrypted, zombies>>
  BY <1>4 DEF DecryptRepeats, DecryptEffect, Decrypting, Rejected
<1>8. DecryptErrs(it) =>
        /\ Rejected(it)
        /\ decrypted' = Append(decrypted, Plain("error", it.id))
        /\ UNCHANGED <<removals, zombies>>
  BY <1>4 DEF DecryptErrs, DecryptEffect, Decrypting, Rejected
<1>9. DecryptStopped(it) =>
        Rejected(it) /\ UNCHANGED <<decrypted, removals, zombies>>
  BY <1>4 DEF DecryptStopped, DecryptEffect, Decrypting, Rejected
<1>10. DecryptTimesOut(it) =>
        /\ Rejected(it) /\ zombies' = zombies \cup {it}
        /\ UNCHANGED <<decrypted, removals>>
  BY <1>4 DEF DecryptTimesOut, DecryptEffect, Decrypting, Rejected
<1>. QED
  BY <1>5, <1>6, <1>7, <1>8, <1>9, <1>10

\* A decryption begins and ends within the batch.
LEMMA TypesEffect ==
    ASSUME TypeInv, NEW it, NEW p \in Queue, NEW f \in Queue,
           NEW u \in SUBSET Envelopes, NEW d \in SUBSET Envelopes,
           ToSet(p) \subseteq ToSet(batch.plain) \cup {it},
           ToSet(f) \subseteq ToSet(batch.failed) \cup {it},
           DecryptEffect(it, p, f, u, d),
           zombies' \subseteq zombies \cup {it},
           removals' \subseteq removals \cup {it.id},
           decrypted' \in {decrypted, Append(decrypted, Plain("error", it.id))}
    PROVE  TypeInv'
<1>1. /\ encrypted' \in Queue /\ it \in Entries
      /\ ToSet(encrypted) = {it} \cup ToSet(encrypted')
  BY QueueTail DEF TypeInv, QueueTypes, DecryptEffect
<1>2. Fits(it, {"decrypt"}) /\ it.id \in Ids /\ it.kind = "decrypt"
  BY <1>1 DEF TypeInv, Fit, Fits, Carriers, DecryptEffect
<1>3. batch.phase = "decrypting"
  BY <1>1, <1>2 DEF TypeInv, Phases, BatchTypes
<1>4. /\ batch'.phase = "decrypting" /\ batch'.items = batch.items
      /\ batch'.plain = p /\ batch'.failed = f
      /\ batch' \in [phase : {"idle", "decrypting", "stored"},
                     items : Queue, plain : Queue, failed : Queue,
                     used : SUBSET Envelopes, dropped : SUBSET Envelopes]
  BY <1>3 DEF TypeInv, BatchTypes, DecryptEffect
<1>5. UNCHANGED <<net, incoming, draining, items, zone, app, working, flags,
                  disk, spent>>
  BY DEF DecryptEffect
<1>6. /\ decrypted' \in Queue
      /\ \A x \in ToSet(decrypted') :
            Fits(x, {"handle", "error", "empty", "scheduleRetry"})
  <2>1. decrypted \in Queue
    BY DEF TypeInv, QueueTypes
  <2>2. CASE decrypted' = decrypted
    BY <2>1, <2>2 DEF TypeInv, Fit
  <2>3. CASE decrypted' = Append(decrypted, Plain("error", it.id))
    <3>1. /\ Plain("error", it.id) \in Entries
          /\ Fits(Plain("error", it.id),
                  {"handle", "error", "empty", "scheduleRetry"})
      BY <1>1, <1>2 DEF Plain, Entry, Entries, Fits
    <3>2. /\ decrypted' \in Queue
          /\ ToSet(decrypted') = ToSet(decrypted) \cup {Plain("error", it.id)}
      BY <2>1, <2>3, <3>1, QueueAppend
    <3>. QED
      BY <3>1, <3>2 DEF TypeInv, Fit
  <2>. QED
    BY <2>2, <2>3
<1>7. NetTypes' /\ QueueTypes' /\ DiskTypes'
  BY <1>1, <1>5, <1>6
     DEF TypeInv, NetTypes, QueueTypes, DiskTypes, net, disk, Ids
<1>8. BatchTypes' /\ WorkTypes'
  BY <1>1, <1>2, <1>4, <1>5 DEF TypeInv, BatchTypes, WorkTypes, net, flags, Ids
<1>9. Fit'
  <2>1. ToDecrypt' \subseteq ToDecrypt \cup {it}
    BY <1>4 DEF ToDecrypt
  <2>2. \A x \in ToDecrypt \cup {it} \cup zombies \cup ToSet(items) :
           Fits(x, {"decrypt"})
    BY <1>2 DEF TypeInv, Fit
  <2>. QED
    BY <1>1, <1>5, <1>6, <2>1, <2>2 DEF TypeInv, Fit, Fits, net, Ids
<1>10. Phases'
  BY <1>3, <1>4, <1>5 DEF TypeInv, Phases
<1>. QED
  BY <1>7, <1>8, <1>9, <1>10 DEF TypeInv

\* A decryption.
LEMMA TypesDecrypt == ASSUME TypeInv, NEW it, DecryptTask(it) PROVE TypeInv'
<1>1. /\ batch.plain \in Queue /\ batch.failed \in Queue
      /\ batch.used \in SUBSET Envelopes /\ batch.dropped \in SUBSET Envelopes
  BY DEF TypeInv, BatchTypes
<1>2. it \in Entries /\ it \in ToSet(encrypted)
  <2>1. encrypted # <<>> /\ it = Head(encrypted)
    BY DecryptOutcomes DEF DecryptTask, Rejected, DecryptEffect
  <2>. QED
    BY <2>1, QueueTail DEF TypeInv, QueueTypes
<1>3. received[it.id] \in Envelopes
  <2>1. it.kind = "decrypt"
    BY DecryptOutcomes DEF DecryptTask, Rejected, DecryptEffect
  <2>2. it.id \in Ids
    BY <1>2, <2>1 DEF TypeInv, Fit, Fits, Carriers
  <2>. QED
    BY <2>2, ReceivedEnvelope
<1>4. /\ Append(batch.plain, it) \in Queue
      /\ ToSet(Append(batch.plain, it)) = ToSet(batch.plain) \cup {it}
      /\ Append(batch.failed, it) \in Queue
      /\ ToSet(Append(batch.failed, it)) = ToSet(batch.failed) \cup {it}
  BY <1>1, <1>2, QueueAppend
<1>5. CASE DecryptSucceeds(it)
  <2>1. /\ DecryptEffect(it, Append(batch.plain, it), batch.failed,
               batch.used \cup {received[it.id]}, batch.dropped)
        /\ UNCHANGED <<decrypted, removals, zombies>>
    BY <1>5, DecryptOutcomes
  <2>2. batch.used \cup {received[it.id]} \in SUBSET Envelopes
    BY <1>1, <1>3
  <2>. QED
    BY <1>1, <1>4, <2>1, <2>2, TypesEffect
<1>6. CASE DecryptDrops(it)
  <2>1. /\ DecryptEffect(it, batch.plain, batch.failed,
               batch.used \cup {received[it.id]},
               batch.dropped \cup {received[it.id]})
        /\ removals' = removals \cup {it.id}
        /\ UNCHANGED <<decrypted, zombies>>
    BY <1>6, DecryptOutcomes
  <2>2. /\ batch.used \cup {received[it.id]} \in SUBSET Envelopes
        /\ batch.dropped \cup {received[it.id]} \in SUBSET Envelopes
    BY <1>1, <1>3
  <2>. QED
    BY <1>1, <1>4, <2>1, <2>2, TypesEffect
<1>7. CASE Rejected(it) /\ zombies' \subseteq zombies \cup {it}
           /\ removals' \subseteq removals \cup {it.id}
           /\ decrypted' \in {decrypted, Append(decrypted, Plain("error", it.id))}
  <2>1. DecryptEffect(it, batch.plain, Append(batch.failed, it), batch.used,
                      batch.dropped)
    BY <1>7 DEF Rejected
  <2>. QED
    BY <1>1, <1>4, <1>7, <2>1, TypesEffect
<1>. QED
  BY <1>5, <1>6, <1>7, DecryptOutcomes DEF DecryptTask

\* A decryption that has timed out succeeds.
LEMMA TypesZombie ==
    ASSUME TypeInv, NEW it \in zombies, ZombieSucceeds(it) PROVE TypeInv'
<1> DEFINE e == received[it.id]
<1>1. e \in Envelopes
  BY ReceivedEnvelope DEF TypeInv, Fit, Fits, Carriers
<1> HIDE DEF e
<1>2. /\ UNCHANGED <<net, incoming, draining, items, zombies, zone, encrypted,
                     decrypted, app, working, removals, flags, rows, attempts,
                     saved, settled, spent>>
      /\ \/ batch' = [batch EXCEPT !.used = @ \cup {e}] /\ UNCHANGED used
            /\ batch.phase = "decrypting"
         \/ used' = used \cup {e} /\ UNCHANGED batch
  BY DEF ZombieSucceeds, e
<1>3. /\ batch' \in [phase : {"idle", "decrypting", "stored"},
                     items : Queue, plain : Queue, failed : Queue,
                     used : SUBSET Envelopes, dropped : SUBSET Envelopes]
      /\ batch'.phase = batch.phase /\ batch'.items = batch.items
      /\ batch'.plain = batch.plain /\ batch'.failed = batch.failed
      /\ used' \in SUBSET Envelopes
      /\ batch.phase = "idle" => batch' = batch
  BY <1>1, <1>2 DEF TypeInv, BatchTypes, DiskTypes
<1>4. NetTypes' /\ QueueTypes' /\ BatchTypes' /\ WorkTypes' /\ DiskTypes'
  BY <1>2, <1>3 DEF TypeInv, NetTypes, QueueTypes, BatchTypes, WorkTypes,
     DiskTypes, net, flags, Ids
<1>5. Fit' /\ Phases'
  BY <1>2, <1>3 DEF TypeInv, Fit, Fits, ToDecrypt, Phases, net, Ids
<1>. QED
  BY <1>4, <1>5 DEF TypeInv

\* What is stored of a row that failed and was decrypted comes last.
LEMMA StoredTriesType ==
    ASSUME TypeInv, NEW n \in Stored PROVE StoredTries(n) \in Nat
<1> DEFINE all == batch.plain \o batch.failed
           places == {i \in DOMAIN all : all[i].id = n}
<1>1. /\ batch.plain \in Queue /\ batch.failed \in Queue
      /\ batch.plain \in Seq(Entries) /\ batch.failed \in Seq(Entries)
  BY DEF TypeInv, BatchTypes, Queue
<1>2. /\ all \in Queue /\ ToSet(all) = ToSet(batch.plain) \cup ToSet(batch.failed)
  BY <1>1, QueueConcat
<1>3. /\ Len(all) \in Nat /\ DOMAIN all = 1..Len(all)
      /\ \A i \in DOMAIN all : all[i] \in Entries
  BY <1>2, LenProperties, ElementOfSeq DEF Queue
<1> HIDE DEF all
<1>4. places \in SUBSET Nat /\ IsFiniteSet(places)
  <2>1. IsFiniteSet(1..Len(all)) /\ places \in SUBSET (1..Len(all))
    BY <1>3, FS_Interval
  <2>2. places \in SUBSET Nat
    BY <1>3
  <2>. QED
    BY <2>1, <2>2, FS_Subset
<1>5. places # {}
  <2>1. PICK x \in ToSet(batch.plain) \cup ToSet(batch.failed) : x.id = n
    BY DEF Stored, IdsIn, ToSet
  <2>2. x \in ToSet(all)
    BY <1>2, <2>1
  <2>. QED
    BY <2>1, <2>2 DEF ToSet
<1>6. \E i \in places : \A j \in places : j <= i
  BY <1>4, <1>5, LargestExists
<1> DEFINE last == CHOOSE i \in places : \A j \in places : j <= i
<1>7. last \in places
  BY <1>6
<1>8. StoredTries(n) = all[last].tries
  BY DEF StoredTries, all
<1> HIDE DEF last
<1>. QED
  BY <1>3, <1>7, <1>8 DEF Entries

\* The batch is committed.
LEMMA TypesCommitBatch == ASSUME TypeInv, CommitBatch PROVE TypeInv'
<1>1. /\ batch.phase = "decrypting"
      /\ \A x \in ToSet(encrypted) : x.kind # "decrypt"
      /\ batch' = [batch EXCEPT !.phase = "stored"] /\ zone' = "free"
      /\ UNCHANGED <<net, incoming, draining, items, zombies, encrypted,
                     decrypted, app, working, removals, flags, saved, spent>>
  BY DEF CommitBatch, AllDecrypted, ToSet
<1>2. /\ batch' \in [phase : {"idle", "decrypting", "stored"},
                     items : Queue, plain : Queue, failed : Queue,
                     used : SUBSET Envelopes, dropped : SUBSET Envelopes]
      /\ batch'.phase = "stored" /\ batch'.items = batch.items
      /\ batch'.plain = batch.plain /\ batch'.failed = batch.failed
  BY <1>1 DEF TypeInv, BatchTypes
<1>3. NetTypes' /\ QueueTypes' /\ BatchTypes' /\ WorkTypes'
  BY <1>1, <1>2 DEF TypeInv, NetTypes, QueueTypes, BatchTypes, WorkTypes,
     net, flags, Ids
<1>4. DiskTypes'
  <2>1. rows' \in [Ids -> {"none", "encrypted", "decrypted"}]
    BY DEF CommitBatch, StoredRow, TypeInv, DiskTypes
  <2>2. attempts' \in [Ids -> Nat]
    <3>1. /\ \A n \in Stored : StoredTries(n) \in Nat
          /\ attempts \in [Ids -> Nat]
      BY StoredTriesType DEF TypeInv, DiskTypes
    <3>2. attempts' = [n \in Ids |-> IF n \in Stored THEN StoredTries(n)
                                                     ELSE attempts[n]]
      BY DEF CommitBatch
    <3>. QED
      BY <3>1, <3>2
  <2>3. used' \in SUBSET Envelopes /\ settled' \in SUBSET Envelopes
    BY DEF CommitBatch, TypeInv, BatchTypes, DiskTypes
  <2>. QED
    BY <1>1, <2>1, <2>2, <2>3 DEF TypeInv, DiskTypes, net, Ids
<1>5. Fit' /\ Phases'
  BY <1>1, <1>2 DEF TypeInv, Fit, Fits, ToDecrypt, Phases, net, Ids
<1>. QED
  BY <1>3, <1>4, <1>5 DEF TypeInv

\* The commit is refused.
LEMMA TypesCommitFails == ASSUME TypeInv, CommitFails PROVE TypeInv'
<1>1. /\ batch' = NoBatch /\ zone' = "leaked"
      /\ UNCHANGED <<net, incoming, draining, items, zombies, encrypted,
                     decrypted, app, working, removals, flags, disk, spent>>
      /\ \A x \in ToSet(encrypted) : x.kind # "decrypt"
  BY DEF CommitFails, AllDecrypted, ToSet
<1>2. /\ batch' \in [phase : {"idle", "decrypting", "stored"},
                     items : Queue, plain : Queue, failed : Queue,
                     used : SUBSET Envelopes, dropped : SUBSET Envelopes]
      /\ ToDecrypt' = {} /\ batch'.phase = "idle"
  BY <1>1, QueueEmpty DEF NoBatch, ToDecrypt
<1>3. NetTypes' /\ QueueTypes' /\ BatchTypes' /\ WorkTypes' /\ DiskTypes'
  BY <1>1, <1>2 DEF TypeInv, NetTypes, QueueTypes, BatchTypes, WorkTypes,
     DiskTypes, net, flags, disk, Ids
<1>4. Fit' /\ Phases'
  BY <1>1, <1>2 DEF TypeInv, Fit, Fits, Phases, net, Ids
<1>. QED
  BY <1>3, <1>4 DEF TypeInv

\* The requests are answered and the plaintexts queued.
LEMMA AckedPlain ==
    ASSUME TypeInv, AckBatch
    PROVE  LET handles == Relabel(batch.plain, "handle")
               again == Plain("scheduleRetry", 0)
           IN  /\ handles \in Queue /\ again \in Entries
               /\ decrypted' = (decrypted \o handles) \o <<again>>
               /\ decrypted' \in Queue
               /\ ToSet(decrypted') = ToSet(decrypted) \cup ToSet(handles)
                                          \cup {again}
               /\ ToSet(handles)
                    = {[x EXCEPT !.kind = "handle"] : x \in ToSet(batch.plain)}
<1> DEFINE handles == Relabel(batch.plain, "handle")
           again == Plain("scheduleRetry", 0)
<1>1. batch.plain \in Queue /\ decrypted \in Queue
  BY DEF TypeInv, BatchTypes, QueueTypes
<1>2. again \in Entries
  BY DEF Plain, Entry, Entries
<1>3. /\ handles \in Queue
      /\ ToSet(handles)
           = {[x EXCEPT !.kind = "handle"] : x \in ToSet(batch.plain)}
  BY <1>1, QueueRelabel
<1>4. decrypted' = (decrypted \o handles) \o <<again>>
  BY DEF AckBatch
<1>5. <<again>> \in Queue /\ ToSet(<<again>>) = {again}
  <2>1. <<again>> = Append(<<>>, again)
    OBVIOUS
  <2>. QED
    BY <1>2, <2>1, QueueEmpty, QueueAppend
<1> HIDE DEF handles, again
<1>6. /\ decrypted \o handles \in Queue
      /\ ToSet(decrypted \o handles) = ToSet(decrypted) \cup ToSet(handles)
  BY <1>1, <1>3, QueueConcat
<1>7. /\ decrypted' \in Queue
      /\ ToSet(decrypted') = ToSet(decrypted) \cup ToSet(handles) \cup {again}
  BY <1>4, <1>5, <1>6, QueueConcat
<1>. QED
  BY <1>2, <1>3, <1>4, <1>7 DEF handles, again

\* The batch is acknowledged.
LEMMA TypesAckBatch == ASSUME TypeInv, AckBatch PROVE TypeInv'
<1>1. /\ batch' = NoBatch /\ batch.phase = "stored"
      /\ server' \subseteq server
      /\ UNCHANGED <<conn, base, told, received, incoming, draining, items,
                     zombies, zone, encrypted, app, working, removals, flags,
                     disk, spent>>
  BY DEF AckBatch
<1>2. /\ batch' \in [phase : {"idle", "decrypting", "stored"},
                     items : Queue, plain : Queue, failed : Queue,
                     used : SUBSET Envelopes, dropped : SUBSET Envelopes]
      /\ ToDecrypt' = {} /\ batch'.phase = "idle"
  BY <1>1, QueueEmpty DEF NoBatch, ToDecrypt
<1>3. /\ decrypted' \in Queue
      /\ \A x \in ToSet(decrypted') :
            Fits(x, {"handle", "error", "empty", "scheduleRetry"})
  <2> DEFINE again == Plain("scheduleRetry", 0)
  <2>1. /\ decrypted' \in Queue
        /\ ToSet(decrypted') = ToSet(decrypted) \cup {again} \cup
              {[x EXCEPT !.kind = "handle"] : x \in ToSet(batch.plain)}
    BY AckedPlain
  <2>2. Fits(again, {"handle", "error", "empty", "scheduleRetry"})
    BY LenProperties DEF TypeInv, NetTypes, Plain, Entry, Fits, Carriers
  <2>3. ASSUME NEW x \in ToSet(batch.plain)
        PROVE  Fits([x EXCEPT !.kind = "handle"],
                    {"handle", "error", "empty", "scheduleRetry"})
    <3>1. x \in Entries
      BY QueueSet DEF TypeInv, BatchTypes
    <3>2. Fits(x, {"decrypt"})
      BY DEF TypeInv, Fit, ToDecrypt
    <3>. QED
      BY <3>1, <3>2 DEF Fits, Carriers, Entries
  <2> HIDE DEF again
  <2>. QED
    BY <2>1, <2>2, <2>3 DEF TypeInv, Fit
<1>4. NetTypes' /\ QueueTypes' /\ BatchTypes' /\ WorkTypes' /\ DiskTypes'
  BY <1>1, <1>2, <1>3 DEF TypeInv, NetTypes, QueueTypes, BatchTypes, WorkTypes,
     DiskTypes, flags, disk, Ids
<1>5. Fit'
  BY <1>1, <1>2, <1>3 DEF TypeInv, Fit, Fits, Ids
<1>6. Phases'
  BY <1>1, <1>2 DEF TypeInv, Phases
<1>. QED
  BY <1>4, <1>5, <1>6 DEF TypeInv

\* The next task of the encrypted queue hands over.
LEMMA TypesPassToDecrypted == ASSUME TypeInv, PassToDecrypted PROVE TypeInv'
<1> DEFINE h == Head(encrypted)
<1>1. /\ h \in Entries /\ encrypted' \in Queue
      /\ ToSet(encrypted) = {h} \cup ToSet(encrypted')
      /\ h.kind \in {"handoff", "empty"}
  BY QueueTail DEF TypeInv, QueueTypes, PassToDecrypted
<1>2. PICK e \in Entries :
          /\ decrypted' = Append(decrypted, e)
          /\ e.kind = (IF h.kind = "handoff" THEN "handle" ELSE "empty")
          /\ e.id = h.id /\ e.live = h.live
  <2> DEFINE x == [h EXCEPT !.kind = IF @ = "handoff" THEN "handle" ELSE @]
  <2>1. decrypted' = Append(decrypted, x)
    BY DEF PassToDecrypted
  <2>2. /\ x \in Entries /\ x.id = h.id /\ x.live = h.live
        /\ x.kind = (IF h.kind = "handoff" THEN "handle" ELSE "empty")
    <3> HIDE DEF h
    <3>. QED
      BY <1>1 DEF Entries
  <2> HIDE DEF x
  <2>. QED
    BY <2>1, <2>2
<1>3. Fits(h, {"decrypt", "handoff", "empty"})
  BY <1>1 DEF TypeInv, Fit
<1>4. Fits(e, {"handle", "error", "empty", "scheduleRetry"})
  BY <1>1, <1>2, <1>3 DEF Fits, Carriers
<1> HIDE DEF h
<1>5. decrypted' \in Queue /\ ToSet(decrypted') = ToSet(decrypted) \cup {e}
  BY <1>2, QueueAppend DEF TypeInv, QueueTypes
<1>6. UNCHANGED <<net, incoming, draining, items, batch, zombies, zone, app,
                  working, removals, flags, disk, spent>>
  BY DEF PassToDecrypted
<1>7. NetTypes' /\ QueueTypes' /\ BatchTypes' /\ WorkTypes' /\ DiskTypes'
  BY <1>1, <1>5, <1>6 DEF TypeInv, NetTypes, QueueTypes, BatchTypes, WorkTypes,
     DiskTypes, net, flags, disk, Ids
<1>8. Fit'
  BY <1>1, <1>4, <1>5, <1>6 DEF TypeInv, Fit, Fits, ToDecrypt, net, Ids
<1>9. Phases'
  BY <1>1, <1>6 DEF TypeInv, Phases
<1>. QED
  BY <1>7, <1>8, <1>9 DEF TypeInv

\* The next task of the decrypted queue, and the application.
LEMMA TypesPassToApp == ASSUME TypeInv, PassToApp PROVE TypeInv'
<1> DEFINE h == Head(decrypted)
<1>1. /\ h \in Entries /\ decrypted' \in Queue
      /\ ToSet(decrypted) = {h} \cup ToSet(decrypted')
      /\ h.kind \in {"handle", "empty"}
      /\ app' \in {app, Append(app, h)}
      /\ Fits(h, {"handle", "empty"})
  BY QueueTail DEF TypeInv, QueueTypes, PassToApp, Fit, Fits
<1> HIDE DEF h
<1>2. app' \in Queue /\ ToSet(app') \subseteq ToSet(app) \cup {h}
  BY <1>1, QueueAppend DEF TypeInv, QueueTypes
<1>3. UNCHANGED <<net, incoming, draining, items, batch, zombies, zone,
                  encrypted, working, removals, flags, disk, spent>>
  BY DEF PassToApp
<1>4. NetTypes' /\ QueueTypes' /\ BatchTypes' /\ WorkTypes' /\ DiskTypes'
  BY <1>1, <1>2, <1>3 DEF TypeInv, NetTypes, QueueTypes, BatchTypes, WorkTypes,
     DiskTypes, net, flags, disk, Ids
<1>5. Fit'
  BY <1>1, <1>2, <1>3 DEF TypeInv, Fit, Fits, ToDecrypt, net, Ids
<1>6. Phases'
  BY <1>3 DEF TypeInv, Phases
<1>. QED
  BY <1>4, <1>5, <1>6 DEF TypeInv

\* The tasks of the decrypted queue and of the application that save nothing.
LEMMA TypesDispatch ==
    ASSUME TypeInv, DispatchError \/ ScheduleRetry \/ Dispatch \/ EmitEmpty
    PROVE  TypeInv'
<1>1. /\ decrypted' \in Queue /\ ToSet(decrypted') \subseteq ToSet(decrypted)
      /\ app' \in Queue /\ ToSet(app') \subseteq ToSet(app)
      /\ working' \in SUBSET [kind : {"handle", "saved", "error"}, id : Ids]
      /\ emptied' \in BOOLEAN /\ retry' \in BOOLEAN /\ stopping' = stopping
      /\ UNCHANGED <<net, incoming, draining, items, batch, zombies, zone,
                     encrypted, removals, disk, spent>>
  <2>1. CASE DispatchError
    <3>1. /\ Tail(decrypted) \in Queue /\ Head(decrypted).id \in Ids
          /\ ToSet(Tail(decrypted)) \subseteq ToSet(decrypted)
      <4>1. decrypted \in Queue /\ decrypted # <<>> /\ Head(decrypted).kind = "error"
        BY <2>1 DEF TypeInv, QueueTypes, DispatchError
      <4>. QED
        BY <4>1, QueueTail DEF TypeInv, Fit, Fits, Carriers
    <3>. QED
      BY <2>1, <3>1 DEF DispatchError, TypeInv, QueueTypes, WorkTypes, flags
  <2>2. CASE ScheduleRetry
    <3>1. decrypted \in Queue /\ decrypted # <<>>
      BY <2>2 DEF TypeInv, QueueTypes, ScheduleRetry
    <3>. QED
      BY <2>2, <3>1, QueueTail DEF ScheduleRetry, TypeInv, QueueTypes, WorkTypes
  <2>3. CASE Dispatch
    <3>1. /\ Tail(app) \in Queue /\ Head(app).id \in Ids
          /\ ToSet(Tail(app)) \subseteq ToSet(app)
      <4>1. app \in Queue /\ app # <<>> /\ Head(app).kind = "handle"
        BY <2>3 DEF TypeInv, QueueTypes, Dispatch
      <4>. QED
        BY <4>1, QueueTail DEF TypeInv, Fit, Fits, Carriers
    <3>. QED
      BY <2>3, <3>1 DEF Dispatch, TypeInv, QueueTypes, WorkTypes, flags
  <2>4. CASE EmitEmpty
    <3>1. app \in Queue /\ app # <<>>
      BY <2>4 DEF TypeInv, QueueTypes, EmitEmpty
    <3>. QED
      BY <2>4, <3>1, QueueTail DEF EmitEmpty, TypeInv, QueueTypes, WorkTypes
  <2>. QED
    BY <2>1, <2>2, <2>3, <2>4
<1>2. NetTypes' /\ QueueTypes' /\ BatchTypes' /\ WorkTypes' /\ DiskTypes'
  BY <1>1 DEF TypeInv, NetTypes, QueueTypes, BatchTypes, WorkTypes,
     DiskTypes, net, disk, Ids
<1>3. Fit' /\ Phases'
  BY <1>1 DEF TypeInv, Fit, Fits, ToDecrypt, Phases, net, Ids
<1>. QED
  BY <1>2, <1>3 DEF TypeInv

\* The handlers of the application.
LEMMA TypesHandle ==
    ASSUME TypeInv, NEW w \in working, Save(w) \/ Confirm(w) \/ HandlerFails(w)
    PROVE  TypeInv'
<1>0. /\ w \in [kind : {"handle", "saved", "error"}, id : Ids]
      /\ w.id \in Ids /\ received[w.id] \in Envelopes
  <2>1. w \in [kind : {"handle", "saved", "error"}, id : Ids]
    BY DEF TypeInv, WorkTypes
  <2>. QED
    BY <2>1, ReceivedEnvelope
<1>1. /\ working' \in SUBSET [kind : {"handle", "saved", "error"}, id : Ids]
      /\ removals' \in SUBSET Ids
      /\ saved' \in SUBSET Envelopes /\ settled' \in SUBSET Envelopes
      /\ UNCHANGED <<net, incoming, draining, items, batch, zombies, zone,
                     encrypted, decrypted, app, flags, rows, attempts, used,
                     spent>>
  <2>1. CASE Save(w)
    <3>1. [w EXCEPT !.kind = "saved"]
             \in [kind : {"handle", "saved", "error"}, id : Ids]
      BY <1>0
    <3>. QED
      BY <1>0, <2>1, <3>1 DEF Save, TypeInv, WorkTypes, DiskTypes
  <2>2. CASE Confirm(w)
    BY <1>0, <2>2 DEF Confirm, TypeInv, WorkTypes, DiskTypes
  <2>3. CASE HandlerFails(w)
    BY <1>0, <2>3 DEF HandlerFails, TypeInv, WorkTypes, DiskTypes, disk
  <2>. QED
    BY <2>1, <2>2, <2>3
<1>2. NetTypes' /\ QueueTypes' /\ BatchTypes' /\ WorkTypes' /\ DiskTypes'
  BY <1>1 DEF TypeInv, NetTypes, QueueTypes, BatchTypes, WorkTypes,
     DiskTypes, net, flags, Ids
<1>3. Fit' /\ Phases'
  BY <1>1 DEF TypeInv, Fit, Fits, ToDecrypt, Phases, net, Ids
<1>. QED
  BY <1>2, <1>3 DEF TypeInv

\* cacheRemoveBatch.
LEMMA TypesCacheRemove ==
    ASSUME TypeInv, NEW n \in removals, CacheRemove(n) PROVE TypeInv'
<1>1. /\ rows' \in [Ids -> {"none", "encrypted", "decrypted"}]
      /\ removals' \in SUBSET Ids
      /\ UNCHANGED <<net, incoming, draining, items, batch, zombies, zone,
                     encrypted, decrypted, app, working, flags, attempts,
                     used, saved, settled, spent>>
  BY DEF CacheRemove, TypeInv, WorkTypes, DiskTypes
<1>2. NetTypes' /\ QueueTypes' /\ BatchTypes' /\ WorkTypes' /\ DiskTypes'
  BY <1>1 DEF TypeInv, NetTypes, QueueTypes, BatchTypes, WorkTypes,
     DiskTypes, net, flags, Ids
<1>3. Fit' /\ Phases'
  BY <1>1 DEF TypeInv, Fit, Fits, ToDecrypt, Phases, net, Ids
<1>. QED
  BY <1>2, <1>3 DEF TypeInv

\* onEmpty.
LEMMA TypesOnEmpty ==
    ASSUME TypeInv, OnEmpty \/ WaitForIncomingQueue PROVE TypeInv'
<1> DEFINE h == Head(incoming)
<1>0. incoming \in Queue /\ incoming # <<>> /\ h.kind \in {"empty", "drained"}
  BY DEF TypeInv, QueueTypes, OnEmpty, WaitForIncomingQueue
<1>1. /\ h \in Entries /\ incoming' \in Queue
      /\ ToSet(incoming) = {h} \cup ToSet(incoming')
      /\ h.id \in 0..Len(received)
  <2>1. /\ h \in Entries /\ Tail(incoming) \in Queue
        /\ ToSet(incoming) = {h} \cup ToSet(Tail(incoming))
    BY <1>0, QueueTail
  <2>2. incoming' = Tail(incoming)
    BY DEF OnEmpty, WaitForIncomingQueue
  <2>3. h.id \in Nat /\ h.id <= Len(received) /\ Len(received) \in Nat
    BY <2>1, LenProperties DEF TypeInv, NetTypes, Fit, Fits, Entries
  <2> HIDE DEF h
  <2>. QED
    BY <2>1, <2>2, <2>3
<1>2. /\ draining' \in SUBSET (0..Len(received))
      /\ encrypted' \in {encrypted, Append(encrypted, Plain("empty", h.id))}
      /\ UNCHANGED <<net, items, batch, zombies, zone, decrypted, app, working,
                     removals, flags, disk, spent>>
  BY <1>1 DEF TypeInv, WorkTypes, OnEmpty, WaitForIncomingQueue
<1>3. /\ Plain("empty", h.id) \in Entries
      /\ Plain("empty", h.id).kind = "empty"
      /\ Fits(Plain("empty", h.id), {"decrypt", "handoff", "empty"})
  BY <1>1 DEF Plain, Entry, Entries, Fits, Carriers
<1> HIDE DEF h
<1>4. /\ encrypted' \in Queue
      /\ ToSet(encrypted') \subseteq ToSet(encrypted) \cup {Plain("empty", h.id)}
  <2>1. encrypted \in Queue
    BY DEF TypeInv, QueueTypes
  <2>2. CASE encrypted' = encrypted
    BY <2>1, <2>2
  <2>3. CASE encrypted' = Append(encrypted, Plain("empty", h.id))
    BY <1>3, <2>1, <2>3, QueueAppend
  <2>. QED
    BY <1>2, <2>2, <2>3
<1>5. NetTypes' /\ QueueTypes' /\ BatchTypes' /\ WorkTypes' /\ DiskTypes'
  BY <1>1, <1>2, <1>4 DEF TypeInv, NetTypes, QueueTypes, BatchTypes, WorkTypes,
     DiskTypes, net, flags, disk, Ids
<1>6. Fit'
  BY <1>1, <1>2, <1>3, <1>4 DEF TypeInv, Fit, Fits, ToDecrypt, net, Ids
<1>7. Phases'
  BY <1>2, <1>3, <1>4 DEF TypeInv, Phases
<1>. QED
  BY <1>5, <1>6, <1>7 DEF TypeInv

\* The batcher is idle: onEmpty goes back to the incoming queue.
LEMMA TypesDrained ==
    ASSUME TypeInv, NEW m \in draining, WaitForCacheAddBatcher(m)
    PROVE  TypeInv'
<1> DEFINE e == Plain("drained", m)
<1>1. e \in Entries /\ Fits(e, {"message", "cached", "empty", "drained"})
  <2>1. m \in Nat /\ m <= Len(received)
    BY LenProperties DEF TypeInv, NetTypes, WorkTypes
  <2>. QED
    BY <2>1 DEF Plain, Entry, Entries, Fits, Carriers
<1>2. incoming' = Append(incoming, e)
  BY DEF WaitForCacheAddBatcher
<1> HIDE DEF e
<1>3. incoming' \in Queue /\ ToSet(incoming') = ToSet(incoming) \cup {e}
  BY <1>1, <1>2, QueueAppend DEF TypeInv, QueueTypes
<1>4. /\ draining' \in SUBSET (0..Len(received))
      /\ UNCHANGED <<net, items, batch, zombies, zone, encrypted, decrypted, app,
                     working, removals, flags, disk, spent>>
  BY DEF WaitForCacheAddBatcher, TypeInv, WorkTypes
<1>5. NetTypes' /\ QueueTypes' /\ BatchTypes' /\ WorkTypes' /\ DiskTypes'
  BY <1>3, <1>4 DEF TypeInv, NetTypes, QueueTypes, BatchTypes, WorkTypes,
     DiskTypes, net, flags, disk, Ids
<1>6. Fit' /\ Phases'
  BY <1>1, <1>3, <1>4 DEF TypeInv, Fit, Fits, ToDecrypt, Phases, net, Ids
<1>. QED
  BY <1>5, <1>6 DEF TypeInv

\* Only the disk and the server remember.
LEMMA TypesCrash == ASSUME TypeInv, Crash PROVE TypeInv'
<1>1. /\ incoming' = <<>> /\ items' = <<>> /\ encrypted' = <<>>
      /\ decrypted' = <<>> /\ app' = <<>> /\ batch' = NoBatch
      /\ zombies' \subseteq zombies /\ zone' = "free" /\ conn' = "new"
      /\ told' = FALSE /\ draining' = {} /\ working' = {} /\ removals' = {}
      /\ emptied' = FALSE /\ retry' = FALSE /\ stopping' = FALSE
      /\ UNCHANGED <<server, base, received, disk>>
  BY DEF Crash
<1>2. <<>> \in Queue /\ ToSet(<<>>) = {}
  BY QueueEmpty
<1>3. /\ batch' \in [phase : {"idle", "decrypting", "stored"},
                     items : Queue, plain : Queue, failed : Queue,
                     used : SUBSET Envelopes, dropped : SUBSET Envelopes]
      /\ ToDecrypt' = {} /\ batch'.phase = "idle"
  BY <1>1, <1>2 DEF NoBatch, ToDecrypt
<1>4. spent' \in [crashes : Nat, reconnects : Nat, retries : Nat]
  BY DEF Crash, TypeInv, DiskTypes
<1>5. NetTypes' /\ QueueTypes' /\ BatchTypes' /\ WorkTypes' /\ DiskTypes'
  BY <1>1, <1>2, <1>3, <1>4 DEF TypeInv, NetTypes, QueueTypes, BatchTypes,
     WorkTypes, DiskTypes, disk, Ids
<1>6. Fit' /\ Phases'
  BY <1>1, <1>2, <1>3 DEF TypeInv, Fit, Fits, Phases, Ids
<1>. QED
  BY <1>5, <1>6 DEF TypeInv

\* Every step keeps the types.
LEMMA TypesStep == TypeInv /\ [Next]_vars => TypeInv'
<1>1. SUFFICES ASSUME TypeInv, [Next]_vars PROVE TypeInv'
  OBVIOUS
<1>2. CASE UNCHANGED vars
  <2>1. NetTypes' /\ QueueTypes' /\ BatchTypes' /\ WorkTypes' /\ DiskTypes'
    BY <1>1, <1>2 DEF TypeInv, NetTypes, QueueTypes, BatchTypes, WorkTypes,
       DiskTypes, vars, net, queues, flags, disk, Ids
  <2>2. Fit' /\ Phases'
    BY <1>1, <1>2
       DEF TypeInv, Fit, Fits, ToDecrypt, Phases, vars, net, queues, Ids
  <2>. QED
    BY <2>1, <2>2 DEF TypeInv
<1>3. CASE Connect \/ Disconnect \/ Unregister \/ Deliver \/ DeliverEmpty
           \/ RetryFires \/ Crash
  BY <1>1, <1>3, TypesConnect, TypesDisconnect, TypesDeliver, TypesDeliverEmpty,
     TypesCrash
<1>4. CASE Receive \/ QueueAllCached \/ StartBatch \/ CommitBatch \/ CommitFails
           \/ AckBatch \/ PassToDecrypted \/ PassToApp
  BY <1>1, <1>4, TypesReceive, TypesQueueAllCached, TypesStartBatch,
     TypesCommitBatch, TypesCommitFails, TypesAckBatch, TypesPassToDecrypted,
     TypesPassToApp
<1>5. CASE DispatchError \/ ScheduleRetry \/ Dispatch \/ EmitEmpty
           \/ OnEmpty \/ WaitForIncomingQueue
  BY <1>1, <1>5, TypesDispatch, TypesOnEmpty
<1>6. CASE \E it \in ToSet(encrypted) : DecryptTask(it)
  BY <1>1, <1>6, TypesDecrypt
<1>7. CASE \E m \in draining : WaitForCacheAddBatcher(m)
  BY <1>1, <1>7, TypesDrained
<1>8. CASE \E it \in zombies : ZombieSucceeds(it)
  BY <1>1, <1>8, TypesZombie
<1>9. CASE \E w \in working : Save(w) \/ Confirm(w) \/ HandlerFails(w)
  BY <1>1, <1>9, TypesHandle
<1>10. CASE \E n \in removals : CacheRemove(n)
  BY <1>1, <1>10, TypesCacheRemove
<1>. QED
  BY <1>1, <1>2, <1>3, <1>4, <1>5, <1>6, <1>7, <1>8, <1>9, <1>10 DEF Next, Work

\* Every variable keeps its type.
THEOREM TypeCorrect == Spec => []TypeOK
<1>. QED
  BY TypesInitially, TypesStep, TypesHold, PTL DEF Spec

-----------------------------------------------------------------------------
\* The order of the pipeline.

\* Every request in S comes after delivery m.
Cleared(m, S) == \A y \in S : y.live => m < y.id

\* What the queues hold, from the application back to the socket: nothing
\* overtakes, and an 'empty' that has been drained, or is about to be, was
\* sent before all that is behind the batcher.
Stages(A, D, P, E, I, N, W) ==
    /\ Ahead(A, D \cup P \cup E \cup I \cup N) /\ Ahead(D, P \cup E \cup I \cup N)
    /\ Ahead(P, E \cup I \cup N) /\ Ahead(E, I \cup N) /\ Ahead(I, N)
    /\ \A x \in E : x.kind = "empty" => Cleared(x.id, P \cup E \cup I \cup N)
    /\ \A x \in N : x.kind = "drained" => Cleared(x.id, P \cup E \cup I \cup N)
    /\ \A m \in W : Cleared(m, N)

Order(a, d, p, e, i, n, w) ==
    /\ InOrder(a) /\ InOrder(d) /\ InOrder(p)
    /\ InOrder(e) /\ InOrder(i) /\ InOrder(n)
    /\ Stages(ToSet(a), ToSet(d), ToSet(p), ToSet(e), ToSet(i), ToSet(n), w)

OrderInv == Order(app, decrypted, batch.plain, encrypted, items, incoming, draining)

\* Entries leave queues.
LEMMA StagesShrink ==
    ASSUME NEW A, NEW D, NEW P, NEW E, NEW I, NEW N, NEW W,
           Stages(A, D, P, E, I, N, W),
           NEW A2 \in SUBSET A, NEW D2 \in SUBSET D, NEW P2 \in SUBSET P,
           NEW E2 \in SUBSET E, NEW I2 \in SUBSET I, NEW N2 \in SUBSET N,
           NEW W2 \in SUBSET W
    PROVE  Stages(A2, D2, P2, E2, I2, N2, W2)
BY DEF Stages, Ahead, Cleared

\* A task that answers no request is queued.
LEMMA StagesTask ==
    ASSUME NEW A, NEW D, NEW P, NEW E, NEW I, NEW N, NEW W, NEW e,
           Stages(A, D, P, E, I, N, W), ~e.live
    PROVE  /\ e.kind # "drained" => Stages(A, D, P, E, I, N \cup {e}, W)
           /\ Cleared(e.id, P \cup E \cup I \cup N) =>
                 Stages(A, D, P, E, I, N \cup {e}, W)
           /\ e.kind # "empty" => Stages(A, D, P, E, I \cup {e}, N, W)
           /\ e.kind # "empty" => Stages(A, D, P, E \cup {e}, I, N, W)
           /\ e.kind # "empty" => Stages(A, D \cup {e}, P, E, I, N, W)
<1>1. e.kind # "drained" => Stages(A, D, P, E, I, N \cup {e}, W)
  BY DEF Stages, Ahead, Cleared, Precedes
<1>2. Cleared(e.id, P \cup E \cup I \cup N) => Stages(A, D, P, E, I, N \cup {e}, W)
  BY DEF Stages, Ahead, Cleared, Precedes
<1>3. e.kind # "empty" => Stages(A, D, P, E, I \cup {e}, N, W)
  BY DEF Stages, Ahead, Cleared, Precedes
<1>4. e.kind # "empty" => Stages(A, D, P, E \cup {e}, I, N, W)
  BY DEF Stages, Ahead, Cleared, Precedes
<1>5. e.kind # "empty" => Stages(A, D \cup {e}, P, E, I, N, W)
  BY DEF Stages, Ahead, Cleared, Precedes
<1>. QED
  BY <1>1, <1>2, <1>3, <1>4, <1>5

\* An entry is ahead of every entry that answers no request.
LEMMA AheadOfTasks ==
    ASSUME NEW A, NEW B, \A y \in B : ~y.live PROVE Ahead(A, B)
BY DEF Ahead, Precedes

\* The pipeline begins empty.
LEMMA OrderInitially == Init => OrderInv
<1>1. SUFFICES ASSUME Init PROVE OrderInv
  OBVIOUS
<1>2. /\ app = <<>> /\ decrypted = <<>> /\ batch.plain = <<>> /\ encrypted = <<>>
      /\ items = <<>> /\ incoming = <<>> /\ draining = {}
  BY <1>1 DEF Init, InitProcess, NoBatch
<1>3. Stages({}, {}, {}, {}, {}, {}, {})
  BY DEF Stages, Ahead
<1>. QED
  BY <1>2, <1>3, QueueEmpty DEF OrderInv, Order

\* A task joins the incoming queue.
LEMMA OrderJoins ==
    ASSUME TypeInv, OrderInv, NEW e \in Entries, ~e.live,
           incoming' = Append(incoming, e), draining' \subseteq draining,
           UNCHANGED <<app, decrypted, batch, encrypted, items>>,
           \/ e.kind # "drained"
           \/ Cleared(e.id, ToSet(batch.plain) \cup ToSet(encrypted)
                               \cup ToSet(items) \cup ToSet(incoming))
    PROVE  OrderInv'
<1>1. ToSet(incoming') = ToSet(incoming) \cup {e} /\ InOrder(incoming')
  <2>1. incoming \in Queue /\ InOrder(incoming)
    BY DEF TypeInv, QueueTypes, OrderInv, Order
  <2>2. Ahead(ToSet(incoming), {e})
    BY AheadOfTasks
  <2>. QED
    BY <2>1, <2>2, QueueAppend
<1>2. Stages(ToSet(app), ToSet(decrypted), ToSet(batch.plain), ToSet(encrypted),
             ToSet(items), ToSet(incoming) \cup {e}, draining)
  BY StagesTask DEF OrderInv, Order
<1>3. Stages(ToSet(app), ToSet(decrypted), ToSet(batch.plain), ToSet(encrypted),
             ToSet(items), ToSet(incoming) \cup {e}, draining')
  BY <1>2, StagesShrink
<1>. QED
  BY <1>1, <1>3 DEF OrderInv, Order

\* Connect, DeliverEmpty, RetryFires and WaitForCacheAddBatcher.
LEMMA OrderConnect ==
    ASSUME TypeInv, OrderInv, Connect \/ DeliverEmpty \/ RetryFires
    PROVE  OrderInv'
<1>1. \E e \in Entries : ~e.live /\ e.kind # "drained"
                           /\ incoming' = Append(incoming, e)
  <2>1. \A k \in {"cached", "empty"} : \A n \in Nat :
           /\ Plain(k, n) \in Entries /\ ~Plain(k, n).live
           /\ Plain(k, n).kind # "drained"
    BY DEF Plain, Entry, Entries
  <2>2. Len(received) \in Nat /\ 0 \in Nat
    BY LenProperties DEF TypeInv, NetTypes
  <2>. QED
    BY <2>1, <2>2 DEF Connect, DeliverEmpty, RetryFires
<1>2. UNCHANGED <<app, decrypted, batch, encrypted, items, draining>>
  BY DEF Connect, DeliverEmpty, RetryFires
<1>. QED
  BY <1>1, <1>2, OrderJoins

\* handleRequest: the newest delivery is behind all others.
LEMMA OrderDeliver == ASSUME TypeInv, OrderInv, Deliver PROVE OrderInv'
<1>1. PICK e \in Entries :
          incoming' = Append(incoming, e) /\ e.kind = "message" /\ e.id > Len(received)
  <2>1. Len(received) \in Nat /\ Len(received') = Len(received) + 1
    BY NewDelivery DEF TypeInv
  <2> DEFINE e == Entry("message", Len(received'), 0, TRUE)
  <2>2. Len(received') \in Nat /\ Len(received') > Len(received)
    BY <2>1
  <2>3. e \in Entries /\ e.kind = "message" /\ e.id = Len(received')
    BY <2>2 DEF Entry, Entries
  <2>4. incoming' = Append(incoming, e)
    BY DEF Deliver
  <2> HIDE DEF e
  <2>. QED
    BY <2>2, <2>3, <2>4
<1>2. UNCHANGED <<app, decrypted, batch, encrypted, items, draining>>
  BY DEF Deliver
<1> DEFINE S == ToSet(app) \cup ToSet(decrypted) \cup ToSet(batch.plain)
                  \cup ToSet(encrypted) \cup ToSet(items) \cup ToSet(incoming)
<1>3. /\ \A x \in S : x.id < e.id
      /\ \A m \in draining : m < e.id
  <2>1. S \subseteq Entries
    BY QueueSet DEF TypeInv, QueueTypes, BatchTypes
  <2>2. \A x \in S : x.id <= Len(received)
    BY DEF TypeInv, Fit, Fits, ToDecrypt
  <2>3. Len(received) \in Nat /\ e.id \in Nat /\ \A x \in S : x.id \in Nat
    BY <2>1, LenProperties DEF TypeInv, NetTypes, Entries
  <2>4. \A m \in draining : m \in Nat /\ m <= Len(received)
    BY <2>3 DEF TypeInv, WorkTypes
  <2> HIDE DEF S
  <2>. QED
    BY <1>1, <2>2, <2>3, <2>4
<1>4. ToSet(incoming') = ToSet(incoming) \cup {e} /\ InOrder(incoming')
  <2>1. incoming \in Queue /\ InOrder(incoming)
    BY DEF TypeInv, QueueTypes, OrderInv, Order
  <2>2. Ahead(ToSet(incoming), {e})
    BY <1>3 DEF Ahead, Precedes
  <2>. QED
    BY <1>1, <2>1, <2>2, QueueAppend
<1>5. Stages(ToSet(app), ToSet(decrypted), ToSet(batch.plain), ToSet(encrypted),
             ToSet(items), ToSet(incoming) \cup {e}, draining)
  <2>1. e.kind # "drained"
    BY <1>1
  <2>. QED
    BY <1>3, <2>1 DEF OrderInv, Order, Stages, Ahead, Cleared, Precedes
<1>. QED
  BY <1>2, <1>4, <1>5 DEF OrderInv, Order

\* decryptAndCache: from the incoming queue to the batcher.
LEMMA OrderReceive == ASSUME TypeInv, OrderInv, Receive PROVE OrderInv'
<1> DEFINE h == Head(incoming)
           e == [h EXCEPT !.kind = "decrypt"]
<1>1. /\ h \in Entries /\ incoming' \in Queue
      /\ ToSet(incoming) = {h} \cup ToSet(incoming')
      /\ InOrder(incoming') /\ Ahead({h}, ToSet(incoming'))
      /\ h.kind = "message"
  BY QueueTail DEF TypeInv, QueueTypes, Receive, OrderInv, Order
<1>2. e \in Entries /\ e.id = h.id /\ e.live = h.live /\ e.kind = "decrypt"
  BY <1>1 DEF Entries
<1>3. items' = Append(items, e)
  BY DEF Receive
<1> HIDE DEF h, e
<1>4. ToSet(items') = ToSet(items) \cup {e} /\ InOrder(items')
  <2>1. Ahead(ToSet(items), {e})
    BY <1>1, <1>2 DEF OrderInv, Order, Stages, Ahead, Precedes
  <2>. QED
    BY <1>2, <1>3, <2>1, QueueAppend DEF TypeInv, QueueTypes, OrderInv, Order
<1>5. Stages(ToSet(app), ToSet(decrypted), ToSet(batch.plain), ToSet(encrypted),
             ToSet(items) \cup {e}, ToSet(incoming'), draining)
  BY <1>1, <1>2 DEF OrderInv, Order, Stages, Ahead, Cleared, Precedes
<1>. QED
  BY <1>1, <1>4, <1>5 DEF OrderInv, Order, Receive

\* queueAllCached: what it queues answers no request.
LEMMA OrderQueueAllCached ==
    ASSUME TypeInv, OrderInv, QueueAllCached PROVE OrderInv'
<1>0. /\ incoming' = Tail(incoming) /\ incoming # <<>>
      /\ UNCHANGED <<app, decrypted, batch, draining>>
  BY DEF QueueAllCached
<1>1. InOrder(incoming') /\ ToSet(incoming') \subseteq ToSet(incoming)
  BY <1>0, QueueTail DEF TypeInv, QueueTypes, OrderInv, Order
<1>2. CASE stopping
  <2>1. UNCHANGED <<items, encrypted>>
    BY <1>2 DEF QueueAllCached
  <2>2. Stages(ToSet(app), ToSet(decrypted), ToSet(batch.plain),
               ToSet(encrypted), ToSet(items), ToSet(incoming'), draining)
    BY <1>1, StagesShrink DEF OrderInv, Order
  <2>. QED
    BY <1>0, <1>1, <2>1, <2>2 DEF OrderInv, Order
<1>3. CASE ~stopping
  <2> DEFINE I == Requeued("decrypt", Fetched("encrypted"))
             E == Requeued("handoff", Fetched("decrypted"))
  <2>1. items' = items \o I /\ encrypted' = encrypted \o E
    BY <1>3, LoadsRows
  <2>2. /\ I \in Queue /\ E \in Queue /\ InOrder(I) /\ InOrder(E)
        /\ \A x \in ToSet(I) : x.kind = "decrypt" /\ ~x.live
        /\ \A x \in ToSet(E) : x.kind = "handoff" /\ ~x.live
    BY RequeuedFacts
  <2> HIDE DEF I, E
  <2>3. /\ items \in Queue /\ encrypted \in Queue
        /\ InOrder(items) /\ InOrder(encrypted)
    BY DEF TypeInv, QueueTypes, OrderInv, Order
  <2>4. Ahead(ToSet(items), ToSet(I)) /\ Ahead(ToSet(encrypted), ToSet(E))
    BY <2>2, AheadOfTasks
  <2>5. /\ InOrder(items') /\ ToSet(items') = ToSet(items) \cup ToSet(I)
        /\ InOrder(encrypted')
        /\ ToSet(encrypted') = ToSet(encrypted) \cup ToSet(E)
    BY <2>1, <2>2, <2>3, <2>4, QueueConcat
  <2>6. Stages(ToSet(app), ToSet(decrypted), ToSet(batch.plain),
               ToSet(encrypted) \cup ToSet(E), ToSet(items) \cup ToSet(I),
               ToSet(incoming'), draining)
    <3>1. Stages(ToSet(app), ToSet(decrypted), ToSet(batch.plain),
                 ToSet(encrypted), ToSet(items), ToSet(incoming'), draining)
      BY <1>1, StagesShrink DEF OrderInv, Order
    <3>. QED
      BY <2>2, <3>1 DEF Stages, Ahead, Cleared, Precedes
  <2>. QED
    BY <1>0, <1>1, <2>5, <2>6 DEF OrderInv, Order
<1>. QED
  BY <1>2, <1>3

\* A batch begins: from the batcher to the encrypted queue.
LEMMA OrderStartBatch == ASSUME TypeInv, OrderInv, StartBatch PROVE OrderInv'
<1>1. PICK k \in 1..Len(items) :
          /\ batch' = [NoBatch EXCEPT !.phase = "decrypting",
                                      !.items = SubSeq(items, 1, k)]
          /\ items' = SubSeq(items, k + 1, Len(items))
          /\ encrypted' = encrypted \o SubSeq(items, 1, k)
  BY DEF StartBatch
<1> DEFINE first == SubSeq(items, 1, k)
<1>2. /\ first \in Queue /\ items' \in Queue
      /\ ToSet(first) \subseteq ToSet(items)
      /\ ToSet(items') \subseteq ToSet(items)
      /\ InOrder(first) /\ InOrder(items')
      /\ Ahead(ToSet(first), ToSet(items'))
  <2>1. items \in Queue /\ InOrder(items)
    BY DEF TypeInv, QueueTypes, OrderInv, Order
  <2>2. first = SubSeq(items, 1, k) /\ items' = SubSeq(items, k + 1, Len(items))
    BY <1>1
  <2> HIDE DEF first
  <2>3. /\ first \in Queue /\ items' \in Queue
        /\ ToSet(first) \subseteq ToSet(items)
        /\ ToSet(items') \subseteq ToSet(items)
        /\ InOrder(items) => /\ InOrder(first) /\ InOrder(items')
                             /\ Ahead(ToSet(first), ToSet(items'))
    BY <1>1, <2>1, <2>2, QueueSplit
  <2>. QED
    BY <2>1, <2>3
<1>3. batch'.plain = <<>> /\ batch.plain = <<>>
  BY <1>1 DEF NoBatch, StartBatch, TypeInv, Phases
<1>4. encrypted' = encrypted \o first
  BY <1>1
<1> HIDE DEF first
<1>5. /\ encrypted' \in Queue /\ InOrder(encrypted')
      /\ ToSet(encrypted') = ToSet(encrypted) \cup ToSet(first)
  <2>1. Ahead(ToSet(encrypted), ToSet(first))
    BY <1>2 DEF OrderInv, Order, Stages, Ahead
  <2>. QED
    BY <1>2, <1>4, <2>1, QueueConcat DEF TypeInv, QueueTypes, OrderInv, Order
<1>6. \A x \in ToSet(first) : x.kind = "decrypt"
  BY <1>2 DEF TypeInv, Fit, Fits
<1>7. Stages(ToSet(app), ToSet(decrypted), {}, ToSet(encrypted) \cup ToSet(first),
             ToSet(items'), ToSet(incoming), draining)
  BY <1>2, <1>6 DEF OrderInv, Order, Stages, Ahead, Cleared, Precedes
<1>8. UNCHANGED <<app, decrypted, incoming, draining>>
  BY DEF StartBatch
<1>. QED
  BY <1>2, <1>3, <1>5, <1>7, <1>8, QueueEmpty DEF OrderInv, Order

\* A decryption: from the encrypted queue to the plaintexts of the batch, or
\* out of the pipeline.
LEMMA OrderDecrypt ==
    ASSUME TypeInv, OrderInv, NEW it, DecryptTask(it) PROVE OrderInv'
<1>1. /\ encrypted # <<>> /\ it = Head(encrypted) /\ it.kind = "decrypt"
      /\ encrypted' = Tail(encrypted)
      /\ batch'.plain \in {batch.plain, Append(batch.plain, it)}
      /\ decrypted' \in {decrypted, Append(decrypted, Plain("error", it.id))}
      /\ UNCHANGED <<app, items, incoming, draining>>
  <2>1. \A p, f, u, d : DecryptEffect(it, p, f, u, d) =>
           /\ encrypted # <<>> /\ it = Head(encrypted) /\ it.kind = "decrypt"
           /\ encrypted' = Tail(encrypted) /\ batch'.plain = p
           /\ UNCHANGED <<app, items, incoming, draining>>
    BY DEF DecryptEffect, TypeInv, BatchTypes
  <2>. QED
    BY <2>1, DecryptOutcomes DEF DecryptTask, Rejected
<1>2. /\ it \in Entries /\ encrypted' \in Queue /\ InOrder(encrypted')
      /\ ToSet(encrypted) = {it} \cup ToSet(encrypted')
      /\ Ahead({it}, ToSet(encrypted'))
  BY <1>1, QueueTail DEF TypeInv, QueueTypes, OrderInv, Order
<1>3. InOrder(batch'.plain) /\ ToSet(batch'.plain) \subseteq ToSet(batch.plain) \cup {it}
  <2>1. batch.plain \in Queue /\ InOrder(batch.plain)
    BY DEF TypeInv, BatchTypes, OrderInv, Order
  <2>2. CASE batch'.plain = batch.plain
    BY <2>1, <2>2
  <2>3. CASE batch'.plain = Append(batch.plain, it)
    <3>1. Ahead(ToSet(batch.plain), {it})
      BY <1>2 DEF OrderInv, Order, Stages, Ahead
    <3>. QED
      BY <1>2, <2>1, <2>3, <3>1, QueueAppend
  <2>. QED
    BY <1>1, <2>2, <2>3
<1>4. InOrder(decrypted')
      /\ \A x \in ToSet(decrypted') \ ToSet(decrypted) : ~x.live /\ x.kind = "error"
  <2>1. decrypted \in Queue /\ InOrder(decrypted)
    BY DEF TypeInv, QueueTypes, OrderInv, Order
  <2>2. CASE decrypted' = decrypted
    BY <2>1, <2>2
  <2>3. CASE decrypted' = Append(decrypted, Plain("error", it.id))
    <3> DEFINE e == Plain("error", it.id)
    <3>1. e \in Entries /\ e.kind = "error" /\ ~e.live
      BY <1>2 DEF Plain, Entry, Entries
    <3>2. Ahead(ToSet(decrypted), {e})
      BY <3>1, AheadOfTasks
    <3> HIDE DEF e
    <3>3. InOrder(Append(decrypted, e))
             /\ ToSet(Append(decrypted, e)) = ToSet(decrypted) \cup {e}
      BY <2>1, <3>1, <3>2, QueueAppend
    <3>. QED
      BY <2>3, <3>1, <3>3 DEF e
  <2>. QED
    BY <1>1, <2>2, <2>3
<1>5. Stages(ToSet(app), ToSet(decrypted), ToSet(batch.plain) \cup {it},
             ToSet(encrypted'), ToSet(items), ToSet(incoming), draining)
  BY <1>1, <1>2 DEF OrderInv, Order, Stages, Ahead, Cleared, Precedes
<1>6. Stages(ToSet(app), ToSet(decrypted'), ToSet(batch'.plain),
             ToSet(encrypted'), ToSet(items), ToSet(incoming), draining)
  <2>1. Stages(ToSet(app), ToSet(decrypted), ToSet(batch'.plain),
               ToSet(encrypted'), ToSet(items), ToSet(incoming), draining)
    BY <1>3, <1>5, StagesShrink
  <2>. QED
    BY <1>4, <2>1 DEF Stages, Ahead, Precedes
<1>. QED
  BY <1>1, <1>2, <1>3, <1>4, <1>6 DEF OrderInv, Order

\* The plaintexts of the batch go to the decrypted queue.
LEMMA OrderAckBatch == ASSUME TypeInv, OrderInv, AckBatch PROVE OrderInv'
<1> DEFINE handles == Relabel(batch.plain, "handle")
           again == Plain("scheduleRetry", 0)
<1>1. /\ handles \in Queue /\ again \in Entries
      /\ decrypted' = (decrypted \o handles) \o <<again>>
      /\ ToSet(decrypted') = ToSet(decrypted) \cup ToSet(handles) \cup {again}
      /\ ToSet(handles)
           = {[x EXCEPT !.kind = "handle"] : x \in ToSet(batch.plain)}
      /\ ~again.live /\ again.kind = "scheduleRetry"
  BY AckedPlain DEF Plain, Entry
<1>2. /\ batch.plain \in Queue /\ decrypted \in Queue
      /\ InOrder(batch.plain) /\ InOrder(decrypted)
  BY DEF TypeInv, BatchTypes, QueueTypes, OrderInv, Order
<1>3. InOrder(handles)
  BY <1>2, QueueRelabel
<1>4. \A y \in ToSet(handles) : \E x \in ToSet(batch.plain) :
          y.live = x.live /\ y.id = x.id /\ y.kind = "handle" /\ x.kind = "decrypt"
  <2>1. \A x \in ToSet(batch.plain) : x \in Entries /\ x.kind = "decrypt"
    BY <1>2, QueueSet DEF TypeInv, Fit, Fits, ToDecrypt
  <2>. QED
    BY <1>1, <2>1 DEF Entries
<1> HIDE DEF handles, again
<1>5. InOrder(decrypted')
  <2>1. Ahead(ToSet(decrypted), ToSet(handles))
    BY <1>4 DEF OrderInv, Order, Stages, Ahead, Precedes
  <2>2. /\ decrypted \o handles \in Queue /\ InOrder(decrypted \o handles)
    BY <1>1, <1>2, <1>3, <2>1, QueueConcat
  <2>3. <<again>> \in Queue /\ ToSet(<<again>>) = {again} /\ InOrder(<<again>>)
    <3>1. <<again>> = Append(<<>>, again)
      OBVIOUS
    <3>2. Ahead({}, {again})
      BY DEF Ahead
    <3>. QED
      BY <1>1, <3>1, <3>2, QueueEmpty, QueueAppend
  <2>4. Ahead(ToSet(decrypted \o handles), {again})
    BY <1>1, AheadOfTasks
  <2>. QED
    BY <1>1, <2>2, <2>3, <2>4, QueueConcat
<1>6. Stages(ToSet(app), ToSet(decrypted'), {}, ToSet(encrypted), ToSet(items),
             ToSet(incoming), draining)
  BY <1>1, <1>4 DEF OrderInv, Order, Stages, Ahead, Cleared, Precedes
<1>7. /\ batch'.plain = <<>>
      /\ UNCHANGED <<app, encrypted, items, incoming, draining>>
  BY DEF AckBatch, NoBatch
<1>. QED
  BY <1>5, <1>6, <1>7, QueueEmpty DEF OrderInv, Order

\* The next task of the encrypted queue hands over: it answers no request, and
\* an 'empty' is behind nothing that is later.
LEMMA OrderPassToDecrypted ==
    ASSUME TypeInv, OrderInv, PassToDecrypted PROVE OrderInv'
<1> DEFINE h == Head(encrypted)
           e == [h EXCEPT !.kind = IF @ = "handoff" THEN "handle" ELSE @]
<1>1. /\ h \in Entries /\ InOrder(encrypted')
      /\ ToSet(encrypted) = {h} \cup ToSet(encrypted')
      /\ h.kind \in {"handoff", "empty"}
  BY QueueTail DEF TypeInv, QueueTypes, PassToDecrypted, OrderInv, Order
<1>2. ~h.live
  BY <1>1 DEF TypeInv, Fit, Fits, Entries
<1>3. decrypted' = Append(decrypted, e)
  BY DEF PassToDecrypted
<1>4. /\ e \in Entries /\ e.id = h.id /\ ~e.live
      /\ e.kind = "empty" => h.kind = "empty"
  <2> HIDE DEF h
  <2>. QED
    BY <1>1, <1>2 DEF Entries
<1> HIDE DEF h, e
<1>5. InOrder(decrypted') /\ ToSet(decrypted') = ToSet(decrypted) \cup {e}
  <2>1. Ahead(ToSet(decrypted), {e})
    BY <1>4, AheadOfTasks
  <2>. QED
    BY <1>3, <1>4, <2>1, QueueAppend DEF TypeInv, QueueTypes, OrderInv, Order
<1>6. Stages(ToSet(app), ToSet(decrypted) \cup {e}, ToSet(batch.plain),
             ToSet(encrypted'), ToSet(items), ToSet(incoming), draining)
  BY <1>1, <1>4 DEF OrderInv, Order, Stages, Ahead, Cleared, Precedes
<1>. QED
  BY <1>1, <1>5, <1>6 DEF OrderInv, Order, PassToDecrypted

\* The next task of the decrypted queue goes to the application, or is dropped.
LEMMA OrderPassToApp == ASSUME TypeInv, OrderInv, PassToApp PROVE OrderInv'
<1> DEFINE h == Head(decrypted)
<1>1. /\ h \in Entries /\ InOrder(decrypted')
      /\ ToSet(decrypted) = {h} \cup ToSet(decrypted')
      /\ Ahead({h}, ToSet(decrypted'))
      /\ app' \in {app, Append(app, h)}
  BY QueueTail DEF TypeInv, QueueTypes, PassToApp, OrderInv, Order
<1> HIDE DEF h
<1>2. InOrder(app') /\ ToSet(app') \subseteq ToSet(app) \cup {h}
  <2>1. app \in Queue /\ InOrder(app)
    BY DEF TypeInv, QueueTypes, OrderInv, Order
  <2>2. Ahead(ToSet(app), {h})
    BY <1>1 DEF OrderInv, Order, Stages, Ahead
  <2>. QED
    BY <1>1, <2>1, <2>2, QueueAppend
<1>3. Stages(ToSet(app) \cup {h}, ToSet(decrypted'), ToSet(batch.plain),
             ToSet(encrypted), ToSet(items), ToSet(incoming), draining)
  BY <1>1 DEF OrderInv, Order, Stages, Ahead
<1>4. Stages(ToSet(app'), ToSet(decrypted'), ToSet(batch.plain),
             ToSet(encrypted), ToSet(items), ToSet(incoming), draining)
  BY <1>2, <1>3, StagesShrink
<1>. QED
  BY <1>1, <1>2, <1>4 DEF OrderInv, Order, PassToApp

\* The next task of the decrypted queue or of the application is over.
LEMMA OrderDispatch ==
    ASSUME TypeInv, OrderInv, DispatchError \/ ScheduleRetry \/ Dispatch \/ EmitEmpty
    PROVE  OrderInv'
<1>1. /\ InOrder(decrypted') /\ ToSet(decrypted') \subseteq ToSet(decrypted)
      /\ InOrder(app') /\ ToSet(app') \subseteq ToSet(app)
  <2>0. /\ decrypted \in Queue /\ InOrder(decrypted)
        /\ app \in Queue /\ InOrder(app)
    BY DEF TypeInv, QueueTypes, OrderInv, Order
  <2>1. CASE DispatchError \/ ScheduleRetry
    <3>1. decrypted # <<>> /\ decrypted' = Tail(decrypted) /\ app' = app
      BY <2>1 DEF DispatchError, ScheduleRetry
    <3>. QED
      BY <2>0, <3>1, QueueTail
  <2>2. CASE Dispatch \/ EmitEmpty
    <3>1. app # <<>> /\ app' = Tail(app) /\ decrypted' = decrypted
      BY <2>2 DEF Dispatch, EmitEmpty
    <3>. QED
      BY <2>0, <3>1, QueueTail
  <2>. QED
    BY <2>1, <2>2
<1>2. UNCHANGED <<batch, encrypted, items, incoming, draining>>
  BY DEF DispatchError, ScheduleRetry, Dispatch, EmitEmpty
<1>3. Stages(ToSet(app'), ToSet(decrypted'), ToSet(batch.plain),
             ToSet(encrypted), ToSet(items), ToSet(incoming), draining)
  BY <1>1, StagesShrink DEF OrderInv, Order
<1>. QED
  BY <1>1, <1>2, <1>3 DEF OrderInv, Order

\* onEmpty: what is behind the 'empty' of the server was delivered after it,
\* and still is once the batcher is idle.
LEMMA OrderOnEmpty == ASSUME TypeInv, OrderInv, OnEmpty PROVE OrderInv'
<1> DEFINE h == Head(incoming)
<1>1. /\ h \in Entries /\ InOrder(incoming') /\ h.kind = "empty"
      /\ ToSet(incoming) = {h} \cup ToSet(incoming')
      /\ Ahead({h}, ToSet(incoming'))
      /\ draining' = draining \cup {h.id}
  BY QueueTail DEF TypeInv, QueueTypes, OnEmpty, OrderInv, Order
<1> HIDE DEF h
<1>2. Stages(ToSet(app), ToSet(decrypted), ToSet(batch.plain), ToSet(encrypted),
             ToSet(items), ToSet(incoming'), draining')
  BY <1>1 DEF OrderInv, Order, Stages, Ahead, Cleared, Precedes
<1>. QED
  BY <1>1, <1>2 DEF OrderInv, Order, OnEmpty

\* The batcher is idle: onEmpty has nothing but the incoming queue behind it.
LEMMA OrderDrained ==
    ASSUME TypeInv, OrderInv, NEW m \in draining, WaitForCacheAddBatcher(m)
    PROVE  OrderInv'
<1> DEFINE e == Plain("drained", m)
<1>1. e \in Entries /\ ~e.live /\ e.id = m
  BY LenProperties DEF TypeInv, NetTypes, WorkTypes, Plain, Entry, Entries
<1>2. incoming' = Append(incoming, e) /\ draining' \subseteq draining
  BY DEF WaitForCacheAddBatcher
<1>3. UNCHANGED <<app, decrypted, batch, encrypted, items>>
  BY DEF WaitForCacheAddBatcher
<1> HIDE DEF e
<1>4. Cleared(e.id, ToSet(batch.plain) \cup ToSet(encrypted) \cup ToSet(items)
                        \cup ToSet(incoming))
  <2>1. ToSet(batch.plain) = {} /\ ToSet(items) = {}
    BY QueueEmpty
       DEF WaitForCacheAddBatcher, BatcherIdle, TypeInv, Phases, NoBatch
  <2>2. \A x \in ToSet(encrypted) : ~x.live
    <3>1. \A x \in ToSet(encrypted) : x \in Entries /\ x.kind # "decrypt"
      BY QueueSet
         DEF TypeInv, QueueTypes, Phases, WaitForCacheAddBatcher, BatcherIdle
    <3>. QED
      BY <3>1 DEF TypeInv, Fit, Fits, Entries
  <2>3. Cleared(m, ToSet(incoming))
    BY DEF OrderInv, Order, Stages
  <2>. QED
    BY <1>1, <2>1, <2>2, <2>3 DEF Cleared
<1>. QED
  BY <1>1, <1>2, <1>3, <1>4, OrderJoins

\* onEmpty goes on to the encrypted queue.
LEMMA OrderPassesBatcher ==
    ASSUME TypeInv, OrderInv, WaitForIncomingQueue PROVE OrderInv'
<1> DEFINE h == Head(incoming)
           e == Plain("empty", h.id)
<1>1. /\ h \in Entries /\ InOrder(incoming') /\ h.kind = "drained"
      /\ ToSet(incoming) = {h} \cup ToSet(incoming')
  BY QueueTail DEF TypeInv, QueueTypes, WaitForIncomingQueue, OrderInv, Order
<1>2. encrypted' = Append(encrypted, e)
  BY DEF WaitForIncomingQueue
<1>3. e \in Entries /\ ~e.live /\ e.id = h.id
  <2> HIDE DEF h
  <2>. QED
    BY <1>1 DEF Plain, Entry, Entries
<1> HIDE DEF h, e
<1>4. InOrder(encrypted') /\ ToSet(encrypted') = ToSet(encrypted) \cup {e}
  <2>1. Ahead(ToSet(encrypted), {e})
    BY <1>3, AheadOfTasks
  <2>. QED
    BY <1>2, <1>3, <2>1, QueueAppend DEF TypeInv, QueueTypes, OrderInv, Order
<1>5. Stages(ToSet(app), ToSet(decrypted), ToSet(batch.plain),
             ToSet(encrypted) \cup {e}, ToSet(items), ToSet(incoming'), draining)
  BY <1>1, <1>3 DEF OrderInv, Order, Stages, Ahead, Cleared, Precedes
<1>. QED
  BY <1>1, <1>4, <1>5 DEF OrderInv, Order, WaitForIncomingQueue

\* The batch is refused, the process dies, or the pipeline stays as it is.
LEMMA OrderStays ==
    ASSUME TypeInv, OrderInv,
           \/ UNCHANGED <<app, decrypted, encrypted, items, incoming, draining>>
                 /\ batch'.plain \in {batch.plain, <<>>}
           \/ Crash
    PROVE  OrderInv'
<1>1. CASE /\ UNCHANGED <<app, decrypted, encrypted, items, incoming, draining>>
           /\ batch'.plain \in {batch.plain, <<>>}
  <2>1. /\ InOrder(batch'.plain)
        /\ ToSet(batch'.plain) \subseteq ToSet(batch.plain)
    BY <1>1, QueueEmpty DEF OrderInv, Order
  <2>2. Stages(ToSet(app), ToSet(decrypted), ToSet(batch'.plain),
               ToSet(encrypted), ToSet(items), ToSet(incoming), draining)
    BY <2>1, StagesShrink DEF OrderInv, Order
  <2>. QED
    BY <1>1, <2>1, <2>2 DEF OrderInv, Order
<1>2. CASE Crash
  <2>1. /\ app' = <<>> /\ decrypted' = <<>> /\ batch'.plain = <<>>
        /\ encrypted' = <<>> /\ items' = <<>> /\ incoming' = <<>>
        /\ draining' = {}
    BY <1>2 DEF Crash, NoBatch
  <2>2. Stages({}, {}, {}, {}, {}, {}, {})
    BY DEF Stages, Ahead
  <2>. QED
    BY <2>1, <2>2, QueueEmpty DEF OrderInv, Order
<1>. QED
  BY <1>1, <1>2

\* Every step keeps the order.
LEMMA OrderStep == TypeInv /\ OrderInv /\ [Next]_vars => OrderInv'
<1>1. SUFFICES ASSUME TypeInv, OrderInv, [Next]_vars PROVE OrderInv'
  OBVIOUS
<1>2. CASE Disconnect \/ Unregister \/ CommitBatch \/ CommitFails
           \/ UNCHANGED vars
  <2>1. /\ UNCHANGED <<app, decrypted, encrypted, items, incoming, draining>>
        /\ batch'.plain \in {batch.plain, <<>>}
    BY <1>1, <1>2 DEF Disconnect, Unregister, CommitBatch, CommitFails, vars,
       queues, NoBatch, TypeInv, BatchTypes
  <2>. QED
    BY <1>1, <2>1, OrderStays
<1>3. CASE \/ \E it \in zombies : ZombieSucceeds(it)
           \/ \E w \in working : Save(w) \/ Confirm(w) \/ HandlerFails(w)
           \/ \E n \in removals : CacheRemove(n)
  <2>1. /\ UNCHANGED <<app, decrypted, encrypted, items, incoming, draining>>
        /\ batch'.plain = batch.plain
    BY <1>1, <1>3 DEF ZombieSucceeds, Save, Confirm, HandlerFails, CacheRemove,
       TypeInv, BatchTypes
  <2>. QED
    BY <1>1, <2>1, OrderStays
<1>4. CASE Connect \/ Deliver \/ DeliverEmpty \/ RetryFires \/ Crash
  BY <1>1, <1>4, OrderConnect, OrderDeliver, OrderStays
<1>5. CASE Receive \/ QueueAllCached \/ StartBatch \/ AckBatch
           \/ PassToDecrypted \/ PassToApp
  BY <1>1, <1>5, OrderReceive, OrderQueueAllCached, OrderStartBatch,
     OrderAckBatch, OrderPassToDecrypted, OrderPassToApp
<1>6. CASE DispatchError \/ ScheduleRetry \/ Dispatch \/ EmitEmpty
           \/ OnEmpty \/ WaitForIncomingQueue
  BY <1>1, <1>6, OrderDispatch, OrderOnEmpty, OrderPassesBatcher
<1>7. CASE \E it \in ToSet(encrypted) : DecryptTask(it)
  BY <1>1, <1>7, OrderDecrypt
<1>8. CASE \E m \in draining : WaitForCacheAddBatcher(m)
  BY <1>1, <1>8, OrderDrained
<1>. QED
  BY <1>1, <1>2, <1>3, <1>4, <1>5, <1>6, <1>7, <1>8 DEF Next, Work

\* The types and the order of the pipeline hold at every step, whatever fails.
THEOREM PipelineInvariance == Spec => [](TypeInv /\ OrderInv)
<1>1. Init => TypeInv /\ OrderInv
  BY TypesInitially, OrderInitially
<1>2. TypeInv /\ OrderInv /\ [Next]_vars => (TypeInv /\ OrderInv)'
  BY TypesStep, OrderStep
<1>. QED
  BY <1>1, <1>2, PTL DEF Spec

\* The pipeline as one queue is in order.
LEMMA PipelineInOrder ==
    ASSUME TypeInv, OrderInv
    PROVE  /\ Pipeline \in Queue /\ InOrder(Pipeline)
           /\ ToSet(Pipeline) = ToSet(app) \cup ToSet(decrypted)
                \cup ToSet(batch.plain) \cup ToSet(encrypted) \cup ToSet(items)
                \cup ToSet(incoming)
<1>1. /\ app \in Queue /\ decrypted \in Queue /\ batch.plain \in Queue
      /\ encrypted \in Queue /\ items \in Queue /\ incoming \in Queue
  BY DEF TypeInv, QueueTypes, BatchTypes
<1>2. /\ app \o decrypted \in Queue /\ InOrder(app \o decrypted)
      /\ ToSet(app \o decrypted) = ToSet(app) \cup ToSet(decrypted)
  <2>1. Ahead(ToSet(app), ToSet(decrypted))
    BY DEF OrderInv, Order, Stages, Ahead
  <2>. QED
    BY <1>1, <2>1, QueueConcat DEF OrderInv, Order
<1> DEFINE q2 == app \o decrypted
           q3 == q2 \o batch.plain
           q4 == q3 \o encrypted
           q5 == q4 \o items
<1> HIDE DEF q2, q3, q4, q5
<1>3. q3 \in Queue /\ InOrder(q3) /\ ToSet(q3) = ToSet(q2) \cup ToSet(batch.plain)
  <2>1. Ahead(ToSet(q2), ToSet(batch.plain))
    BY <1>2 DEF q2, OrderInv, Order, Stages, Ahead
  <2>. QED
    BY <1>1, <1>2, <2>1, QueueConcat DEF q2, q3, OrderInv, Order
<1>4. q4 \in Queue /\ InOrder(q4) /\ ToSet(q4) = ToSet(q3) \cup ToSet(encrypted)
  <2>1. Ahead(ToSet(q3), ToSet(encrypted))
    BY <1>2, <1>3 DEF q2, OrderInv, Order, Stages, Ahead
  <2>. QED
    BY <1>1, <1>3, <2>1, QueueConcat DEF q4, OrderInv, Order
<1>5. q5 \in Queue /\ InOrder(q5) /\ ToSet(q5) = ToSet(q4) \cup ToSet(items)
  <2>1. Ahead(ToSet(q4), ToSet(items))
    BY <1>2, <1>3, <1>4 DEF q2, OrderInv, Order, Stages, Ahead
  <2>. QED
    BY <1>1, <1>4, <2>1, QueueConcat DEF q5, OrderInv, Order
<1>6. /\ q5 \o incoming \in Queue /\ InOrder(q5 \o incoming)
      /\ ToSet(q5 \o incoming) = ToSet(q5) \cup ToSet(incoming)
  <2>1. Ahead(ToSet(q5), ToSet(incoming))
    BY <1>2, <1>3, <1>4, <1>5 DEF q2, OrderInv, Order, Stages, Ahead
  <2>. QED
    BY <1>1, <1>5, <2>1, QueueConcat DEF OrderInv, Order
<1>7. Pipeline = q5 \o incoming
  BY DEF Pipeline, q2, q3, q4, q5
<1>8. ToSet(q2) = ToSet(app) \cup ToSet(decrypted)
  BY <1>2 DEF q2
<1>. QED
  BY <1>3, <1>4, <1>5, <1>6, <1>7, <1>8

\* No envelope overtakes another between the socket and the application.
THEOREM NoneOvertakes == Spec => []ArrivalOrder
<1>1. ASSUME TypeInv, OrderInv, NEW i \in LivePlaces, NEW j \in LivePlaces, i < j
      PROVE  Pipeline[i].id < Pipeline[j].id
  <2>1. /\ i \in DOMAIN Pipeline /\ j \in DOMAIN Pipeline
        /\ Pipeline[i].live /\ Pipeline[j].live
    BY DEF LivePlaces
  <2>2. Precedes(Pipeline[i], Pipeline[j])
    BY <1>1, <2>1, PipelineInOrder DEF InOrder, Pairwise
  <2>. QED
    BY <2>1, <2>2 DEF Precedes
<1>2. TypeInv /\ OrderInv => ArrivalOrder
  BY <1>1 DEF ArrivalOrder
<1>. QED
  BY PipelineInvariance, <1>2, PTL

\* When the application is told that the queue is empty, what is left in the
\* pipeline was received after the server said so.
THEOREM EmptyIsLast == Spec => EmptyMeansDrained
<1>1. ASSUME TypeInv, OrderInv, app # <<>>, Head(app).kind = "empty",
             NEW i \in LivePlaces
      PROVE  Pipeline[i].id > Head(app).id
  <2>1. i \in DOMAIN Pipeline /\ Pipeline[i].live
    BY DEF LivePlaces
  <2> DEFINE x == Pipeline[i]
             h == Head(app)
  <2>2. /\ ToSet(app) = {h} \cup ToSet(Tail(app))
        /\ Ahead({h}, ToSet(Tail(app)))
    BY <1>1, QueueTail DEF TypeInv, QueueTypes, OrderInv, Order
  <2>3. x # h
    BY <1>1, <2>1, <2>2 DEF TypeInv, Fit, Fits
  <2>4. x \in ToSet(Tail(app)) \cup ToSet(decrypted) \cup ToSet(batch.plain)
              \cup ToSet(encrypted) \cup ToSet(items) \cup ToSet(incoming)
    <3>1. x \in ToSet(Pipeline)
      BY <2>1 DEF ToSet
    <3>. QED
      BY <1>1, <2>2, <2>3, <3>1, PipelineInOrder
  <2>5. Precedes(h, x)
    BY <1>1, <2>2, <2>4 DEF OrderInv, Order, Stages, Ahead
  <2>6. h.id < x.id
    BY <1>1, <2>1, <2>5 DEF Precedes
  <2>7. h.id \in Nat /\ x.id \in Nat
    BY <1>1, <2>1, <2>2, PipelineInOrder, QueueSet
       DEF Entries, ToSet, TypeInv, QueueTypes
  <2> HIDE DEF x, h
  <2>8. x.id > h.id
    BY <2>6, <2>7
  <2>. QED
    BY <2>8 DEF x, h
<1>2. TypeInv /\ OrderInv /\ [Next]_vars =>
        [app # <<>> /\ Head(app).kind = "empty" /\ app' = Tail(app)
           => \A i \in LivePlaces : Pipeline[i].id > Head(app).id]_vars
  BY <1>1
<1>. QED
  BY PipelineInvariance, <1>2, PTL DEF EmptyMeansDrained, Spec

-----------------------------------------------------------------------------
\* No two decryptions of one row.

\* What the theorems about durability need of an execution: #queueAllCached
\* loads no row whose decryption is queued, which a reconnection or the retry
\* timer may make it do.
LoadsAlone ==
    QueueAllCached /\ ~stopping => \A x \in ToSet(items) : rows[x.id] # "encrypted"
NoOverlap == [][LoadsAlone]_vars

\* No row is to be decrypted twice, nor once it has its plaintext, and what has
\* just come has no row.
Separate(N, I, E, P, F, r) ==
    /\ Apart(N, I) /\ Apart(N, E) /\ Apart(I, E)
    /\ Apart(P \cup F, N \cup I \cup E) /\ Apart(P, F)
    /\ \A x \in I \cup E \cup P \cup F :
          x.kind = "decrypt" => r[x.id] # "decrypted"
    /\ \A x \in N : x.kind = "message" => r[x.id] = "none"

\* The entries the running batch has tried.
TriedPlain == IF batch.phase = "decrypting" THEN ToSet(batch.plain) ELSE {}
TriedFailed == IF batch.phase = "decrypting" THEN ToSet(batch.failed) ELSE {}

SeparateInv ==
    /\ Distinct(incoming) /\ Distinct(items) /\ Distinct(encrypted)
    /\ Separate(ToSet(incoming), ToSet(items), ToSet(encrypted), TriedPlain,
                TriedFailed, rows)

\* Entries leave, and no row gets a plaintext or comes back.
LEMMA SeparateShrinks ==
    ASSUME NEW N, NEW I, NEW E, NEW P, NEW F, NEW r, NEW r2,
           Separate(N, I, E, P, F, r),
           NEW N2 \in SUBSET N, NEW I2 \in SUBSET I, NEW E2 \in SUBSET E,
           NEW P2 \in SUBSET P, NEW F2 \in SUBSET F,
           \A x \in N \cup I \cup E \cup P \cup F :
              r2[x.id] = r[x.id] \/ r2[x.id] = "none"
    PROVE  Separate(N2, I2, E2, P2, F2, r2)
BY DEF Separate, Apart

\* A task that is no decryption is separate from all.
LEMMA SeparateTask ==
    ASSUME NEW N, NEW I, NEW E, NEW P, NEW F, NEW r, NEW e,
           Separate(N, I, E, P, F, r), e.kind \notin Undecrypted
    PROVE  /\ Separate(N \cup {e}, I, E, P, F, r)
           /\ Separate(N, I, E \cup {e}, P, F, r)
<1>1. e.kind # "message" /\ e.kind # "decrypt"
  BY DEF Undecrypted
<1>2. Separate(N \cup {e}, I, E, P, F, r)
  BY <1>1 DEF Separate, Apart, Differ
<1>3. Separate(N, I, E \cup {e}, P, F, r)
  BY <1>1 DEF Separate, Apart, Differ
<1>. QED
  BY <1>2, <1>3

\* Nothing is queued at first.
LEMMA SeparateInitially == Init => SeparateInv
<1>1. SUFFICES ASSUME Init PROVE SeparateInv
  OBVIOUS
<1>2. /\ encrypted = <<>> /\ items = <<>> /\ incoming = <<>>
      /\ TriedPlain = {} /\ TriedFailed = {}
  BY <1>1 DEF Init, InitProcess, NoBatch, TriedPlain, TriedFailed
<1>3. Separate({}, {}, {}, {}, {}, rows)
  BY DEF Separate, Apart
<1>. QED
  BY <1>2, <1>3, QueueEmpty DEF SeparateInv

\* Connect, DeliverEmpty, RetryFires and WaitForCacheAddBatcher.
LEMMA SeparateJoins ==
    ASSUME TypeInv, SeparateInv, NEW e \in Entries, e.kind \notin Undecrypted,
           incoming' = Append(incoming, e), UNCHANGED <<batch, encrypted, items, rows>>
    PROVE  SeparateInv'
<1>1. Distinct(incoming') /\ ToSet(incoming') = ToSet(incoming) \cup {e}
  <2>1. Apart(ToSet(incoming), {e})
    BY DEF Apart, Differ
  <2>. QED
    BY <2>1, QueueAppend DEF TypeInv, QueueTypes, SeparateInv
<1>2. Separate(ToSet(incoming) \cup {e}, ToSet(items), ToSet(encrypted),
               TriedPlain, TriedFailed, rows)
  BY SeparateTask DEF SeparateInv
<1>. QED
  BY <1>1, <1>2 DEF SeparateInv, TriedPlain, TriedFailed

\* The tasks these queue on the incoming queue are no decryptions.
LEMMA SeparateConnect ==
    ASSUME TypeInv, SeparateInv,
           \/ Connect \/ DeliverEmpty \/ RetryFires
           \/ \E m \in draining : WaitForCacheAddBatcher(m)
    PROVE  SeparateInv'
<1>1. \E e \in Entries : e.kind \notin Undecrypted /\ incoming' = Append(incoming, e)
  <2>1. \A k \in {"cached", "empty", "drained"} : \A n \in Nat :
           Plain(k, n) \in Entries /\ Plain(k, n).kind \notin Undecrypted
    BY DEF Plain, Entry, Entries, Undecrypted
  <2>2. Len(received) \in Nat /\ 0 \in Nat /\ draining \subseteq Nat
    BY LenProperties DEF TypeInv, NetTypes, WorkTypes
  <2>. QED
    BY <2>1, <2>2 DEF Connect, DeliverEmpty, RetryFires, WaitForCacheAddBatcher
<1>2. UNCHANGED <<batch, encrypted, items, rows>>
  BY DEF Connect, DeliverEmpty, RetryFires, WaitForCacheAddBatcher, disk
<1>. QED
  BY <1>1, <1>2, SeparateJoins

\* A new delivery is no row that is queued already.
LEMMA NewRow ==
    ASSUME TypeInv, Deliver
    PROVE  /\ rows'[Len(received) + 1] = "none"
           /\ \A n \in Ids : rows'[n] = rows[n]
           /\ Len(received) + 1 \notin Ids
<1>1. /\ Len(received) \in Nat /\ Ids = 1..Len(received)
      /\ rows \in [1..Len(received) -> {"none", "encrypted", "decrypted"}]
      /\ rows' = Append(rows, "none")
  BY NewDelivery DEF TypeInv, DiskTypes, Deliver
<1>2. /\ Append(rows, "none")[Len(received) + 1] = "none"
      /\ \A i \in 1..Len(received) : Append(rows, "none")[i] = rows[i]
  BY <1>1, ColumnAppend
<1>. QED
  BY <1>1, <1>2

\* handleRequest: the row is new.
LEMMA SeparateDeliver == ASSUME TypeInv, SeparateInv, Deliver PROVE SeparateInv'
<1>0. Len(received) \in Nat /\ Len(received') = Len(received) + 1
  BY NewDelivery
<1> DEFINE n == Len(received) + 1
           e == Entry("message", n, 0, TRUE)
<1>1. e \in Entries /\ e.kind = "message" /\ e.id = n
  BY <1>0 DEF Entry, Entries
<1>2. incoming' = Append(incoming, e)
  BY <1>0 DEF Deliver
<1>3. rows'[n] = "none" /\ n \notin Ids /\ \A i \in Ids : rows'[i] = rows[i]
  BY NewRow
<1> HIDE DEF e, n
<1> DEFINE S == ToSet(incoming) \cup ToSet(items) \cup ToSet(encrypted)
                  \cup TriedPlain \cup TriedFailed
<1>4. \A x \in S : x.kind \in Undecrypted => x.id \in Ids
  BY DEF TypeInv, Fit, Fits, ToDecrypt, Undecrypted, Carriers, TriedPlain,
     TriedFailed
<1>5. \A x \in S : Differ(x, e) /\ Differ(e, x)
  BY <1>1, <1>3, <1>4 DEF Differ
<1>6. Distinct(incoming') /\ ToSet(incoming') = ToSet(incoming) \cup {e}
  <2>1. Apart(ToSet(incoming), {e})
    BY <1>5 DEF Apart
  <2>. QED
    BY <1>1, <1>2, <2>1, QueueAppend DEF TypeInv, QueueTypes, SeparateInv
<1>7. Separate(ToSet(incoming) \cup {e}, ToSet(items), ToSet(encrypted),
               TriedPlain, TriedFailed, rows')
  <2>1. \A x \in S : x.kind \in Undecrypted => rows'[x.id] = rows[x.id]
    BY <1>3, <1>4
  <2>. QED
    BY <1>1, <1>3, <1>5, <2>1 DEF SeparateInv, Separate, Apart, Undecrypted
<1>. QED
  BY <1>6, <1>7 DEF SeparateInv, TriedPlain, TriedFailed, Deliver

\* decryptAndCache: the entry moves, with its row.
LEMMA SeparateReceive == ASSUME TypeInv, SeparateInv, Receive PROVE SeparateInv'
<1> DEFINE h == Head(incoming)
           e == [h EXCEPT !.kind = "decrypt"]
<1>1. /\ h \in Entries /\ h.kind = "message"
      /\ ToSet(incoming) = {h} \cup ToSet(incoming')
      /\ Distinct(incoming') /\ Apart({h}, ToSet(incoming'))
  BY QueueTail DEF TypeInv, QueueTypes, Receive, SeparateInv
<1>2. e \in Entries /\ e.id = h.id /\ e.kind = "decrypt"
  BY <1>1 DEF Entries
<1>3. items' = Append(items, e)
  BY DEF Receive
<1> HIDE DEF h, e
<1>4. \A x : (Differ(h, x) => Differ(e, x)) /\ (Differ(x, h) => Differ(x, e))
             /\ (Differ(h, x) => Differ(x, e))
  BY <1>1, <1>2 DEF Differ, Undecrypted
<1>5. Distinct(items') /\ ToSet(items') = ToSet(items) \cup {e}
  <2>1. Apart(ToSet(items), {e})
    BY <1>1, <1>4 DEF SeparateInv, Separate, Apart
  <2>. QED
    BY <1>2, <1>3, <2>1, QueueAppend DEF TypeInv, QueueTypes, SeparateInv
<1>6. Separate(ToSet(incoming'), ToSet(items) \cup {e}, ToSet(encrypted),
               TriedPlain, TriedFailed, rows)
  BY <1>1, <1>2, <1>4 DEF SeparateInv, Separate, Apart
<1>. QED
  BY <1>1, <1>5, <1>6 DEF SeparateInv, TriedPlain, TriedFailed, Receive, disk

\* queueAllCached: the rows it loads are no longer queued.
LEMMA SeparateQueueAllCached ==
    ASSUME TypeInv, SeparateInv, LoadsAlone, QueueAllCached PROVE SeparateInv'
<1>0. /\ incoming' = Tail(incoming) /\ incoming # <<>> /\ batch' = batch
  BY DEF QueueAllCached
<1>1. Distinct(incoming') /\ ToSet(incoming') \subseteq ToSet(incoming)
  BY <1>0, QueueTail DEF TypeInv, QueueTypes, SeparateInv
<1>2. CASE stopping
  <2>1. UNCHANGED <<items, encrypted, rows>>
    BY <1>2 DEF QueueAllCached
  <2>2. Separate(ToSet(incoming'), ToSet(items), ToSet(encrypted), TriedPlain,
                 TriedFailed, rows)
    BY <1>1, SeparateShrinks DEF SeparateInv
  <2>. QED
    BY <1>0, <1>1, <2>1, <2>2 DEF SeparateInv, TriedPlain, TriedFailed
<1>3. CASE ~stopping
  <2> DEFINE I == Requeued("decrypt", Fetched("encrypted"))
             E == Requeued("handoff", Fetched("decrypted"))
  <2>1. /\ items' = items \o I /\ encrypted' = encrypted \o E
        /\ rows' = [n \in Ids |-> IF n \in Worn THEN "none" ELSE rows[n]]
    BY <1>3, LoadsRows
  <2>2. /\ I \in Queue /\ E \in Queue /\ Distinct(I) /\ Distinct(E)
        /\ \A x \in ToSet(I) : /\ x.kind = "decrypt" /\ rows[x.id] = "encrypted"
                               /\ x.id \in Ids
        /\ \A x \in ToSet(E) : x.kind = "handoff"
    BY RequeuedFacts DEF Cached
  <2> HIDE DEF I, E
  <2>3. /\ items \in Queue /\ encrypted \in Queue
        /\ Distinct(items) /\ Distinct(encrypted)
    BY DEF TypeInv, QueueTypes, SeparateInv
  <2>4. /\ batch.phase # "decrypting"
        /\ \A x \in ToSet(encrypted) : x.kind # "decrypt" /\ x.kind # "message"
    BY <1>3 DEF QueueAllCached, TypeInv, Phases, Fit, Fits
  <2>5. \A x \in ToSet(items) : rows[x.id] # "encrypted"
    BY <1>3 DEF LoadsAlone
  <2>6. /\ Apart(ToSet(items), ToSet(I)) /\ Apart(ToSet(encrypted), ToSet(E))
        /\ Apart(ToSet(items), ToSet(E))
        /\ Apart(ToSet(I), ToSet(encrypted) \cup ToSet(E))
        /\ Apart(ToSet(incoming), ToSet(I) \cup ToSet(E))
    <3>1. \A x \in ToSet(incoming) : x.kind \in Undecrypted => rows[x.id] = "none"
      BY DEF SeparateInv, Separate, TypeInv, Fit, Fits, Undecrypted
    <3>. QED
      BY <2>2, <2>4, <2>5, <3>1 DEF Apart, Differ, Undecrypted
  <2>7. /\ Distinct(items') /\ ToSet(items') = ToSet(items) \cup ToSet(I)
        /\ Distinct(encrypted')
        /\ ToSet(encrypted') = ToSet(encrypted) \cup ToSet(E)
    BY <2>1, <2>2, <2>3, <2>6, QueueConcat
  <2>8. TriedPlain = {} /\ TriedFailed = {} /\ TriedPlain' = {} /\ TriedFailed' = {}
    BY <1>0, <2>4 DEF TriedPlain, TriedFailed
  <2>9. \A n \in Ids : rows'[n] = rows[n] \/ rows'[n] = "none"
    BY <2>1
  <2>10. Separate(ToSet(incoming'), ToSet(items) \cup ToSet(I),
                  ToSet(encrypted) \cup ToSet(E), {}, {}, rows')
    <3>1. \A x \in ToSet(incoming) \cup ToSet(items) \cup ToSet(encrypted) :
             x.kind \in Undecrypted => x.id \in Ids
      BY DEF TypeInv, Fit, Fits, Carriers, Undecrypted
    <3>2. /\ Apart(ToSet(incoming'), ToSet(items) \cup ToSet(I))
          /\ Apart(ToSet(incoming'), ToSet(encrypted) \cup ToSet(E))
          /\ Apart(ToSet(items) \cup ToSet(I), ToSet(encrypted) \cup ToSet(E))
      BY <1>1, <2>6 DEF SeparateInv, Separate, Apart
    <3>3. \A x \in ToSet(items) \cup ToSet(I) \cup ToSet(encrypted) \cup ToSet(E) :
             x.kind = "decrypt" => rows'[x.id] # "decrypted"
      <4>1. \A x \in ToSet(items) \cup ToSet(I) :
               x.kind = "decrypt" => rows[x.id] # "decrypted" /\ x.id \in Ids
        BY <2>2, <3>1 DEF SeparateInv, Separate, Undecrypted
      <4>. QED
        BY <2>2, <2>4, <2>9, <4>1
    <3>4. \A x \in ToSet(incoming') : x.kind = "message" => rows'[x.id] = "none"
      BY <1>1, <2>9, <3>1 DEF SeparateInv, Separate, Undecrypted
    <3>. QED
      BY <3>2, <3>3, <3>4 DEF Separate, Apart
  <2>. QED
    BY <1>1, <2>7, <2>8, <2>10 DEF SeparateInv
<1>. QED
  BY <1>2, <1>3

\* A batch begins: its items are the first of those that wait.
LEMMA SeparateStartBatch == ASSUME TypeInv, SeparateInv, StartBatch PROVE SeparateInv'
<1>1. PICK k \in 1..Len(items) :
          /\ batch' = [NoBatch EXCEPT !.phase = "decrypting",
                                      !.items = SubSeq(items, 1, k)]
          /\ items' = SubSeq(items, k + 1, Len(items))
          /\ encrypted' = encrypted \o SubSeq(items, 1, k)
  BY DEF StartBatch
<1> DEFINE first == SubSeq(items, 1, k)
<1>2. /\ first \in Queue /\ items' \in Queue
      /\ ToSet(first) \subseteq ToSet(items)
      /\ ToSet(items') \subseteq ToSet(items)
      /\ Distinct(first) /\ Distinct(items')
      /\ Apart(ToSet(first), ToSet(items'))
  <2>1. items \in Queue /\ Distinct(items)
    BY DEF TypeInv, QueueTypes, SeparateInv
  <2>2. first = SubSeq(items, 1, k) /\ items' = SubSeq(items, k + 1, Len(items))
    BY <1>1
  <2> HIDE DEF first
  <2>3. /\ first \in Queue /\ items' \in Queue
        /\ ToSet(first) \subseteq ToSet(items)
        /\ ToSet(items') \subseteq ToSet(items)
        /\ Distinct(items) => /\ Distinct(first) /\ Distinct(items')
                              /\ Apart(ToSet(first), ToSet(items'))
    BY <1>1, <2>1, <2>2, QueueSplit
  <2>. QED
    BY <2>1, <2>3
<1>3. /\ batch'.plain = <<>> /\ batch'.failed = <<>> /\ rows' = rows
      /\ incoming' = incoming
  BY <1>1 DEF NoBatch, StartBatch, disk
<1>4. encrypted' = encrypted \o first
  BY <1>1
<1> HIDE DEF first
<1>5. /\ Distinct(encrypted')
      /\ ToSet(encrypted') = ToSet(encrypted) \cup ToSet(first)
  <2>1. Apart(ToSet(encrypted), ToSet(first))
    BY <1>2 DEF SeparateInv, Separate, Apart, Differ
  <2>. QED
    BY <1>2, <1>4, <2>1, QueueConcat DEF TypeInv, QueueTypes, SeparateInv
<1>6. TriedPlain' = {} /\ TriedFailed' = {}
  BY <1>3, QueueEmpty DEF TriedPlain, TriedFailed
<1>7. Separate(ToSet(incoming), ToSet(items'), ToSet(encrypted) \cup ToSet(first),
               {}, {}, rows)
  <2>1. /\ Apart(ToSet(incoming), ToSet(items'))
        /\ Apart(ToSet(incoming), ToSet(encrypted) \cup ToSet(first))
        /\ Apart(ToSet(items'), ToSet(encrypted) \cup ToSet(first))
    BY <1>2 DEF SeparateInv, Separate, Apart, Differ
  <2>2. \A x \in ToSet(items') \cup ToSet(encrypted) \cup ToSet(first) :
           x.kind = "decrypt" => rows[x.id] # "decrypted"
    BY <1>2 DEF SeparateInv, Separate
  <2>3. \A x \in ToSet(incoming) : x.kind = "message" => rows[x.id] = "none"
    BY DEF SeparateInv, Separate
  <2>. QED
    BY <2>1, <2>2, <2>3 DEF Separate, Apart
<1>. QED
  BY <1>2, <1>3, <1>5, <1>6, <1>7 DEF SeparateInv

\* A decryption: its entry leaves the encrypted queue, for the plaintexts or
\* the failures of the batch.
LEMMA SeparateDecrypt ==
    ASSUME TypeInv, SeparateInv, NEW it, DecryptTask(it) PROVE SeparateInv'
<1>1. /\ encrypted # <<>> /\ it = Head(encrypted) /\ it.kind = "decrypt"
      /\ encrypted' = Tail(encrypted)
      /\ \/ batch'.plain = batch.plain /\ batch'.failed = batch.failed
         \/ batch'.plain = Append(batch.plain, it) /\ batch'.failed = batch.failed
         \/ batch'.plain = batch.plain /\ batch'.failed = Append(batch.failed, it)
      /\ batch'.phase = batch.phase
      /\ UNCHANGED <<items, incoming, rows>>
  <2>1. \A p, f, u, d : DecryptEffect(it, p, f, u, d) =>
           /\ encrypted # <<>> /\ it = Head(encrypted) /\ it.kind = "decrypt"
           /\ encrypted' = Tail(encrypted)
           /\ batch'.plain = p /\ batch'.failed = f /\ batch'.phase = batch.phase
           /\ UNCHANGED <<items, incoming, rows>>
    BY DEF DecryptEffect, TypeInv, BatchTypes, disk
  <2>2. \/ \E u : DecryptEffect(it, Append(batch.plain, it), batch.failed, u,
                              batch.dropped)
        \/ \E u, d : DecryptEffect(it, batch.plain, batch.failed, u, d)
        \/ \E u, d : DecryptEffect(it, batch.plain, Append(batch.failed, it), u, d)
    BY DecryptOutcomes DEF DecryptTask, Rejected
  <2>. QED
    BY <2>1, <2>2
<1>2. /\ it \in Entries /\ Distinct(encrypted')
      /\ ToSet(encrypted) = {it} \cup ToSet(encrypted')
      /\ Apart({it}, ToSet(encrypted'))
  BY <1>1, QueueTail DEF TypeInv, QueueTypes, SeparateInv
<1>3. batch.phase = "decrypting"
  BY <1>1, <1>2 DEF TypeInv, Phases
<1>4. \/ TriedPlain' = TriedPlain /\ TriedFailed' = TriedFailed
      \/ TriedPlain' = TriedPlain \cup {it} /\ TriedFailed' = TriedFailed
      \/ TriedPlain' = TriedPlain /\ TriedFailed' = TriedFailed \cup {it}
  <2>1. /\ ToSet(Append(batch.plain, it)) = ToSet(batch.plain) \cup {it}
        /\ ToSet(Append(batch.failed, it)) = ToSet(batch.failed) \cup {it}
    BY <1>2, QueueAppend DEF TypeInv, BatchTypes
  <2>. QED
    BY <1>1, <1>3, <2>1 DEF TriedPlain, TriedFailed
<1> DEFINE N == ToSet(incoming)
           I == ToSet(items)
           E == ToSet(encrypted')
           P == TriedPlain
           F == TriedFailed
<1>5. Separate(N, I, E \cup {it}, P, F, rows)
  <2>1. E \cup {it} = ToSet(encrypted)
    BY <1>2
  <2>. QED
    BY <2>1 DEF SeparateInv
<1> HIDE DEF N, I, E, P, F
<1>6. /\ Apart({it}, E) /\ it.kind = "decrypt"
  BY <1>1, <1>2 DEF E
<1>7. Separate(N, I, E, P, F, rows) /\ Separate(N, I, E, P \cup {it}, F, rows)
      /\ Separate(N, I, E, P, F \cup {it}, rows)
  <2>1. /\ Apart({it}, N \cup I \cup E) /\ Apart(P \cup F, {it})
        /\ Apart({it}, P \cup F)
    BY <1>5, <1>6 DEF Separate, Apart, Differ
  <2>2. rows[it.id] # "decrypted"
    BY <1>5, <1>6 DEF Separate
  <2>3. /\ Apart(P \cup F \cup {it}, N \cup I \cup E)
        /\ Apart(P \cup {it}, F) /\ Apart(P, F \cup {it}) /\ Apart(P, F)
        /\ Apart(N, I) /\ Apart(N, E) /\ Apart(I, E)
        /\ Apart(P \cup F, N \cup I \cup E)
    BY <1>5, <2>1 DEF Separate, Apart
  <2>. QED
    BY <1>5, <2>2, <2>3 DEF Separate, Apart
<1>8. Separate(N, I, E, TriedPlain', TriedFailed', rows)
  BY <1>4, <1>7 DEF P, F
<1>. QED
  BY <1>1, <1>2, <1>8 DEF SeparateInv, N, I, E

\* The batch is over: what it stored is separate from what waits.
LEMMA SeparateCommitBatch ==
    ASSUME TypeInv, SeparateInv, CommitBatch PROVE SeparateInv'
<1>1. /\ batch.phase = "decrypting" /\ batch'.phase = "stored"
      /\ \A x \in ToSet(encrypted) : x.kind # "decrypt" /\ x.kind # "message"
      /\ rows' = [n \in Ids |-> IF n \in Stored THEN StoredRow(n) ELSE rows[n]]
      /\ UNCHANGED <<incoming, items, encrypted>>
  BY DEF CommitBatch, AllDecrypted, ToSet, TypeInv, BatchTypes, Fit, Fits
<1>2. TriedPlain' = {} /\ TriedFailed' = {}
  BY <1>1 DEF TriedPlain, TriedFailed
<1>3. Stored = {x.id : x \in TriedPlain \cup TriedFailed}
  BY <1>1 DEF Stored, IdsIn, ToSet, TriedPlain, TriedFailed
<1>4. \A x \in TriedPlain \cup TriedFailed : x.kind = "decrypt"
  BY <1>1 DEF TriedPlain, TriedFailed, TypeInv, Fit, Fits, ToDecrypt
<1>5. \A x \in ToSet(incoming) \cup ToSet(items) :
         x.kind \in Undecrypted => x.id \in Ids /\ x.id \notin Stored
  <2>1. \A x \in ToSet(incoming) \cup ToSet(items) :
           x.kind \in Undecrypted => x.id \in Ids
    BY DEF TypeInv, Fit, Fits, Carriers, Undecrypted
  <2>. QED
    BY <1>3, <1>4, <2>1 DEF SeparateInv, Separate, Apart, Differ, Undecrypted
<1>6. \A x \in ToSet(incoming) \cup ToSet(items) :
         x.kind \in Undecrypted => rows'[x.id] = rows[x.id]
  BY <1>1, <1>5
<1>7. Separate(ToSet(incoming), ToSet(items), ToSet(encrypted), {}, {}, rows')
  <2>1. /\ Apart(ToSet(incoming), ToSet(items))
        /\ Apart(ToSet(incoming), ToSet(encrypted))
        /\ Apart(ToSet(items), ToSet(encrypted))
    BY DEF SeparateInv, Separate
  <2>2. \A x \in ToSet(items) : x.kind = "decrypt" => rows[x.id] # "decrypted"
    BY DEF SeparateInv, Separate
  <2>3. \A x \in ToSet(incoming) : x.kind = "message" => rows[x.id] = "none"
    BY DEF SeparateInv, Separate
  <2>. QED
    BY <1>1, <1>6, <2>1, <2>2, <2>3 DEF Separate, Apart, Undecrypted
<1>. QED
  BY <1>1, <1>2, <1>7 DEF SeparateInv

\* The batch is gone, refused or acknowledged.
LEMMA SeparateEndBatch ==
    ASSUME TypeInv, SeparateInv, CommitFails \/ AckBatch PROVE SeparateInv'
<1>1. batch' = NoBatch /\ UNCHANGED <<incoming, items, encrypted, rows>>
  BY DEF CommitFails, AckBatch, disk
<1>2. TriedPlain' = {} /\ TriedFailed' = {}
  BY <1>1 DEF TriedPlain, TriedFailed, NoBatch
<1>3. Separate(ToSet(incoming), ToSet(items), ToSet(encrypted), {}, {}, rows)
  BY SeparateShrinks DEF SeparateInv
<1>. QED
  BY <1>1, <1>2, <1>3 DEF SeparateInv

\* A task that is no decryption leaves a queue, or goes to the next one.
LEMMA SeparatePasses ==
    ASSUME TypeInv, SeparateInv,
           PassToDecrypted \/ OnEmpty \/ WaitForIncomingQueue
    PROVE  SeparateInv'
<1>1. CASE PassToDecrypted
  <2>1. /\ encrypted' = Tail(encrypted) /\ encrypted # <<>>
        /\ UNCHANGED <<incoming, items, batch, rows>>
    BY <1>1 DEF PassToDecrypted, disk
  <2>2. Distinct(encrypted') /\ ToSet(encrypted') \subseteq ToSet(encrypted)
    BY <2>1, QueueTail DEF TypeInv, QueueTypes, SeparateInv
  <2>3. Separate(ToSet(incoming), ToSet(items), ToSet(encrypted'), TriedPlain,
                 TriedFailed, rows)
    BY <2>2, SeparateShrinks DEF SeparateInv
  <2>. QED
    BY <2>1, <2>2, <2>3 DEF SeparateInv, TriedPlain, TriedFailed
<1>2. CASE OnEmpty \/ WaitForIncomingQueue
  <2>1. /\ incoming' = Tail(incoming) /\ incoming # <<>>
        /\ UNCHANGED <<items, batch, rows>>
    BY <1>2 DEF OnEmpty, WaitForIncomingQueue, disk
  <2>2. /\ Distinct(incoming') /\ ToSet(incoming') \subseteq ToSet(incoming)
        /\ Head(incoming) \in Entries
    BY <2>1, QueueTail DEF TypeInv, QueueTypes, SeparateInv
  <2>3. Separate(ToSet(incoming'), ToSet(items), ToSet(encrypted), TriedPlain,
                 TriedFailed, rows)
    BY <2>2, SeparateShrinks DEF SeparateInv
  <2>4. CASE OnEmpty
    <3>1. encrypted' = encrypted
      BY <2>4 DEF OnEmpty
    <3>. QED
      BY <2>1, <2>2, <2>3, <3>1 DEF SeparateInv, TriedPlain, TriedFailed
  <2>5. CASE WaitForIncomingQueue
    <3> DEFINE e == Plain("empty", Head(incoming).id)
    <3>1. e \in Entries /\ e.kind = "empty" /\ encrypted' = Append(encrypted, e)
      BY <2>2, <2>5 DEF WaitForIncomingQueue, Plain, Entry, Entries
    <3> HIDE DEF e
    <3>2. e.kind \notin Undecrypted
      BY <3>1 DEF Undecrypted
    <3>3. Distinct(encrypted') /\ ToSet(encrypted') = ToSet(encrypted) \cup {e}
      <4>1. Apart(ToSet(encrypted), {e})
        BY <3>2 DEF Apart, Differ
      <4>. QED
        BY <3>1, <4>1, QueueAppend DEF TypeInv, QueueTypes, SeparateInv
    <3>4. Separate(ToSet(incoming'), ToSet(items), ToSet(encrypted) \cup {e},
                   TriedPlain, TriedFailed, rows)
      BY <2>3, <3>2, SeparateTask
    <3>. QED
      BY <2>1, <2>2, <3>3, <3>4 DEF SeparateInv, TriedPlain, TriedFailed
  <2>. QED
    BY <1>2, <2>4, <2>5
<1>. QED
  BY <1>1, <1>2

\* A row is removed; or the queues, the entries of the batch and the rows stay.
LEMMA SeparateStays ==
    ASSUME TypeInv, SeparateInv,
           UNCHANGED <<incoming, items, encrypted>>,
           batch'.phase = batch.phase, batch'.plain = batch.plain,
           batch'.failed = batch.failed,
           \/ rows' = rows
           \/ \E n \in Ids : rows' = [rows EXCEPT ![n] = "none"]
    PROVE  SeparateInv'
<1>1. TriedPlain' = TriedPlain /\ TriedFailed' = TriedFailed
  BY DEF TriedPlain, TriedFailed
<1>2. \A x : rows'[x] = rows[x] \/ rows'[x] = "none"
  <2>1. CASE rows' = rows
    BY <2>1
  <2>2. CASE \E n \in Ids : rows' = [rows EXCEPT ![n] = "none"]
    <3>1. PICK n \in Ids : rows' = [rows EXCEPT ![n] = "none"]
      BY <2>2
    <3>2. rows \in [Ids -> {"none", "encrypted", "decrypted"}]
      BY DEF TypeInv, DiskTypes
    <3>. QED
      BY <3>1, <3>2
  <2>. QED
    BY <2>1, <2>2
<1>3. Separate(ToSet(incoming), ToSet(items), ToSet(encrypted), TriedPlain,
               TriedFailed, rows')
  BY <1>2, SeparateShrinks DEF SeparateInv
<1>. QED
  BY <1>1, <1>3 DEF SeparateInv

\* The process dies.
LEMMA SeparateCrash == ASSUME TypeInv, SeparateInv, Crash PROVE SeparateInv'
<1>1. /\ incoming' = <<>> /\ items' = <<>> /\ encrypted' = <<>>
      /\ TriedPlain' = {} /\ TriedFailed' = {}
  BY DEF Crash, NoBatch, TriedPlain, TriedFailed
<1>2. Separate({}, {}, {}, {}, {}, rows')
  BY DEF Separate, Apart
<1>. QED
  BY <1>1, <1>2, QueueEmpty DEF SeparateInv

\* Every step keeps the rows apart, as long as no load overlaps.
LEMMA SeparateStep ==
    TypeInv /\ SeparateInv /\ [Next]_vars /\ [LoadsAlone]_vars => SeparateInv'
<1>1. SUFFICES ASSUME TypeInv, SeparateInv, [Next]_vars, [LoadsAlone]_vars
               PROVE  SeparateInv'
  OBVIOUS
<1>2. CASE UNCHANGED vars
  BY <1>1, <1>2, SeparateStays DEF vars, queues, disk
<1>3. CASE Disconnect \/ Unregister \/ PassToApp \/ DispatchError
           \/ ScheduleRetry \/ Dispatch \/ EmitEmpty
  <2>1. UNCHANGED <<incoming, items, encrypted, batch, rows>>
    BY <1>3 DEF Disconnect, Unregister, PassToApp, DispatchError, ScheduleRetry,
       Dispatch, EmitEmpty, queues, disk
  <2>. QED
    BY <1>1, <2>1, SeparateStays
<1>4. CASE \/ \E it \in zombies : ZombieSucceeds(it)
           \/ \E w \in working : Save(w) \/ Confirm(w) \/ HandlerFails(w)
           \/ \E n \in removals : CacheRemove(n)
  <2>1. /\ UNCHANGED <<incoming, items, encrypted>>
        /\ batch'.phase = batch.phase /\ batch'.plain = batch.plain
        /\ batch'.failed = batch.failed
        /\ \/ rows' = rows
           \/ \E n \in removals : rows' = [rows EXCEPT ![n] = "none"]
    BY <1>1, <1>4 DEF ZombieSucceeds, Save, Confirm, HandlerFails, CacheRemove,
       TypeInv, BatchTypes, disk
  <2>2. removals \subseteq Ids
    BY <1>1 DEF TypeInv, WorkTypes
  <2>. QED
    BY <1>1, <2>1, <2>2, SeparateStays
<1>5. CASE Connect \/ Deliver \/ DeliverEmpty \/ RetryFires \/ Crash
  BY <1>1, <1>5, SeparateConnect, SeparateDeliver, SeparateCrash
<1>6. CASE Receive \/ StartBatch \/ CommitBatch \/ CommitFails \/ AckBatch
           \/ PassToDecrypted \/ OnEmpty \/ WaitForIncomingQueue
  BY <1>1, <1>6, SeparateReceive, SeparateStartBatch, SeparateCommitBatch,
     SeparateEndBatch, SeparatePasses
<1>7. CASE QueueAllCached
  <2>1. LoadsAlone \/ UNCHANGED vars
    BY <1>1
  <2>. QED
    BY <1>1, <1>2, <1>7, <2>1, SeparateQueueAllCached
<1>8. CASE \E it \in ToSet(encrypted) : DecryptTask(it)
  BY <1>1, <1>8, SeparateDecrypt
<1>9. CASE \E m \in draining : WaitForCacheAddBatcher(m)
  BY <1>1, <1>9, SeparateConnect
<1>. QED
  BY <1>1, <1>2, <1>3, <1>4, <1>5, <1>6, <1>7, <1>8, <1>9 DEF Next, Work

-----------------------------------------------------------------------------
\* What the database and the queues keep of what was decrypted.

Done == saved \cup settled
Kept == Done \cup EnvelopesOf({n \in Ids : rows[n] = "decrypted"})
Safe == Held \cup Late
Waiting == {x \in ToSet(encrypted) : x.kind = "decrypt"}

\* A spent key has its plaintext, or was spent by a decryption that came late.
SpentIsKept == used \subseteq Kept \cup Late

\* A running batch: what it has spent has a plaintext, was dropped or is late;
\* every item is tried or waits.
BatchKept ==
    batch.phase = "decrypting" =>
       /\ batch.dropped \subseteq batch.used
       /\ batch.used \subseteq batch.dropped
             \cup {received[x.id] : x \in ToSet(batch.plain) \cup zombies}
       /\ \A x \in ToSet(batch.items) :
             \/ received[x.id] \in batch.dropped
             \/ \E y \in ToSet(batch.plain) \cup ToSet(batch.failed) \cup Waiting :
                   y.id = x.id

\* A committed batch: its items may be acknowledged, its plaintexts handled.
BatchStored ==
    batch.phase = "stored" =>
       /\ batch.used \subseteq used
       /\ \A x \in ToSet(batch.items) : received[x.id] \in Safe
       /\ \A x \in ToSet(batch.plain) : received[x.id] \in Kept

\* A row that will be removed is settled, or will be with the batch, or its key
\* is spent and it holds no plaintext.
MayGo(n) ==
    \/ received[n] \in Done
    \/ batch.phase = "decrypting" /\ received[n] \in batch.dropped
    \/ /\ Spent(received[n]) /\ rows[n] # "decrypted"
       /\ batch.phase = "decrypting" => \A x \in ToSet(batch.plain) : x.id # n
Removable == zone # "leaked" => \A n \in removals : MayGo(n)

\* What goes to the application is kept, and what it saved is saved.
Handled ==
    /\ \A x \in ToSet(encrypted) : x.kind = "handoff" => received[x.id] \in Kept
    /\ \A x \in ToSet(decrypted) \cup ToSet(app) :
          x.kind = "handle" => received[x.id] \in Kept
    /\ \A w \in working : /\ w.kind = "handle" => received[w.id] \in Kept
                          /\ w.kind = "saved" => received[w.id] \in saved

\* What was acknowledged is safe.
Acked == Envelopes \ server \subseteq Safe

KeptInv ==
    SpentIsKept /\ BatchKept /\ BatchStored /\ Removable /\ Handled /\ Acked

\* What a step never takes back.
Keeps ==
    /\ \A n \in Ids : n \in Ids' /\ received'[n] = received[n]
    /\ saved \subseteq saved' /\ Kept \subseteq Kept' /\ Safe \subseteq Safe'

\* A row leaves the database only with its envelope settled, and a plaintext
\* becomes no ciphertext.
LEMMA RowsKeep ==
    ASSUME TypeInv, received' = received,
           saved \subseteq saved', settled \subseteq settled',
           used \subseteq used', zombies \subseteq zombies',
           \A n \in Ids : \/ rows'[n] = rows[n] \/ received[n] \in Done'
                          \/ rows[n] # "decrypted" /\ rows'[n] # "none"
    PROVE  Keeps
<1>1. Ids' = Ids
  BY DEF Ids
<1>2. Done \subseteq Done' /\ Late \subseteq Late'
  BY DEF Done, Late
<1>3. ASSUME NEW n \in Ids
      PROVE  /\ rows[n] = "decrypted" => received[n] \in Kept'
             /\ rows[n] # "none" => received[n] \in Held'
  <2>1. CASE received[n] \in Done'
    BY <2>1 DEF Kept, Held, Done
  <2>2. CASE \/ rows'[n] = rows[n]
             \/ rows[n] # "decrypted" /\ rows'[n] # "none"
    BY <1>1, <2>2 DEF Kept, Held, EnvelopesOf
  <2>. QED
    BY <2>1, <2>2
<1>4. Kept \subseteq Kept' /\ Held \subseteq Held'
  <2>1. Done \subseteq Kept' /\ Done \subseteq Held'
    BY <1>2 DEF Kept, Held, Done
  <2>. QED
    BY <1>3, <2>1 DEF Kept, Held, Done, EnvelopesOf
<1>. QED
  BY <1>1, <1>2, <1>4 DEF Keeps, Safe

\* A delivery makes a new row and leaves the others.
LEMMA DeliverKeeps == ASSUME TypeInv, Deliver PROVE Keeps
<1>1. /\ \A n \in Ids : n \in Ids' /\ received'[n] = received[n]
      /\ \A n \in Ids : rows'[n] = rows[n]
      /\ UNCHANGED <<saved, settled, used, zombies>>
  <2>1. \A n \in Ids : n \in Ids' /\ received'[n] = received[n]
    BY NewDelivery
  <2>2. \A n \in Ids : rows'[n] = rows[n]
    BY NewRow
  <2>3. UNCHANGED <<saved, settled, used, zombies>>
    BY DEF Deliver
  <2>. QED
    BY <2>1, <2>2, <2>3
<1>2. Late \subseteq Late'
  <2>1. \A x \in zombies : x.id \in Ids
    BY DEF TypeInv, Fit, Fits, Carriers
  <2>. QED
    BY <1>1, <2>1 DEF Late
<1>3. Kept \subseteq Kept' /\ Held \subseteq Held'
  BY <1>1 DEF Kept, Held, Done, EnvelopesOf
<1>. QED
  BY <1>1, <1>2, <1>3 DEF Keeps, Safe

\* What is on its way stays handled.
LEMMA HandledKeeps ==
    ASSUME TypeInv, Handled, Keeps,
           \A x \in ToSet(encrypted') : x.kind = "handoff" =>
              x \in ToSet(encrypted) \/ received'[x.id] \in Kept',
           \A x \in ToSet(decrypted') \cup ToSet(app') : x.kind = "handle" =>
              \/ x \in ToSet(decrypted) \cup ToSet(app)
              \/ received'[x.id] \in Kept',
           \A w \in working' :
              \/ w \in working \/ w.kind = "error"
              \/ w.kind = "handle" /\ received'[w.id] \in Kept'
              \/ w.kind = "saved" /\ received'[w.id] \in saved'
    PROVE  Handled'
<1>1. /\ \A x \in ToSet(encrypted) : x.kind = "handoff" => x.id \in Ids
      /\ \A x \in ToSet(decrypted) \cup ToSet(app) : x.kind = "handle" => x.id \in Ids
      /\ \A w \in working : w.id \in Ids
  BY DEF TypeInv, WorkTypes, Fit, Fits, Carriers
<1>2. \A x \in ToSet(encrypted') : x.kind = "handoff" => received'[x.id] \in Kept'
  BY <1>1 DEF Handled, Keeps
<1>3. \A x \in ToSet(decrypted') \cup ToSet(app') :
         x.kind = "handle" => received'[x.id] \in Kept'
  BY <1>1 DEF Handled, Keeps
<1>4. \A w \in working' : /\ w.kind = "handle" => received'[w.id] \in Kept'
                          /\ w.kind = "saved" => received'[w.id] \in saved'
  BY <1>1 DEF Handled, Keeps
<1>. QED
  BY <1>2, <1>3, <1>4 DEF Handled

\* Steps that leave the batch and the database alone.
Quiet ==
    /\ UNCHANGED <<server, received, batch, zombies, zone, removals,
                   rows, used, saved, settled>>
    /\ Waiting' = Waiting

\* They may move what is handled from one queue to the next.
LEMMA KeptQuiet ==
    ASSUME TypeInv, KeptInv, Quiet,
           \A x \in ToSet(encrypted') : x.kind = "handoff" =>
              x \in ToSet(encrypted),
           \A x \in ToSet(decrypted') \cup ToSet(app') : x.kind = "handle" =>
              \/ x \in ToSet(decrypted) \cup ToSet(app)
              \/ received[x.id] \in Kept,
           \A w \in working' :
              \/ w \in working \/ w.kind = "error"
              \/ w.kind = "handle" /\ received[w.id] \in Kept
    PROVE  KeptInv'
<1>1. /\ Kept' = Kept /\ Safe' = Safe /\ Late' = Late /\ received' = received
  BY DEF Quiet, Kept, Safe, Held, Late, Done, EnvelopesOf, Ids
<1>2. Keeps
  BY <1>1 DEF Quiet, Keeps, Ids
<1>3. Handled'
  BY <1>1, <1>2, HandledKeeps DEF KeptInv
<1>4. SpentIsKept' /\ Acked' /\ BatchStored'
  BY <1>1 DEF KeptInv, Quiet, SpentIsKept, Acked, BatchStored
<1>5. BatchKept'
  BY DEF KeptInv, Quiet, BatchKept
<1>6. Removable'
  BY DEF KeptInv, Quiet, Removable, MayGo, Spent, Done
<1>. QED
  BY <1>3, <1>4, <1>5, <1>6 DEF KeptInv

\* Nothing is spent, acknowledged or queued at first.
LEMMA KeptInitially == Init => KeptInv
<1>1. SUFFICES ASSUME Init PROVE KeptInv
  OBVIOUS
<1>2. /\ batch.phase = "idle" /\ removals = {} /\ used = {} /\ working = {}
      /\ server = Envelopes
  BY <1>1 DEF Init, InitProcess, NoBatch
<1>3. ToSet(encrypted) = {} /\ ToSet(decrypted) = {} /\ ToSet(app) = {}
  BY <1>1, QueueEmpty DEF Init, InitProcess
<1>. QED
  BY <1>2, <1>3 DEF KeptInv, SpentIsKept, BatchKept, BatchStored, Removable,
     Handled, Acked

\* The encrypted queue, the decrypted queue, the application and the batch stay.
LEMMA KeptConnect ==
    ASSUME TypeInv, KeptInv,
           \/ Connect \/ Disconnect \/ Unregister \/ DeliverEmpty \/ Receive
           \/ RetryFires \/ OnEmpty
           \/ \E m \in draining : WaitForCacheAddBatcher(m)
           \/ \E w \in working : HandlerFails(w)
    PROVE  KeptInv'
<1>1. /\ UNCHANGED <<server, received, batch, zombies, zone, removals,
                     rows, used, saved, settled>>
      /\ UNCHANGED <<encrypted, decrypted, app>> /\ working' \subseteq working
  BY DEF Connect, Disconnect, Unregister, DeliverEmpty, Receive, RetryFires,
     OnEmpty, WaitForCacheAddBatcher, HandlerFails, net, queues, disk
<1>2. Quiet
  BY <1>1 DEF Quiet, Waiting
<1>. QED
  BY <1>1, <1>2, KeptQuiet

\* onEmpty goes on; a stored plaintext goes on.
LEMMA KeptPassesBatcher ==
    ASSUME TypeInv, KeptInv, WaitForIncomingQueue \/ PassToDecrypted
    PROVE  KeptInv'
<1>1. /\ UNCHANGED <<server, received, batch, zombies, zone, removals,
                     rows, used, saved, settled>>
      /\ UNCHANGED <<app, working>>
  BY DEF WaitForIncomingQueue, PassToDecrypted, net, disk
<1>2. CASE WaitForIncomingQueue
  <2> DEFINE e == Plain("empty", Head(incoming).id)
  <2>1. e \in Entries /\ e.kind = "empty" /\ encrypted' = Append(encrypted, e)
    <3>1. Head(incoming) \in Entries
      BY <1>2, QueueTail DEF WaitForIncomingQueue, TypeInv, QueueTypes
    <3>. QED
      BY <1>2, <3>1 DEF WaitForIncomingQueue, Plain, Entry, Entries
  <2> HIDE DEF e
  <2>2. ToSet(encrypted') = ToSet(encrypted) \cup {e}
    BY <2>1, QueueAppend DEF TypeInv, QueueTypes
  <2>3. decrypted' = decrypted
    BY <1>2 DEF WaitForIncomingQueue
  <2>4. Quiet
    BY <1>1, <2>1, <2>2 DEF Quiet, Waiting
  <2>. QED
    BY <1>1, <2>1, <2>2, <2>3, <2>4, KeptQuiet
<1>3. CASE PassToDecrypted
  <2> DEFINE h == Head(encrypted)
             e == [h EXCEPT !.kind = IF @ = "handoff" THEN "handle" ELSE @]
  <2>1. /\ h \in Entries /\ h.kind \in {"handoff", "empty"}
        /\ ToSet(encrypted) = {h} \cup ToSet(encrypted')
        /\ decrypted' = Append(decrypted, e)
    BY <1>3, QueueTail DEF PassToDecrypted, TypeInv, QueueTypes
  <2>2. /\ e \in Entries /\ e.id = h.id
        /\ e.kind = "handle" => h.kind = "handoff"
    BY <2>1 DEF Entries
  <2> HIDE DEF h, e
  <2>3. ToSet(decrypted') = ToSet(decrypted) \cup {e}
    BY <2>1, <2>2, QueueAppend DEF TypeInv, QueueTypes
  <2>4. e.kind = "handle" => received[e.id] \in Kept
    BY <2>1, <2>2 DEF KeptInv, Handled
  <2>5. Quiet
    BY <1>1, <2>1 DEF Quiet, Waiting
  <2>. QED
    BY <1>1, <2>1, <2>3, <2>4, <2>5, KeptQuiet
<1>. QED
  BY <1>2, <1>3

\* The tasks of the decrypted queue and those of the application.
LEMMA KeptDispatch ==
    ASSUME TypeInv, KeptInv,
           PassToApp \/ DispatchError \/ ScheduleRetry \/ Dispatch \/ EmitEmpty
    PROVE  KeptInv'
<1>1. /\ UNCHANGED <<server, received, batch, zombies, zone, removals,
                     rows, used, saved, settled>>
      /\ encrypted' = encrypted
  BY DEF PassToApp, DispatchError, ScheduleRetry, Dispatch, EmitEmpty, net, disk
<1>2. Quiet
  BY <1>1 DEF Quiet, Waiting
<1>3. decrypted \in Queue /\ app \in Queue
  BY DEF TypeInv, QueueTypes
<1>4. CASE PassToApp
  <2>1. /\ decrypted # <<>> /\ decrypted' = Tail(decrypted)
        /\ app' \in {app, Append(app, Head(decrypted))} /\ working' = working
    BY <1>4 DEF PassToApp
  <2>2. /\ Head(decrypted) \in Entries
        /\ ToSet(decrypted) = {Head(decrypted)} \cup ToSet(decrypted')
    BY <1>3, <2>1, QueueTail
  <2>3. ToSet(app') \subseteq ToSet(app) \cup {Head(decrypted)}
    BY <1>3, <2>1, <2>2, QueueAppend
  <2>. QED
    BY <1>1, <1>2, <2>1, <2>2, <2>3, KeptQuiet
<1>5. CASE DispatchError \/ ScheduleRetry
  <2>1. /\ decrypted # <<>> /\ decrypted' = Tail(decrypted) /\ app' = app
        /\ \A w \in working' : w \in working \/ w.kind = "error"
    BY <1>5 DEF DispatchError, ScheduleRetry
  <2>2. ToSet(decrypted') \subseteq ToSet(decrypted)
    BY <1>3, <2>1, QueueTail
  <2>. QED
    BY <1>1, <1>2, <2>1, <2>2, KeptQuiet
<1>6. CASE Dispatch \/ EmitEmpty
  <2>1. /\ app # <<>> /\ app' = Tail(app) /\ decrypted' = decrypted
        /\ \/ working' = working
           \/ /\ Head(app).kind = "handle"
              /\ working' = working \cup {[kind |-> "handle", id |-> Head(app).id]}
    BY <1>6 DEF Dispatch, EmitEmpty
  <2>2. ToSet(app) = {Head(app)} \cup ToSet(app')
    BY <1>3, <2>1, QueueTail
  <2>3. Head(app).kind = "handle" => received[Head(app).id] \in Kept
    BY <2>2 DEF KeptInv, Handled
  <2>4. \A w \in working' : \/ w \in working
                            \/ w.kind = "handle" /\ received[w.id] \in Kept
    BY <2>1, <2>3
  <2>. QED
    BY <1>1, <1>2, <2>1, <2>2, <2>4, KeptQuiet
<1>. QED
  BY <1>4, <1>5, <1>6

\* A new delivery is not acknowledged, and nothing of it is queued yet.
LEMMA KeptDeliver == ASSUME TypeInv, KeptInv, Deliver PROVE KeptInv'
<1>1. /\ UNCHANGED <<server, batch, zombies, zone, removals, encrypted,
                     decrypted, app, working, used, saved, settled>>
  BY DEF Deliver
<1>2. Keeps /\ \A n \in Ids : received'[n] = received[n] /\ rows'[n] = rows[n]
  BY DeliverKeeps, NewRow DEF Keeps
<1>3. /\ removals \subseteq Ids
      /\ \A x \in ToDecrypt \cup zombies \cup Waiting : x.id \in Ids
  BY DEF TypeInv, WorkTypes, Fit, Fits, Carriers, Waiting
<1>4. SpentIsKept' /\ Acked'
  <2>1. Late \subseteq Late'
    BY <1>1, <1>2, <1>3 DEF Late
  <2>. QED
    BY <1>1, <1>2, <2>1 DEF KeptInv, SpentIsKept, Acked, Keeps
<1>5. BatchKept'
  BY <1>1, <1>2, <1>3 DEF KeptInv, BatchKept, Waiting, ToDecrypt
<1>6. BatchStored'
  BY <1>1, <1>2, <1>3 DEF KeptInv, BatchStored, Keeps, ToDecrypt
<1>7. Removable'
  BY <1>1, <1>2, <1>3 DEF KeptInv, Removable, MayGo, Spent, Done
<1>8. Handled'
  BY <1>1, <1>2, HandledKeeps DEF KeptInv
<1>. QED
  BY <1>4, <1>5, <1>6, <1>7, <1>8 DEF KeptInv

\* The process dies: what the database holds is kept.
LEMMA KeptCrash == ASSUME TypeInv, KeptInv, Crash PROVE KeptInv'
<1>1. /\ UNCHANGED <<server, received, rows, used, saved, settled>>
      /\ batch'.phase = "idle" /\ removals' = {} /\ working' = {}
      /\ ToSet(encrypted') = {} /\ ToSet(decrypted') = {} /\ ToSet(app') = {}
      /\ zombies' = {it \in zombies : received[it.id] \in used}
  BY QueueEmpty DEF Crash, NoBatch, disk
<1>2. Kept' = Kept /\ Late' = Late /\ Held' = Held
  BY <1>1 DEF Kept, Late, Held, Done, EnvelopesOf, Ids
<1>. QED
  BY <1>1, <1>2 DEF KeptInv, SpentIsKept, BatchKept, BatchStored, Removable,
     Handled, Acked, Safe

\* queueAllCached: the rows it gives up are settled, and the plaintexts it
\* queues are in the database.
LEMMA KeptQueueAllCached ==
    ASSUME TypeInv, KeptInv, QueueAllCached PROVE KeptInv'
<1>1. /\ UNCHANGED <<net, draining, batch, zombies, zone, decrypted, app,
                     working, removals, flags, used, saved, spent>>
      /\ incoming' = Tail(incoming) /\ (stopping \/ zone = "free")
  BY DEF QueueAllCached
<1>2. CASE stopping
  <2>1. UNCHANGED <<encrypted, rows, settled>>
    BY <1>2 DEF QueueAllCached
  <2>2. Quiet
    BY <1>1, <2>1 DEF Quiet, Waiting, net
  <2>. QED
    BY <1>1, <2>1, <2>2, KeptQuiet
<1>3. CASE ~stopping
  <2> DEFINE E == Requeued("handoff", Fetched("decrypted"))
  <2>1. /\ encrypted' = encrypted \o E
        /\ rows' = [n \in Ids |-> IF n \in Worn THEN "none" ELSE rows[n]]
        /\ settled' = settled \cup EnvelopesOf(Worn)
    BY <1>3, LoadsRows
  <2>2. /\ E \in Queue
        /\ \A x \in ToSet(E) : /\ x.kind = "handoff" /\ x.id \in Ids
                               /\ rows[x.id] = "decrypted"
    BY RequeuedFacts DEF Cached
  <2> HIDE DEF E
  <2>3. ToSet(encrypted') = ToSet(encrypted) \cup ToSet(E)
    BY <2>1, <2>2, QueueConcat DEF TypeInv, QueueTypes
  <2>4. batch.phase # "decrypting" /\ received' = received /\ Worn \subseteq Ids
    BY <1>1, <1>3 DEF TypeInv, Phases, net, Worn, Cached
  <2>5. Keeps /\ Late' = Late
    <3>1. \A n \in Ids : rows'[n] = rows[n] \/ received[n] \in Done'
      BY <2>1 DEF Done, EnvelopesOf
    <3>2. settled \subseteq settled' /\ zombies' = zombies /\ used' = used
             /\ saved' = saved
      BY <1>1, <2>1
    <3>. QED
      BY <2>4, <3>1, <3>2, RowsKeep DEF Late
  <2>6. SpentIsKept' /\ BatchKept' /\ BatchStored' /\ Acked'
    <3>1. used' = used /\ server' = server /\ batch' = batch
      BY <1>1 DEF net
    <3>. QED
      BY <2>4, <2>5, <3>1 DEF KeptInv, SpentIsKept, BatchKept, BatchStored,
         Acked, Keeps
  <2>7. Removable'
    <3>1. ASSUME NEW n \in Ids, MayGo(n) PROVE MayGo(n)'
      BY <1>1, <2>1, <2>4, <3>1 DEF MayGo, Spent, Done
    <3>2. removals \subseteq Ids /\ removals' = removals /\ zone' = zone
      BY <1>1 DEF TypeInv, WorkTypes
    <3>. QED
      BY <3>1, <3>2 DEF KeptInv, Removable
  <2>8. Handled'
    <3>1. \A x \in ToSet(E) : received'[x.id] \in Kept'
      BY <2>2, <2>4, <2>5 DEF Keeps, Kept, EnvelopesOf
    <3>. QED
      BY <1>1, <2>3, <2>5, <3>1, HandledKeeps DEF KeptInv
  <2>. QED
    BY <2>6, <2>7, <2>8 DEF KeptInv
<1>. QED
  BY <1>2, <1>3

\* A batch begins: all its items wait.
LEMMA KeptStartBatch == ASSUME TypeInv, KeptInv, StartBatch PROVE KeptInv'
<1>1. PICK k \in 1..Len(items) :
          /\ batch' = [NoBatch EXCEPT !.phase = "decrypting",
                                      !.items = SubSeq(items, 1, k)]
          /\ encrypted' = encrypted \o SubSeq(items, 1, k)
  BY DEF StartBatch
<1> DEFINE first == SubSeq(items, 1, k)
<1>2. /\ first \in Queue /\ \A x \in ToSet(first) : x.kind = "decrypt"
  <2>1. items \in Queue /\ k \in 1..Len(items)
    BY <1>1 DEF TypeInv, QueueTypes
  <2>2. first \in Queue /\ ToSet(first) \subseteq ToSet(items)
    BY <2>1, QueueSplit
  <2>. QED
    BY <2>2 DEF TypeInv, Fit, Fits
<1>3. /\ batch' = [NoBatch EXCEPT !.phase = "decrypting", !.items = first]
      /\ encrypted' = encrypted \o first
  BY <1>1
<1>4. /\ batch'.phase = "decrypting" /\ batch'.items = first
      /\ batch'.plain = <<>> /\ batch'.used = {} /\ batch'.dropped = {}
      /\ batch.used = {} /\ batch.phase = "idle"
  BY <1>3 DEF NoBatch, StartBatch, TypeInv, Phases
<1> HIDE DEF first
<1>5. /\ ToSet(encrypted') = ToSet(encrypted) \cup ToSet(first)
      /\ ToSet(batch'.plain) = {}
  BY <1>2, <1>3, <1>4, QueueConcat, QueueEmpty DEF TypeInv, QueueTypes
<1>6. /\ UNCHANGED <<server, received, zombies, removals, decrypted, app,
                     working, rows, used, saved, settled>>
      /\ zone = "free"
  BY DEF StartBatch, net, disk
<1>7. Keeps /\ Kept' = Kept /\ Late' = Late /\ Safe' = Safe
  BY <1>6 DEF Keeps, Kept, Late, Safe, Held, Done, EnvelopesOf, Ids
<1>8. SpentIsKept' /\ BatchStored' /\ Acked'
  BY <1>4, <1>6, <1>7 DEF KeptInv, SpentIsKept, BatchStored, Acked
<1>9. BatchKept'
  BY <1>2, <1>4, <1>5 DEF BatchKept, Waiting
<1>10. Removable'
  BY <1>4, <1>5, <1>6 DEF KeptInv, Removable, MayGo, Spent, Done
<1>11. Handled'
  BY <1>2, <1>5, <1>6, <1>7, HandledKeeps DEF KeptInv
<1>. QED
  BY <1>8, <1>9, <1>10, <1>11 DEF KeptInv

\* What the outcomes of a decryption have in common.
LEMMA KeptEffect ==
    ASSUME TypeInv, KeptInv, NEW it, NEW p, NEW f, NEW u, NEW d,
           DecryptEffect(it, p, f, u, d),
           batch.used \subseteq u, batch.dropped \subseteq d,
           zombies \subseteq zombies',
           ToSet(batch.plain) \subseteq ToSet(p),
           ToSet(batch.failed) \subseteq ToSet(f),
           \/ it \in ToSet(p) \cup ToSet(f) \/ received[it.id] \in d,
           d \subseteq u,
           u \subseteq d \cup {received[x.id] : x \in ToSet(p) \cup zombies'},
           \A x \in ToSet(p) \ ToSet(batch.plain) :
              ~Spent(received[x.id]) /\ x.id \in Ids,
           \A x \in ToSet(decrypted') : x.kind = "handle" => x \in ToSet(decrypted),
           \A n \in removals' \ removals :
              \/ received[n] \in d
              \/ /\ Spent(received[n]) /\ rows[n] # "decrypted"
                 /\ \A x \in ToSet(p) : x.id # n
    PROVE  KeptInv'
<1>1. /\ encrypted # <<>> /\ it = Head(encrypted) /\ it.kind = "decrypt"
      /\ encrypted' = Tail(encrypted)
      /\ UNCHANGED <<server, received, zone, app, working,
                     rows, used, saved, settled>>
  BY DEF DecryptEffect, net, disk
<1>2. ToSet(encrypted) = {it} \cup ToSet(encrypted')
  BY <1>1, QueueTail DEF TypeInv, QueueTypes
<1>3. batch.phase = "decrypting" /\ zone # "leaked"
  BY <1>1, <1>2 DEF TypeInv, Phases
<1>4. /\ batch'.phase = "decrypting" /\ batch'.items = batch.items
      /\ batch'.plain = p /\ batch'.failed = f /\ batch'.used = u
      /\ batch'.dropped = d
  BY <1>3 DEF DecryptEffect, TypeInv, BatchTypes
<1>5. Keeps /\ Kept' = Kept /\ Late \subseteq Late'
  BY <1>1, RowsKeep DEF Kept, Late, Done, EnvelopesOf, Ids
<1>6. SpentIsKept' /\ BatchStored' /\ Acked'
  BY <1>1, <1>4, <1>5 DEF KeptInv, SpentIsKept, BatchStored, Acked, Keeps
<1>7. BatchKept'
  <2>1. ASSUME NEW x \in ToSet(batch.items)
        PROVE  \/ received[x.id] \in d
               \/ \E y \in ToSet(p) \cup ToSet(f) \cup Waiting' : y.id = x.id
    <3>1. CASE received[x.id] \in batch.dropped
      BY <3>1
    <3>2. CASE \E y \in ToSet(batch.plain) \cup ToSet(batch.failed) \cup Waiting :
                  y.id = x.id
      <4>1. PICK y \in ToSet(batch.plain) \cup ToSet(batch.failed) \cup Waiting :
                  y.id = x.id
        BY <3>2
      <4>2. y = it \/ y \in ToSet(p) \cup ToSet(f) \cup Waiting'
        BY <1>2 DEF Waiting
      <4>. QED
        BY <4>1, <4>2
    <3>. QED
      BY <1>3, <3>1, <3>2 DEF KeptInv, BatchKept
  <2>. QED
    BY <1>1, <1>4, <2>1 DEF BatchKept
<1>8. Removable'
  <2>1. ASSUME NEW n \in removals PROVE MayGo(n)'
    <3>1. MayGo(n)
      BY <1>3 DEF KeptInv, Removable
    <3>2. Spent(received[n]) => Spent(received[n])'
      BY <1>1, <1>4 DEF Spent
    <3>3. Spent(received[n]) /\ (\A x \in ToSet(batch.plain) : x.id # n)
            => \A x \in ToSet(p) : x.id # n
      OBVIOUS
    <3>. QED
      BY <1>1, <1>3, <1>4, <3>1, <3>2, <3>3 DEF MayGo, Done
  <2>2. ASSUME NEW n \in removals' \ removals PROVE MayGo(n)'
    BY <1>1, <1>4, <2>2 DEF MayGo, Spent
  <2>. QED
    BY <2>1, <2>2 DEF Removable
<1>9. Handled'
  BY <1>1, <1>2, <1>5, HandledKeeps DEF KeptInv
<1>. QED
  BY <1>6, <1>7, <1>8, <1>9 DEF KeptInv

\* A decryption: what it spends goes to the batch, or is dropped and removed;
\* what it removes as a duplicate is kept elsewhere.
LEMMA KeptDecrypt ==
    ASSUME TypeInv, SeparateInv, KeptInv, NEW it, DecryptTask(it) PROVE KeptInv'
<1> DEFINE e == received[it.id]
<1>1. encrypted # <<>> /\ it = Head(encrypted) /\ it.kind = "decrypt"
  BY DecryptOutcomes DEF DecryptTask, Rejected, DecryptEffect
<1>2. it \in Entries /\ it \in Waiting /\ it.id \in Ids
  <2>1. it \in Entries /\ it \in ToSet(encrypted)
    BY <1>1, QueueTail DEF TypeInv, QueueTypes
  <2>. QED
    BY <1>1, <2>1 DEF TypeInv, Fit, Fits, Carriers, Waiting
<1>3. batch.phase = "decrypting"
  BY <1>2 DEF TypeInv, Phases, Waiting
<1>4. /\ batch.dropped \subseteq batch.used
      /\ batch.used \subseteq batch.dropped
            \cup {received[x.id] : x \in ToSet(batch.plain) \cup zombies}
  BY <1>3 DEF KeptInv, BatchKept
<1>5. /\ rows[it.id] # "decrypted"
      /\ \A x \in ToSet(batch.plain) : x.id # it.id
  <2>1. \A x \in ToSet(batch.plain) : x.kind = "decrypt"
    BY DEF TypeInv, Fit, Fits, ToDecrypt
  <2>2. /\ TriedPlain = ToSet(batch.plain) /\ it \in ToSet(encrypted)
        /\ it.kind = "decrypt"
    BY <1>2, <1>3 DEF TriedPlain, Waiting
  <2>3. rows[it.id] # "decrypted"
    BY <2>2 DEF SeparateInv, Separate
  <2>4. \A x \in ToSet(batch.plain) : Differ(x, it)
    BY <2>2 DEF SeparateInv, Separate, Apart
  <2>. QED
    BY <2>1, <2>2, <2>3, <2>4 DEF Differ, Undecrypted
<1>6. /\ ToSet(Append(batch.plain, it)) = ToSet(batch.plain) \cup {it}
      /\ ToSet(Append(batch.failed, it)) = ToSet(batch.failed) \cup {it}
  BY <1>2, QueueAppend DEF TypeInv, BatchTypes
<1>7. CASE DecryptSucceeds(it)
  <2>1. /\ DecryptEffect(it, Append(batch.plain, it), batch.failed,
               batch.used \cup {e}, batch.dropped)
        /\ UNCHANGED <<decrypted, removals, zombies>>
        /\ ~Spent(e)
    BY <1>7, DecryptOutcomes
  <2>2. \A x \in ToSet(Append(batch.plain, it)) \ ToSet(batch.plain) :
           ~Spent(received[x.id]) /\ x.id \in Ids
    BY <1>2, <1>6, <2>1
  <2>3. batch.used \cup {e} \subseteq batch.dropped
           \cup {received[x.id] : x \in ToSet(Append(batch.plain, it)) \cup zombies'}
    BY <1>4, <1>6, <2>1
  <2> HIDE DEF e
  <2>. QED
    BY <1>4, <1>6, <2>1, <2>2, <2>3, KeptEffect
<1>8. CASE DecryptDrops(it)
  <2>1. /\ DecryptEffect(it, batch.plain, batch.failed,
               batch.used \cup {e}, batch.dropped \cup {e})
        /\ removals' = removals \cup {it.id}
        /\ UNCHANGED <<decrypted, zombies>>
    BY <1>8, DecryptOutcomes
  <2>2. batch.used \cup {e} \subseteq (batch.dropped \cup {e})
           \cup {received[x.id] : x \in ToSet(batch.plain) \cup zombies'}
    BY <1>4, <2>1
  <2>3. \A n \in removals' \ removals : received[n] \in batch.dropped \cup {e}
    BY <2>1
  <2>4. received[it.id] \in batch.dropped \cup {e}
    OBVIOUS
  <2> HIDE DEF e
  <2>. QED
    BY <1>4, <2>1, <2>2, <2>3, <2>4, KeptEffect
<1>9. CASE /\ Rejected(it) /\ zombies \subseteq zombies'
           /\ \/ removals' = removals
              \/ removals' = removals \cup {it.id} /\ Spent(received[it.id])
           /\ decrypted' \in {decrypted, Append(decrypted, Plain("error", it.id))}
  <2>1. DecryptEffect(it, batch.plain, Append(batch.failed, it), batch.used,
                      batch.dropped)
    BY <1>9 DEF Rejected
  <2>2. \A x \in ToSet(decrypted') : x.kind = "handle" => x \in ToSet(decrypted)
    <3> DEFINE r == Plain("error", it.id)
    <3>1. r \in Entries /\ r.kind = "error"
      BY <1>2 DEF Plain, Entry, Entries
    <3> HIDE DEF r
    <3>2. ToSet(Append(decrypted, r)) = ToSet(decrypted) \cup {r}
      BY <3>1, QueueAppend DEF TypeInv, QueueTypes
    <3>. QED
      BY <1>9, <3>1, <3>2 DEF r
  <2>3. batch.used \subseteq batch.dropped
           \cup {received[x.id] : x \in ToSet(batch.plain) \cup zombies'}
    BY <1>4, <1>9
  <2>4. \A n \in removals' \ removals :
           /\ Spent(received[n]) /\ rows[n] # "decrypted"
           /\ \A x \in ToSet(batch.plain) : x.id # n
    BY <1>5, <1>9
  <2>5. it \in ToSet(Append(batch.failed, it))
        /\ ToSet(batch.failed) \subseteq ToSet(Append(batch.failed, it))
    BY <1>6
  <2>. QED
    BY <1>4, <1>9, <2>1, <2>2, <2>3, <2>4, <2>5, KeptEffect
<1>. QED
  BY <1>7, <1>8, <1>9, DecryptOutcomes DEF DecryptTask

\* A decryption that timed out succeeds: in the batch that tried it, or on its
\* own while the zone is free.
LEMMA KeptZombie ==
    ASSUME TypeInv, KeptInv, NEW it \in zombies, ZombieSucceeds(it)
    PROVE  KeptInv'
<1> DEFINE e == received[it.id]
<1>1. /\ UNCHANGED <<server, received, zombies, zone, encrypted, decrypted, app,
                     working, removals, rows, saved, settled>>
      /\ \/ /\ batch.phase = "decrypting" /\ used' = used
            /\ batch' = [batch EXCEPT !.used = @ \cup {e}]
         \/ used' = used \cup {e} /\ batch' = batch
  BY DEF ZombieSucceeds, net
<1>2. e \in {received[x.id] : x \in zombies}
  OBVIOUS
<1> HIDE DEF e
<1>3. /\ batch'.phase = batch.phase /\ batch'.items = batch.items
      /\ batch'.plain = batch.plain /\ batch'.failed = batch.failed
      /\ batch'.dropped = batch.dropped
      /\ batch.used \subseteq batch'.used /\ batch'.used \subseteq batch.used \cup {e}
      /\ used \subseteq used' /\ used' \subseteq used \cup {e}
      /\ batch.phase # "decrypting" => batch'.used = batch.used
  BY <1>1 DEF TypeInv, BatchTypes
<1>4. Keeps /\ Kept' = Kept
  BY <1>1, <1>3, RowsKeep DEF Kept, Done, EnvelopesOf, Ids
<1>5. SpentIsKept'
  <2>1. used' \subseteq Kept \cup {received[x.id] : x \in zombies}
    BY <1>2, <1>3 DEF KeptInv, SpentIsKept, Late
  <2>. QED
    BY <1>1, <1>4, <2>1 DEF SpentIsKept, Late
<1>6. BatchKept'
  BY <1>1, <1>2, <1>3 DEF KeptInv, BatchKept, Waiting
<1>7. BatchStored' /\ Acked'
  BY <1>1, <1>3, <1>4 DEF KeptInv, BatchStored, Acked, Keeps
<1>8. Removable'
  BY <1>1, <1>3 DEF KeptInv, Removable, MayGo, Spent, Done
<1>9. Handled'
  BY <1>1, <1>4, HandledKeeps DEF KeptInv
<1>. QED
  BY <1>5, <1>6, <1>7, <1>8, <1>9 DEF KeptInv

\* The commit: plaintexts and ciphertexts are stored with the spent keys.
LEMMA KeptCommitBatch ==
    ASSUME TypeInv, SeparateInv, KeptInv, CommitBatch PROVE KeptInv'
<1>1. /\ batch.phase = "decrypting" /\ Waiting = {}
      /\ rows' = [n \in Ids |-> IF n \in Stored THEN StoredRow(n) ELSE rows[n]]
      /\ used' = used \cup batch.used
      /\ settled' = settled \cup batch.dropped
      /\ UNCHANGED <<server, received, zombies, encrypted, decrypted, app,
                     working, removals, saved>>
  BY DEF CommitBatch, AllDecrypted, Waiting, ToSet, net
<1>2. /\ batch'.phase = "stored" /\ batch'.items = batch.items
      /\ batch'.plain = batch.plain /\ batch'.used = batch.used
  BY DEF CommitBatch, TypeInv, BatchTypes
<1>3. /\ IdsIn(batch.plain) = {x.id : x \in ToSet(batch.plain)}
      /\ IdsIn(batch.failed) = {x.id : x \in ToSet(batch.failed)}
  BY DEF IdsIn, ToSet
<1>4. \A x \in ToSet(batch.plain) \cup ToSet(batch.failed) :
         x.kind = "decrypt" /\ x.id \in Ids /\ rows[x.id] # "decrypted"
  <2>1. TriedPlain = ToSet(batch.plain) /\ TriedFailed = ToSet(batch.failed)
    BY <1>1 DEF TriedPlain, TriedFailed
  <2>. QED
    BY <2>1 DEF SeparateInv, Separate, TypeInv, Fit, Fits, ToDecrypt, Carriers
<1>5. \A x \in ToSet(batch.plain) : rows'[x.id] = "decrypted"
  <2>1. TriedPlain = ToSet(batch.plain) /\ TriedFailed = ToSet(batch.failed)
    BY <1>1 DEF TriedPlain, TriedFailed
  <2>2. \A x \in ToSet(batch.plain), y \in ToSet(batch.failed) : x.id # y.id
    BY <1>4, <2>1 DEF SeparateInv, Separate, Apart, Differ, Undecrypted
  <2>. QED
    BY <1>1, <1>3, <1>4, <2>2 DEF Stored, StoredRow
<1>6. \A x \in ToSet(batch.plain) \cup ToSet(batch.failed) : rows'[x.id] # "none"
  BY <1>1, <1>3, <1>4 DEF Stored, StoredRow
<1>7. Keeps /\ Late \subseteq Late'
  <2>1. \A n \in Ids : \/ rows'[n] = rows[n]
                       \/ rows[n] # "decrypted" /\ rows'[n] # "none"
    BY <1>1, <1>3, <1>4, <1>6 DEF Stored
  <2>. QED
    BY <1>1, <2>1, RowsKeep DEF Late
<1>8. /\ \A x \in ToSet(batch.plain) : received[x.id] \in Kept'
      /\ \A x \in ToSet(batch.plain) \cup ToSet(batch.failed) : received[x.id] \in Held'
      /\ batch.dropped \subseteq Done' /\ Done \subseteq Done'
  BY <1>1, <1>4, <1>5, <1>6 DEF Kept, Held, Done, EnvelopesOf, Ids
<1>9. SpentIsKept'
  <2>1. used \subseteq Kept' \cup Late'
    BY <1>7 DEF KeptInv, SpentIsKept, Keeps
  <2>2. batch.used \subseteq Kept' \cup {received[x.id] : x \in zombies}
    BY <1>1, <1>8 DEF KeptInv, BatchKept, Kept
  <2>3. batch.used \subseteq Kept' \cup Late'
    BY <1>1, <2>2 DEF Late
  <2>. QED
    BY <1>1, <2>1, <2>3 DEF SpentIsKept
<1>10. BatchStored'
  <2>1. \A x \in ToSet(batch.items) : received[x.id] \in Safe'
    <3>1. ASSUME NEW x \in ToSet(batch.items) PROVE received[x.id] \in Safe'
      <4>1. \/ received[x.id] \in batch.dropped
            \/ \E y \in ToSet(batch.plain) \cup ToSet(batch.failed) : y.id = x.id
        BY <1>1 DEF KeptInv, BatchKept
      <4>. QED
        BY <1>8, <4>1 DEF Safe, Held, Done
    <3>. QED
      BY <3>1
  <2>. QED
    BY <1>1, <1>2, <1>8, <2>1 DEF BatchStored
<1>11. Removable'
  <2>1. ASSUME NEW n \in removals, zone # "leaked" PROVE MayGo(n)'
    <3>1. MayGo(n) /\ n \in Ids
      BY <2>1 DEF KeptInv, Removable, TypeInv, WorkTypes
    <3>2. CASE received[n] \in Done \/ received[n] \in batch.dropped
      BY <1>1, <1>8, <3>2 DEF MayGo
    <3>3. CASE /\ Spent(received[n]) /\ rows[n] # "decrypted"
               /\ \A x \in ToSet(batch.plain) : x.id # n
      <4>1. Spent(received[n])'
        BY <1>1, <3>3 DEF Spent
      <4>2. rows'[n] # "decrypted"
        BY <1>1, <1>3, <3>1, <3>3 DEF Stored, StoredRow
      <4>. QED
        BY <1>2, <4>1, <4>2 DEF MayGo
    <3>. QED
      BY <1>1, <3>1, <3>2, <3>3 DEF MayGo
  <2>2. zone # "leaked"
    BY <1>1 DEF TypeInv, Phases
  <2>. QED
    BY <1>1, <2>1, <2>2 DEF Removable
<1>12. BatchKept' /\ Acked'
  BY <1>1, <1>2, <1>7 DEF KeptInv, BatchKept, Acked, Keeps
<1>13. Handled'
  BY <1>1, <1>7, HandledKeeps DEF KeptInv
<1>. QED
  BY <1>9, <1>10, <1>11, <1>12, <1>13 DEF KeptInv

\* The commit is refused: the zone is not left, and nothing is removed.
LEMMA KeptCommitFails == ASSUME TypeInv, KeptInv, CommitFails PROVE KeptInv'
<1>1. /\ UNCHANGED <<server, received, zombies, encrypted, decrypted, app,
                     working, removals, rows, used, saved, settled>>
      /\ batch'.phase = "idle" /\ zone' = "leaked"
  BY DEF CommitFails, NoBatch, net, disk
<1>2. Keeps /\ Kept' = Kept /\ Late' = Late
  BY <1>1, RowsKeep DEF Kept, Late, Done, EnvelopesOf, Ids
<1>3. Handled'
  BY <1>1, <1>2, HandledKeeps DEF KeptInv
<1>. QED
  BY <1>1, <1>2, <1>3 DEF KeptInv, SpentIsKept, BatchKept, BatchStored,
     Removable, Acked, Keeps

\* What is acknowledged is safe, and its plaintexts go to the application.
LEMMA KeptAckBatch == ASSUME TypeInv, KeptInv, AckBatch PROVE KeptInv'
<1>1. /\ batch.phase = "stored" /\ batch'.phase = "idle" /\ batch'.used = {}
      /\ UNCHANGED <<received, zombies, zone, encrypted, app, working, removals,
                     rows, used, saved, settled>>
      /\ server \ server' \subseteq {received[x.id] : x \in ToSet(batch.items)}
  BY DEF AckBatch, NoBatch, EnvelopesOf, disk
<1>2. Keeps /\ Kept' = Kept /\ Safe' = Safe /\ Late' = Late
  BY <1>1, RowsKeep DEF Kept, Late, Done, EnvelopesOf, Ids, Safe, Held
<1>3. Acked'
  BY <1>1, <1>2 DEF KeptInv, Acked, BatchStored
<1>4. Removable'
  BY <1>1 DEF KeptInv, Removable, MayGo, Spent, Done, BatchStored
<1>5. Handled'
  <2>1. \A x \in ToSet(decrypted') : x.kind = "handle" =>
           x \in ToSet(decrypted) \/ \E y \in ToSet(batch.plain) : x.id = y.id
    <3> DEFINE handles == Relabel(batch.plain, "handle")
               again == Plain("scheduleRetry", 0)
    <3>1. /\ ToSet(decrypted') = ToSet(decrypted) \cup ToSet(handles) \cup {again}
          /\ ToSet(handles)
               = {[x EXCEPT !.kind = "handle"] : x \in ToSet(batch.plain)}
      BY AckedPlain
    <3>2. ToSet(batch.plain) \in SUBSET Entries
      BY QueueSet DEF TypeInv, BatchTypes
    <3>3. \A x \in ToSet(handles) : \E y \in ToSet(batch.plain) : x.id = y.id
      BY <3>1, <3>2 DEF Entries
    <3>4. again.kind # "handle"
      BY DEF Plain, Entry
    <3>. QED
      BY <3>1, <3>3, <3>4
  <2>2. \A y \in ToSet(batch.plain) : received[y.id] \in Kept
    BY <1>1 DEF KeptInv, BatchStored
  <2>. QED
    BY <1>1, <1>2, <2>1, <2>2, HandledKeeps DEF KeptInv
<1>. QED
  BY <1>1, <1>2, <1>3, <1>4, <1>5
     DEF KeptInv, SpentIsKept, BatchKept, BatchStored

\* The application saves a message, or confirms it, or is done with an error.
LEMMA KeptHandle ==
    ASSUME TypeInv, KeptInv, NEW w \in working, Save(w) \/ Confirm(w)
    PROVE  KeptInv'
<1>1. /\ UNCHANGED <<server, received, batch, zombies, zone, encrypted,
                     decrypted, app, rows, used>>
      /\ saved \subseteq saved' /\ settled \subseteq settled'
  BY DEF Save, Confirm, net
<1>2. Keeps /\ Late' = Late /\ Done \subseteq Done'
  BY <1>1, RowsKeep DEF Late, Done
<1>3. SpentIsKept' /\ Acked' /\ BatchStored' /\ BatchKept'
  BY <1>1, <1>2 DEF KeptInv, SpentIsKept, Acked, BatchStored, BatchKept, Keeps,
     Waiting
<1>4. Removable'
  <2>1. \A n \in removals' \ removals : received[n] \in Done'
    BY DEF Save, Confirm, Done, KeptInv, Handled, TypeInv, WorkTypes
  <2>. QED
    BY <1>1, <1>2, <2>1 DEF KeptInv, Removable, MayGo, Spent
<1>5. Handled'
  <2>1. CASE Save(w)
    <3>1. \A v \in working' : \/ v \in working
                              \/ v.kind = "saved" /\ received'[v.id] \in saved'
      <4>1. [w EXCEPT !.kind = "saved"].kind = "saved"
            /\ [w EXCEPT !.kind = "saved"].id = w.id
        BY DEF TypeInv, WorkTypes
      <4>. QED
        BY <2>1, <4>1, <1>1 DEF Save
    <3>. QED
      BY <1>1, <1>2, <3>1, HandledKeeps DEF KeptInv
  <2>2. CASE Confirm(w)
    <3>1. working' \subseteq working
      BY <2>2 DEF Confirm
    <3>. QED
      BY <1>1, <1>2, <3>1, HandledKeeps DEF KeptInv
  <2>. QED
    BY <2>1, <2>2
<1>. QED
  BY <1>3, <1>4, <1>5 DEF KeptInv

\* A row is removed while no batch runs: its envelope is settled, or its key
\* is spent and the plaintext is elsewhere.
LEMMA CacheRemoveKeeps ==
    ASSUME TypeInv, KeptInv, NEW n \in removals, CacheRemove(n) PROVE Keeps
<1>1. /\ zone = "free" /\ rows' = [rows EXCEPT ![n] = "none"]
      /\ UNCHANGED <<received, batch, zombies, used, saved, settled>>
  BY DEF CacheRemove, net
<1>2. n \in Ids /\ rows \in [Ids -> {"none", "encrypted", "decrypted"}]
  BY DEF TypeInv, WorkTypes, DiskTypes
<1>3. /\ Done' = Done /\ Late' = Late /\ Ids' = Ids
      /\ \A m \in Ids : rows'[m] = IF m = n THEN "none" ELSE rows[m]
  BY <1>1, <1>2 DEF Done, Late, Ids
<1>4. received[n] \in Done \/ (received[n] \in used /\ rows[n] # "decrypted")
  <2>1. batch.phase # "decrypting"
    BY <1>1 DEF TypeInv, Phases
  <2>2. batch.used \subseteq used
    BY <2>1 DEF TypeInv, BatchTypes, Phases, NoBatch, KeptInv, BatchStored
  <2>3. MayGo(n)
    BY <1>1 DEF KeptInv, Removable
  <2>. QED
    BY <2>1, <2>2, <2>3 DEF MayGo, Spent
<1>5. Kept \subseteq Kept'
  <2>1. ASSUME NEW m \in Ids, rows[m] = "decrypted" PROVE received[m] \in Kept'
    BY <1>1, <1>3, <1>4, <2>1 DEF Kept, EnvelopesOf
  <2>. QED
    BY <1>3, <2>1 DEF Kept, EnvelopesOf
<1>6. Safe \subseteq Safe'
  <2>1. received[n] \in Kept' \cup Late'
    BY <1>3, <1>4, <1>5 DEF KeptInv, SpentIsKept, Kept
  <2>2. Kept' \subseteq Held'
    BY DEF Kept, Held, Done, EnvelopesOf
  <2>3. ASSUME NEW m \in Ids, rows[m] # "none" PROVE received[m] \in Safe'
    <3>1. CASE m = n
      BY <2>1, <2>2, <3>1 DEF Safe
    <3>2. CASE m # n
      BY <1>1, <1>3, <2>3, <3>2 DEF Safe, Held, EnvelopesOf
    <3>. QED
      BY <3>1, <3>2
  <2>4. Done \subseteq Safe' /\ Late \subseteq Safe'
    BY <1>3 DEF Safe, Held, Done
  <2>. QED
    BY <2>3, <2>4 DEF Safe, Held, Done, EnvelopesOf
<1>. QED
  BY <1>1, <1>3, <1>5, <1>6 DEF Keeps

\* The removal of a row, so that nothing is lost.
LEMMA KeptCacheRemove ==
    ASSUME TypeInv, KeptInv, NEW n \in removals, CacheRemove(n) PROVE KeptInv'
<1>1. /\ zone = "free" /\ removals' \subseteq removals
      /\ rows' = [rows EXCEPT ![n] = "none"]
      /\ UNCHANGED <<server, received, batch, zombies, zone, encrypted,
                     decrypted, app, working, used, saved, settled>>
  BY DEF CacheRemove, net
<1>2. Keeps /\ Late' = Late
  BY <1>1, CacheRemoveKeeps DEF Late
<1>3. SpentIsKept' /\ Acked' /\ BatchStored' /\ BatchKept'
  BY <1>1, <1>2 DEF KeptInv, SpentIsKept, Acked, BatchStored, BatchKept, Keeps,
     Waiting
<1>4. Removable'
  <2>1. removals \subseteq Ids /\ n \in Ids
        /\ rows \in [Ids -> {"none", "encrypted", "decrypted"}]
    BY DEF TypeInv, WorkTypes, DiskTypes
  <2>2. \A m \in Ids : rows'[m] = IF m = n THEN "none" ELSE rows[m]
    BY <1>1, <2>1
  <2>. QED
    BY <1>1, <2>1, <2>2 DEF KeptInv, Removable, MayGo, Spent, Done
<1>5. Handled'
  BY <1>1, <1>2, HandledKeeps DEF KeptInv
<1>. QED
  BY <1>3, <1>4, <1>5 DEF KeptInv

\* Every step keeps what was decrypted.
LEMMA KeptStep == TypeInv /\ SeparateInv /\ KeptInv /\ [Next]_vars => KeptInv'
<1>1. SUFFICES ASSUME TypeInv, SeparateInv, KeptInv, [Next]_vars PROVE KeptInv'
  OBVIOUS
<1>2. CASE UNCHANGED vars
  <2>1. /\ UNCHANGED <<server, received, batch, zombies, zone, removals,
                       rows, used, saved, settled>>
        /\ UNCHANGED <<encrypted, decrypted, app, working>>
    BY <1>2 DEF vars, net, queues, disk
  <2>2. Quiet
    BY <2>1 DEF Quiet, Waiting
  <2>. QED
    BY <1>1, <2>1, <2>2, KeptQuiet
<1>3. CASE Connect \/ Disconnect \/ Unregister \/ Deliver \/ DeliverEmpty
           \/ RetryFires \/ Crash
  BY <1>1, <1>3, KeptConnect, KeptDeliver, KeptCrash
<1>4. CASE Receive \/ QueueAllCached \/ StartBatch \/ CommitBatch
           \/ CommitFails \/ AckBatch
  BY <1>1, <1>4, KeptConnect, KeptQueueAllCached, KeptStartBatch,
     KeptCommitBatch, KeptCommitFails, KeptAckBatch
<1>5. CASE PassToDecrypted \/ PassToApp \/ DispatchError \/ ScheduleRetry
           \/ Dispatch \/ OnEmpty \/ WaitForIncomingQueue \/ EmitEmpty
  BY <1>1, <1>5, KeptPassesBatcher, KeptDispatch, KeptConnect
<1>6. CASE \E it \in ToSet(encrypted) : DecryptTask(it)
  BY <1>1, <1>6, KeptDecrypt
<1>7. CASE \E m \in draining : WaitForCacheAddBatcher(m)
  BY <1>1, <1>7, KeptConnect
<1>8. CASE \E it \in zombies : ZombieSucceeds(it)
  BY <1>1, <1>8, KeptZombie
<1>9. CASE \E w \in working : Save(w) \/ Confirm(w) \/ HandlerFails(w)
  BY <1>1, <1>9, KeptHandle, KeptConnect
<1>10. CASE \E n \in removals : CacheRemove(n)
  BY <1>1, <1>10, KeptCacheRemove
<1>. QED
  BY <1>1, <1>2, <1>3, <1>4, <1>5, <1>6, <1>7, <1>8, <1>9, <1>10 DEF Next, Work

\* The invariant behind the theorems about durability.
LEMMA DurabilityInvariance ==
    Spec /\ NoOverlap => [](TypeInv /\ SeparateInv /\ KeptInv)
<1>1. Init => TypeInv /\ SeparateInv /\ KeptInv
  BY TypesInitially, SeparateInitially, KeptInitially
<1>2. TypeInv /\ SeparateInv /\ KeptInv /\ [Next]_vars /\ [LoadsAlone]_vars
        => (TypeInv /\ SeparateInv /\ KeptInv)'
  BY TypesStep, SeparateStep, KeptStep
<1>. QED
  BY <1>1, <1>2, PTL DEF Spec, NoOverlap

\* Whatever the server was told to forget is in the database, became a message
\* or was given up, with any number of crashes, refused commits and timeouts.
THEOREM AckedStaysDurable == Spec /\ NoOverlap => []AckedIsDurable
<1>1. KeptInv => AckedIsDurable
  BY DEF KeptInv, Acked, Safe, AckedIsDurable
<1>. QED
  BY DurabilityInvariance, <1>1, PTL

-----------------------------------------------------------------------------
\* Without timeouts no key is spent in vain.

\* Then no decryption outlives its task.
LEMMA NoZombies ==
    ASSUME MaxTimeouts = 0
    PROVE  Spec => [](zombies = {})
<1>1. Init => zombies = {}
  BY DEF Init, InitProcess
<1>2. zombies = {} /\ [Next]_vars => (zombies = {})'
  <2>1. SUFFICES ASSUME zombies = {}, [Next]_vars PROVE zombies' = {}
    OBVIOUS
  <2>2. ASSUME NEW it, DecryptTimesOut(it) PROVE FALSE
    BY <2>1, <2>2, FS_EmptySet DEF DecryptTimesOut
  <2>3. ASSUME NEW it, DecryptTask(it) PROVE zombies' = zombies
    BY <2>2, <2>3
       DEF DecryptTask, DecryptSucceeds, DecryptDrops, DecryptRepeats,
       DecryptErrs, DecryptStopped
  <2>4. CASE Connect \/ Disconnect \/ Unregister \/ Deliver \/ DeliverEmpty
             \/ RetryFires \/ Crash \/ UNCHANGED vars
    BY <2>1, <2>4 DEF Connect, Disconnect, Unregister, Deliver, DeliverEmpty,
       RetryFires, Crash, vars, queues
  <2>5. CASE Receive \/ QueueAllCached \/ StartBatch \/ CommitBatch
             \/ CommitFails \/ AckBatch \/ PassToDecrypted \/ PassToApp
    BY <2>1, <2>5 DEF Receive, QueueAllCached, StartBatch, CommitBatch,
       CommitFails, AckBatch, PassToDecrypted, PassToApp
  <2>6. CASE DispatchError \/ ScheduleRetry \/ Dispatch \/ EmitEmpty \/ OnEmpty
             \/ WaitForIncomingQueue
             \/ \E m \in draining : WaitForCacheAddBatcher(m)
    BY <2>1, <2>6
       DEF DispatchError, ScheduleRetry, Dispatch, EmitEmpty, OnEmpty,
       WaitForIncomingQueue, WaitForCacheAddBatcher
  <2>7. CASE \/ \E it \in zombies : ZombieSucceeds(it)
             \/ \E w \in working : Save(w) \/ Confirm(w) \/ HandlerFails(w)
             \/ \E n \in removals : CacheRemove(n)
    BY <2>1, <2>7 DEF Save, Confirm, HandlerFails, CacheRemove
  <2>. QED
    BY <2>1, <2>3, <2>4, <2>5, <2>6, <2>7 DEF Next, Work
<1>. QED
  BY <1>1, <1>2, PTL DEF Spec

\* When no task times out, a spent key means a plaintext in the database, a
\* message, or an envelope given up for a stated reason.
THEOREM DecryptedStaysKept ==
    ASSUME MaxTimeouts = 0
    PROVE  Spec /\ NoOverlap => []DecryptedIsKept
<1>1. KeptInv /\ zombies = {} => DecryptedIsKept
  BY DEF KeptInv, SpentIsKept, Kept, Done, Late, DecryptedIsKept
<1>. QED
  BY DurabilityInvariance, NoZombies, <1>1, PTL

-----------------------------------------------------------------------------
\* The inbox.

\* A step that moves envelopes between the queues is none of the inbox.
LEMMA InboxStutters ==
    ASSUME UNCHANGED <<server, received, rows, saved, settled>>
    PROVE  UNCHANGED Inbox!ivars
BY DEF Inbox!ivars, Held, EnvelopesOf, Ids

\* A delivery, and the removal of a row, change nothing the inbox answers for.
LEMMA InboxRows ==
    ASSUME TypeInv, KeptInv, zombies = {},
           Deliver \/ \E n \in removals : CacheRemove(n)
    PROVE  UNCHANGED Inbox!ivars
<1>1. UNCHANGED <<server, saved, settled>> /\ zombies' = {}
  BY DEF Deliver, CacheRemove, net
<1>2. Held \subseteq Held'
  <2>1. Keeps
    BY DeliverKeeps, CacheRemoveKeeps
  <2>. QED
    BY <1>1, <2>1 DEF Keeps, Safe, Late
<1>3. Held' \subseteq Held
  <2>1. CASE Deliver
    <3>1. /\ Ids' = Ids \cup {Len(received) + 1}
          /\ \A n \in Ids : received'[n] = received[n]
      BY <2>1, NewDelivery
    <3>2. /\ rows'[Len(received) + 1] = "none"
          /\ \A n \in Ids : rows'[n] = rows[n]
      BY <2>1, NewRow
    <3>. QED
      BY <1>1, <3>1, <3>2 DEF Held, EnvelopesOf
  <2>2. CASE \E n \in removals : CacheRemove(n)
    <3>1. PICK n \in removals : CacheRemove(n)
      BY <2>2
    <3>2. received' = received /\ rows' = [rows EXCEPT ![n] = "none"]
      BY <3>1 DEF CacheRemove, net
    <3>3. \A m \in Ids : rows'[m] # "none" => rows[m] # "none"
      BY <3>2 DEF TypeInv, DiskTypes
    <3>. QED
      BY <1>1, <3>2, <3>3 DEF Held, EnvelopesOf, Ids
  <2>. QED
    BY <2>1, <2>2
<1>. QED
  BY <1>1, <1>2, <1>3 DEF Inbox!ivars

\* The commit takes what it stores, and finishes what was dropped.
LEMMA InboxTakes ==
    ASSUME TypeInv, CommitBatch
    PROVE  Inbox!Next
<1> DEFINE S == EnvelopesOf(Stored) \cup batch.dropped
           J == batch.dropped
<1>1. /\ rows' = [n \in Ids |-> IF n \in Stored THEN StoredRow(n) ELSE rows[n]]
      /\ settled' = settled \cup batch.dropped
      /\ UNCHANGED <<server, received, saved>>
  BY DEF CommitBatch, net
<1>2. Stored \subseteq Ids
  <2>1. \A x \in ToSet(batch.plain) \cup ToSet(batch.failed) : x.id \in Ids
    BY DEF TypeInv, Fit, Fits, ToDecrypt, Carriers
  <2>. QED
    BY <2>1 DEF Stored, IdsIn, ToSet
<1>3. S \in SUBSET Envelopes /\ J \in SUBSET Envelopes
  <2>1. \A n \in Stored : received[n] \in Envelopes
    BY <1>2, ReceivedEnvelope
  <2>2. batch.dropped \in SUBSET Envelopes
    BY DEF TypeInv, BatchTypes
  <2>. QED
    BY <2>1, <2>2 DEF EnvelopesOf
<1>4. Held' = Held \cup S
  <2>1. \A n \in Ids : rows'[n] # "none" <=> (rows[n] # "none" \/ n \in Stored)
    BY <1>1 DEF StoredRow
  <2>. QED
    BY <1>1, <1>2, <2>1 DEF Held, EnvelopesOf, Ids
<1>5. Inbox!Take(S, J)
  BY <1>1, <1>4 DEF Inbox!Take
<1> HIDE DEF S, J
<1>. QED
  BY <1>3, <1>5 DEF Inbox!Next

\* Only what is held is acknowledged.
LEMMA InboxAcks ==
    ASSUME TypeInv, KeptInv, zombies = {}, AckBatch PROVE Inbox!Next
<1> DEFINE S == server \ server'
<1>1. /\ batch.phase = "stored" /\ server' \subseteq server
      /\ S \subseteq {received[x.id] : x \in ToSet(batch.items)}
      /\ UNCHANGED <<received, rows, saved, settled>>
  BY DEF AckBatch, EnvelopesOf, disk
<1>2. S \subseteq Held
  BY <1>1 DEF KeptInv, BatchStored, Safe, Late
<1>3. Held' = Held /\ server' = server \ S
  BY <1>1 DEF Held, EnvelopesOf, Ids
<1>4. Inbox!Ack(S)
  BY <1>1, <1>2, <1>3 DEF Inbox!Ack
<1>5. S \in SUBSET Envelopes
  BY DEF TypeInv, NetTypes
<1> HIDE DEF S
<1>. QED
  BY <1>4, <1>5 DEF Inbox!Next

\* Rows that are given up were held.
LEMMA InboxGivesUp ==
    ASSUME TypeInv, QueueAllCached
    PROVE  Inbox!Next \/ UNCHANGED Inbox!ivars
<1>1. UNCHANGED <<server, received, saved>>
  BY DEF QueueAllCached, net
<1>2. CASE stopping
  BY <1>1, <1>2, InboxStutters DEF QueueAllCached
<1>3. CASE ~stopping
  <2> DEFINE S == EnvelopesOf(Worn)
  <2>1. /\ rows' = [n \in Ids |-> IF n \in Worn THEN "none" ELSE rows[n]]
        /\ settled' = settled \cup S
    BY <1>3, LoadsRows
  <2>2. Worn \subseteq Ids /\ \A n \in Worn : rows[n] # "none"
    BY DEF Worn, Cached
  <2>3. S \subseteq Held /\ S \in SUBSET Envelopes
    BY <2>2, ReceivedEnvelope DEF Held, EnvelopesOf
  <2>4. Held' = Held
    <3>1. \A n \in Ids : rows'[n] = IF n \in Worn THEN "none" ELSE rows[n]
      BY <2>1
    <3>2. Held' \subseteq Held
      BY <1>1, <2>1, <2>3, <3>1 DEF Held, EnvelopesOf, Ids
    <3>3. \A n \in Ids : rows[n] # "none" => received[n] \in Held'
      BY <1>1, <2>1, <3>1 DEF Held, EnvelopesOf, Ids
    <3>4. Held \subseteq Held'
      BY <1>1, <2>1, <3>3 DEF Held, EnvelopesOf
    <3>. QED
      BY <3>2, <3>4
  <2>5. Inbox!Finish(S)
    BY <1>1, <2>1, <2>3, <2>4 DEF Inbox!Finish
  <2> HIDE DEF S
  <2>. QED
    BY <2>3, <2>5 DEF Inbox!Next
<1>. QED
  BY <1>2, <1>3

\* A message that is saved was held, and an error takes its envelope and
\* settles it.
LEMMA InboxFinishes ==
    ASSUME TypeInv, KeptInv, NEW w \in working, Save(w) \/ Confirm(w)
    PROVE  Inbox!Next \/ UNCHANGED Inbox!ivars
<1> DEFINE e == received[w.id]
<1>1. e \in Envelopes
  BY ReceivedEnvelope DEF TypeInv, WorkTypes
<1>2. UNCHANGED <<server, received, rows>>
  BY DEF Save, Confirm, net
<1>3. CASE Save(w)
  <2>1. saved' = saved \cup {e} /\ settled' = settled /\ w.kind = "handle"
    BY <1>3 DEF Save
  <2>2. e \in Held
    BY <2>1 DEF KeptInv, Handled, Kept, Held, Done, EnvelopesOf
  <2> HIDE DEF e
  <2>3. Held' = Held
    BY <1>2, <2>1, <2>2 DEF Held, EnvelopesOf, Ids
  <2>4. Inbox!Finish({e})
    BY <1>2, <2>1, <2>2, <2>3 DEF Inbox!Finish
  <2>. QED
    BY <1>1, <2>4 DEF Inbox!Next
<1>4. CASE Confirm(w) /\ w.kind = "error"
  <2>1. saved' = saved /\ settled' = settled \cup {e}
    BY <1>4 DEF Confirm
  <2> HIDE DEF e
  <2>2. Held' = Held \cup {e}
    BY <1>2, <2>1 DEF Held, EnvelopesOf, Ids
  <2>3. Inbox!Take({e}, {e})
    BY <1>2, <2>1, <2>2 DEF Inbox!Take
  <2>4. {e} \in SUBSET Envelopes
    BY <1>1
  <2>. QED
    BY <2>3, <2>4 DEF Inbox!Next
<1>5. CASE Confirm(w) /\ w.kind # "error"
  <2>1. saved' = saved /\ settled' = settled
    BY <1>5 DEF Confirm
  <2>. QED
    BY <1>2, <2>1, InboxStutters
<1>. QED
  BY <1>3, <1>4, <1>5

\* Every step is one of the inbox, or none.
LEMMA InboxStep ==
    TypeInv /\ KeptInv /\ zombies = {} /\ [Next]_vars => [Inbox!Next]_(Inbox!ivars)
<1>1. SUFFICES ASSUME TypeInv, KeptInv, zombies = {}, [Next]_vars
               PROVE  Inbox!Next \/ UNCHANGED Inbox!ivars
  OBVIOUS
<1>2. CASE Connect \/ Disconnect \/ Unregister \/ DeliverEmpty \/ RetryFires
           \/ Crash \/ UNCHANGED vars
  BY <1>2, InboxStutters DEF Connect, Disconnect, Unregister, DeliverEmpty,
     RetryFires, Crash, vars, net, disk
<1>3. CASE Receive \/ StartBatch \/ CommitFails \/ PassToDecrypted
           \/ PassToApp \/ DispatchError \/ ScheduleRetry
  BY <1>3, InboxStutters DEF Receive, StartBatch, CommitFails, PassToDecrypted,
     PassToApp, DispatchError, ScheduleRetry, net, disk
<1>4. CASE Dispatch \/ OnEmpty \/ WaitForIncomingQueue \/ EmitEmpty
           \/ \E m \in draining : WaitForCacheAddBatcher(m)
  BY <1>4, InboxStutters DEF Dispatch, OnEmpty, WaitForIncomingQueue, EmitEmpty,
     WaitForCacheAddBatcher, net, disk
<1>5. CASE \E it \in ToSet(encrypted) : DecryptTask(it)
  BY <1>5, InboxStutters, DecryptOutcomes, <1>1
     DEF DecryptTask, Rejected, DecryptEffect, net, disk
<1>6. CASE \E w \in working : Save(w) \/ Confirm(w) \/ HandlerFails(w)
  BY <1>1, <1>6, InboxFinishes, InboxStutters DEF HandlerFails, net, disk
<1>7. CASE Deliver \/ \E n \in removals : CacheRemove(n)
  BY <1>1, <1>7, InboxRows
<1>8. CASE QueueAllCached \/ CommitBatch \/ AckBatch
  BY <1>1, <1>8, InboxGivesUp, InboxTakes, InboxAcks
<1>9. CASE \E it \in zombies : ZombieSucceeds(it)
  BY <1>1, <1>9
<1>. QED
  BY <1>1, <1>2, <1>3, <1>4, <1>5, <1>6, <1>7, <1>8, <1>9 DEF Next, Work

\* When no task times out, the receiver is an inbox that holds what it
\* acknowledges and finishes only what it holds.
THEOREM ReceiverIsInbox ==
    ASSUME MaxTimeouts = 0
    PROVE  Spec /\ NoOverlap => ImplementsInbox
<1>1. Init => Inbox!Init
  <2>1. SUFFICES ASSUME Init PROVE Inbox!Init
    OBVIOUS
  <2>2. received = <<>> /\ Ids = {}
    BY <2>1, EmptySeq DEF Init, Ids
  <2>. QED
    BY <2>1, <2>2 DEF Init, Inbox!Init, Held, EnvelopesOf
<1>. QED
  BY <1>1, InboxStep, DurabilityInvariance, NoZombies, PTL
     DEF Spec, ImplementsInbox, Inbox!Spec

-----------------------------------------------------------------------------
\* A process that connects once and does not retry loads the table once, before
\* it receives anything.

LoadsFirst ==
    /\ conn = "new" => incoming = <<>> /\ items = <<>> /\ draining = {}
    /\ \A i \in DOMAIN incoming :
          incoming[i].kind = "cached" => i = 1 /\ items = <<>>

\* A task that is no load joins the incoming queue, or its head leaves it.
LEMMA LoadStays ==
    ASSUME NEW q \in Queue, NEW e \in Entries, NEW empty \in BOOLEAN,
           \A i \in DOMAIN q : q[i].kind = "cached" => i = 1 /\ empty
    PROVE  /\ e.kind # "cached" =>
                \A i \in DOMAIN Append(q, e) :
                   Append(q, e)[i].kind = "cached" => i = 1 /\ empty
           /\ q = <<>> => \A i \in DOMAIN Append(q, e) : i = 1
           /\ q # <<>> => \A i \in DOMAIN Tail(q) : Tail(q)[i].kind # "cached"
           /\ q # <<>> => 1 \in DOMAIN q /\ Head(q) = q[1]
<1>1. /\ q \in Seq(Entries) /\ Len(q) \in Nat /\ DOMAIN q = 1..Len(q)
  BY LenProperties DEF Queue
<1>2. /\ Append(q, e) \in Seq(Entries) /\ Len(Append(q, e)) = Len(q) + 1
      /\ \A i \in 1..Len(q) : Append(q, e)[i] = q[i]
      /\ Append(q, e)[Len(q) + 1] = e
      /\ DOMAIN Append(q, e) = 1..(Len(q) + 1)
  BY <1>1, AppendProperties, LenProperties
<1>3. e.kind # "cached" =>
        \A i \in DOMAIN Append(q, e) :
           Append(q, e)[i].kind = "cached" => i = 1 /\ empty
  <2>1. \A i \in 1..(Len(q) + 1) : i \in 1..Len(q) \/ i = Len(q) + 1
    BY <1>1
  <2>. QED
    BY <1>1, <1>2, <2>1
<1>4. q = <<>> => \A i \in DOMAIN Append(q, e) : i = 1
  BY <1>1, <1>2, EmptySeq
<1>5. ASSUME q # <<>>
      PROVE  /\ \A i \in DOMAIN Tail(q) : Tail(q)[i].kind # "cached"
             /\ 1 \in DOMAIN q /\ Head(q) = q[1]
  <2>1. /\ Len(q) > 0 /\ Head(q) = q[1]
        /\ Tail(q) \in Seq(Entries) /\ Len(Tail(q)) = Len(q) - 1
        /\ \A i \in 1..Len(Tail(q)) : Tail(q)[i] = q[i + 1]
    BY <1>1, <1>5, HeadTailProperties, EmptySeq
  <2>2. DOMAIN Tail(q) = 1..(Len(q) - 1)
    BY <2>1, LenProperties
  <2>3. \A i \in 1..(Len(q) - 1) : i + 1 \in 1..Len(q) /\ i + 1 # 1
    BY <1>1
  <2>. QED
    BY <1>1, <2>1, <2>2, <2>3
<1>. QED
  BY <1>3, <1>4, <1>5

\* The load is queued once, on an empty queue, and nothing passes it.
LEMMA LoadsFirstStep ==
    ASSUME MaxReconnects = 0, MaxRetries = 0
    PROVE  TypeInv /\ LoadsFirst /\ [Next]_vars => LoadsFirst'
<1>1. SUFFICES ASSUME TypeInv, LoadsFirst, [Next]_vars PROVE LoadsFirst'
  OBVIOUS
<1>2. /\ incoming \in Queue /\ spent.reconnects \in Nat /\ spent.retries \in Nat
      /\ Len(received) \in Nat /\ Len(received') \in Nat /\ draining \subseteq Nat
  <2>1. received \in Seq(Envelopes) /\ received' \in Seq(Envelopes)
    BY <1>1, TypesStep DEF TypeInv, NetTypes
  <2>2. draining \subseteq Nat
    BY <1>1, <2>1, LenProperties DEF TypeInv, WorkTypes
  <2>. QED
    BY <1>1, <2>1, <2>2, LenProperties DEF TypeInv, QueueTypes, DiskTypes
<1>3. \A i \in DOMAIN incoming :
         incoming[i].kind = "cached" => i = 1 /\ items = <<>>
  BY <1>1 DEF LoadsFirst
<1>4. ASSUME NEW e \in Entries, e.kind # "cached",
             incoming' = Append(incoming, e), items' = items, conn' = conn,
             conn # "new"
      PROVE  LoadsFirst'
  <2>1. (items = <<>>) \in BOOLEAN
    OBVIOUS
  <2>2. \A i \in DOMAIN Append(incoming, e) :
           Append(incoming, e)[i].kind = "cached" => i = 1 /\ items = <<>>
    BY <1>2, <1>3, <1>4, <2>1, LoadStays
  <2>. QED
    BY <1>4, <2>2 DEF LoadsFirst
<1>5. ASSUME incoming # <<>>, incoming' = Tail(incoming), conn' = conn
      PROVE  LoadsFirst'
  <2>1. \A i \in DOMAIN Tail(incoming) : Tail(incoming)[i].kind # "cached"
    <3>1. (items = <<>>) \in BOOLEAN /\ Plain("cached", 0) \in Entries
      BY DEF Plain, Entry, Entries
    <3>. QED
      BY <1>2, <1>3, <1>5, <3>1, LoadStays
  <2>2. conn # "new"
    BY <1>1, <1>5 DEF LoadsFirst
  <2>. QED
    BY <1>5, <2>1, <2>2 DEF LoadsFirst
<1>6. CASE Connect
  <2>1. conn = "new" /\ conn' = "up" /\ items' = items
        /\ incoming' = Append(incoming, Plain("cached", 0))
    BY <1>2, <1>6 DEF Connect
  <2>2. incoming = <<>> /\ items = <<>>
    BY <1>1, <2>1 DEF LoadsFirst
  <2>3. Plain("cached", 0) \in Entries /\ (items = <<>>) \in BOOLEAN
    BY DEF Plain, Entry, Entries
  <2>4. \A i \in DOMAIN Append(incoming, Plain("cached", 0)) : i = 1
    BY <1>2, <1>3, <2>2, <2>3, LoadStays
  <2>. QED
    BY <2>1, <2>2, <2>4 DEF LoadsFirst
<1>7. CASE Deliver
  <2> DEFINE e == Entry("message", Len(received'), 0, TRUE)
  <2>1. e \in Entries /\ e.kind # "cached"
    BY <1>2 DEF Entry, Entries
  <2>2. incoming' = Append(incoming, e) /\ items' = items /\ conn = "up"
        /\ conn' = conn
    BY <1>7 DEF Deliver
  <2> HIDE DEF e
  <2>. QED
    BY <1>4, <2>1, <2>2
<1>8. CASE DeliverEmpty
  <2> DEFINE e == Plain("empty", Len(received))
  <2>1. e \in Entries /\ e.kind # "cached"
    BY <1>2 DEF Plain, Entry, Entries
  <2>2. incoming' = Append(incoming, e) /\ items' = items /\ conn = "up"
        /\ conn' = conn
    BY <1>8 DEF DeliverEmpty
  <2> HIDE DEF e
  <2>. QED
    BY <1>4, <2>1, <2>2
<1>9. CASE \E m \in draining : WaitForCacheAddBatcher(m)
  <2>1. PICK m \in draining : WaitForCacheAddBatcher(m)
    BY <1>9
  <2> DEFINE e == Plain("drained", m)
  <2>2. e \in Entries /\ e.kind # "cached"
    BY <1>2 DEF Plain, Entry, Entries
  <2>3. incoming' = Append(incoming, e) /\ items' = items /\ conn' = conn
    BY <2>1 DEF WaitForCacheAddBatcher, net
  <2>4. conn # "new"
    BY <1>1, <2>1 DEF LoadsFirst
  <2> HIDE DEF e
  <2>. QED
    BY <1>4, <2>2, <2>3, <2>4
<1>10. CASE Receive \/ QueueAllCached \/ OnEmpty \/ WaitForIncomingQueue
  <2>1. incoming # <<>> /\ incoming' = Tail(incoming) /\ conn' = conn
    BY <1>10 DEF Receive, QueueAllCached, OnEmpty, WaitForIncomingQueue, net
  <2>. QED
    BY <1>5, <2>1
<1>11. CASE StartBatch
  <2>1. items # <<>> /\ incoming' = incoming /\ conn' = conn
    BY <1>11 DEF StartBatch, net
  <2>. QED
    BY <1>1, <2>1 DEF LoadsFirst
<1>12. CASE Crash
  <2>1. incoming' = <<>> /\ items' = <<>> /\ draining' = {}
    BY <1>12 DEF Crash
  <2>2. DOMAIN incoming' = {}
    BY <2>1
  <2>. QED
    BY <2>1, <2>2 DEF LoadsFirst
<1>13. CASE RetryFires
  BY <1>2, <1>13 DEF RetryFires
<1>14. ASSUME UNCHANGED <<incoming, items, draining>>,
              conn' = conn \/ conn' # "new"
       PROVE  LoadsFirst'
  BY <1>1, <1>14 DEF LoadsFirst
<1>15. CASE Disconnect \/ Unregister \/ UNCHANGED vars
  <2>1. /\ UNCHANGED <<incoming, items, draining>>
        /\ conn' = conn \/ conn' # "new"
    BY <1>15 DEF Disconnect, Unregister, vars, net, queues
  <2>. QED
    BY <1>14, <2>1
<1>16. CASE CommitBatch \/ CommitFails \/ AckBatch \/ PassToDecrypted
            \/ PassToApp \/ DispatchError \/ ScheduleRetry \/ Dispatch
            \/ EmitEmpty
  <2>1. UNCHANGED <<incoming, items, draining, conn>>
    BY <1>16 DEF CommitBatch, CommitFails, AckBatch, PassToDecrypted, PassToApp,
       DispatchError, ScheduleRetry, Dispatch, EmitEmpty, net
  <2>. QED
    BY <1>14, <2>1
<1>17. CASE \/ \E it \in zombies : ZombieSucceeds(it)
            \/ \E w \in working : Save(w) \/ Confirm(w) \/ HandlerFails(w)
            \/ \E n \in removals : CacheRemove(n)
  <2>1. UNCHANGED <<incoming, items, draining, conn>>
    BY <1>17 DEF ZombieSucceeds, Save, Confirm, HandlerFails, CacheRemove, net
  <2>. QED
    BY <1>14, <2>1
<1>18. CASE \E it \in ToSet(encrypted) : DecryptTask(it)
  <2>1. UNCHANGED <<incoming, items, draining, conn>>
    BY <1>1, <1>18, DecryptOutcomes
       DEF DecryptTask, Rejected, DecryptEffect, net
  <2>. QED
    BY <1>14, <2>1
<1>. QED
  BY <1>1, <1>6, <1>7, <1>8, <1>9, <1>10, <1>11, <1>12, <1>13, <1>15, <1>16,
     <1>17, <1>18 DEF Next, Work

\* Without reconnections and retries no two loads overlap.
LEMMA OneLoad ==
    ASSUME MaxReconnects = 0, MaxRetries = 0
    PROVE  Spec => NoOverlap
<1>1. Init => LoadsFirst
  BY DEF Init, InitProcess, LoadsFirst
<1>2. ASSUME TypeInv, LoadsFirst, QueueAllCached PROVE items = <<>>
  <2>1. incoming # <<>> /\ Head(incoming).kind = "cached" /\ incoming \in Queue
    BY <1>2 DEF QueueAllCached, TypeInv, QueueTypes
  <2>2. /\ Plain("cached", 0) \in Entries /\ (items = <<>>) \in BOOLEAN
        /\ \A i \in DOMAIN incoming :
              incoming[i].kind = "cached" => i = 1 /\ items = <<>>
    BY <1>2 DEF Plain, Entry, Entries, LoadsFirst
  <2>3. 1 \in DOMAIN incoming /\ Head(incoming) = incoming[1]
    BY <2>1, <2>2, LoadStays
  <2>. QED
    BY <2>1, <2>2, <2>3
<1>3. TypeInv /\ LoadsFirst /\ [Next]_vars => [LoadsAlone]_vars
  BY <1>2, QueueEmpty DEF LoadsAlone
<1>. QED
  BY <1>1, <1>3, TypesInitially, TypesStep, LoadsFirstStep, PTL
     DEF Spec, NoOverlap

\* So the theorems hold of a receiver that keeps its connection, whatever
\* crashes, fails or stops.
THEOREM DurableOverOneConnection ==
    ASSUME MaxReconnects = 0, MaxRetries = 0
    PROVE  /\ Spec => []AckedIsDurable
           /\ MaxTimeouts = 0 => (Spec => []DecryptedIsKept /\ ImplementsInbox)
<1>1. Spec => []AckedIsDurable
  BY OneLoad, AckedStaysDurable, PTL
<1>2. ASSUME MaxTimeouts = 0 PROVE Spec => []DecryptedIsKept /\ ImplementsInbox
  BY <1>2, OneLoad, DecryptedStaysKept, ReceiverIsInbox, PTL
<1>. QED
  BY <1>1, <1>2
=============================================================================
