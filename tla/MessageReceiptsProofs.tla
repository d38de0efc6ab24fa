-------------------------- MODULE MessageReceiptsProofs --------------------------
(***************************************************************************)
(* Proofs about MessageReceipts, for any messages, recipients, receipts    *)
(* and bounds: no row falls back once its message was sent, and a receipt  *)
(* that was confirmed is in the database.                                  *)
(*                                                                         *)
(* Both follow the writes that the database has not served: each state in  *)
(* them is at least what the row has, and at most what is in memory; what  *)
(* they add has been asked for, and what they remove is not needed.        *)
(***************************************************************************)
EXTENDS MessageReceipts, SequenceFacts, TLAPS

\* b does not go back behind a, for those the message was sent to.
Rises(a, b) == \A r \in Recipients : a[r] >= Sent => b[r] >= a[r]

\* Writes, and who asks for them.
RowSets == UNION {[D -> States] : D \in SUBSET Messages}
Askers == ({"store"} \X Receipts) \cup ({"batch", "handle", "send"} \X Messages)
Writes == [rows : RowSets, added : SUBSET Receipts, removed : SUBSET Receipts,
           by : Askers]

\* The types, by part.
StateTypes ==
    /\ sent \in [Messages -> States]
    /\ stored \in RowSets /\ Ours \subseteq DOMAIN stored
    /\ writes \in Seq(Writes)

Batches == [step : {"idle", "finding", "found", "applied"},
            receipts : SUBSET Receipts]
ReceiptTypes ==
    /\ tasks \cup cached \cup items \cup missed \cup early \cup lost
         \subseteq Receipts
    /\ receiving \in [Receipts -> {"none", "storing", "confirmed"}]
    /\ batch \in [Messages -> Batches]

Sends == [step : {"queued", "sending", "answered", "marked", "sent", "failed"},
          attempt : 0..MaxAttempts, to : SUBSET Recipients,
          ok : SUBSET Recipients]
\* A job that is tried again has an attempt left.
SendTypes ==
    /\ send \in [Ours -> Sends]
    /\ \A m \in Ours : send[m].step = "queued" => send[m].attempt < MaxAttempts
    /\ accepted \in [Messages -> SUBSET Recipients] /\ events \in 0..MaxEvents
HandleTypes ==
    handle \in [Synced -> {"none", "first", "saving", "second", "done"}]
TypeInv == StateTypes /\ ReceiptTypes /\ SendTypes /\ HandleTypes

-----------------------------------------------------------------------------
\* The operators.

\* Rows of some messages are a function on them.
LEMMA RowSetsFacts ==
    /\ \A f : f \in RowSets <=> \E D \in SUBSET Messages : f \in [D -> States]
    /\ \A f \in RowSets : /\ DOMAIN f \subseteq Messages
                          /\ f \in [DOMAIN f -> States]
                          /\ \A m \in DOMAIN f : f[m] \in States
<1>1. \A f : f \in RowSets <=> \E D \in SUBSET Messages : f \in [D -> States]
  BY DEF RowSets
<1>. QED
  BY <1>1

\* The statuses are ordered numbers.
LEMMA StatusFacts ==
    /\ Statuses = 0..5 /\ Failed = 0 /\ Pending = 1 /\ Sent = 2
    /\ Delivered = 3 /\ Read = 4 /\ Viewed = 5
<1>. QED
  BY DEF Statuses, Failed, Pending, Sent, Delivered, Read, Viewed

\* Some statuses have a greatest.
LEMMA GreatestStatus ==
    ASSUME NEW T \in SUBSET Statuses, T # {}
    PROVE  Max(T) \in T /\ \A t \in T : Max(T) >= t
<1>1. \E s \in T : \A t \in T : s >= t
  <2>1. T \subseteq 0..5 /\ \E t \in T : TRUE
    BY StatusFacts
  <2>2. CASE 5 \in T
    BY <2>1, <2>2
  <2>3. CASE 5 \notin T /\ 4 \in T
    BY <2>1, <2>3
  <2>4. CASE 5 \notin T /\ 4 \notin T /\ 3 \in T
    BY <2>1, <2>4
  <2>5. CASE 5 \notin T /\ 4 \notin T /\ 3 \notin T /\ 2 \in T
    BY <2>1, <2>5
  <2>6. CASE 5 \notin T /\ 4 \notin T /\ 3 \notin T /\ 2 \notin T
    BY <2>1, <2>6
  <2>. QED
    BY <2>2, <2>3, <2>4, <2>5, <2>6
<1>. QED
  BY <1>1 DEF Max

\* A step of the reducer never takes a status back that is sent or more.
LEMMA ReducerFacts ==
    ASSUME NEW old \in Statuses, NEW new \in Statuses
    PROVE  /\ SendStateReducer(old, new) \in Statuses
           /\ old >= Sent => SendStateReducer(old, new) >= old
<1>. QED
  BY StatusFacts DEF SendStateReducer, Larger

\* Receipts raise a state to what they say.
LEMMA ReceiptsRaise ==
    ASSUME NEW state \in States, NEW X \in SUBSET Receipts
    PROVE  /\ WithReceipts(state, X) \in States
           /\ Rises(state, WithReceipts(state, X))
           /\ \A x \in X : WithReceipts(state, X)[x.from] >= x.status
<1> DEFINE T(r) == {state[r]} \cup {x.status : x \in {y \in X : y.from = r}}
           W == WithReceipts(state, X)
<1>1. \A x \in Receipts : x.from \in Recipients /\ x.status \in Statuses
  BY MessageReceiptsAssumption, StatusFacts
<1>2. \A r \in Recipients : T(r) \in SUBSET Statuses /\ T(r) # {}
  BY <1>1 DEF States
<1>3. \A r \in Recipients : Max(T(r)) \in Statuses /\ \A t \in T(r) : Max(T(r)) >= t
  <2>. HIDE DEF T
  <2>. QED
    BY <1>2, GreatestStatus
<1>4. W = [r \in Recipients |-> Max(T(r))]
  BY DEF WithReceipts
<1>5. \A r \in Recipients : W[r] \in Statuses /\ \A t \in T(r) : W[r] >= t
  BY <1>3, <1>4
<1>6. W \in States
  BY <1>4, <1>5 DEF States
<1>7. Rises(state, W)
  BY <1>5 DEF Rises
<1>8. \A x \in X : W[x.from] >= x.status
  <2>1. \A x \in X : x.status \in T(x.from) /\ x.from \in Recipients
    BY <1>1
  <2>. QED
    BY <1>5, <2>1
<1>. QED
  BY <1>6, <1>7, <1>8

-----------------------------------------------------------------------------
\* The writes.

\* A sequence of one write.
LEMMA OneWrite ==
    ASSUME NEW w \in Writes
    PROVE  <<w>> \in Seq(Writes) /\ ToSet(<<w>>) = {w}
<1>1. <<w>> \in Seq(Writes)
  OBVIOUS
<1>2. DOMAIN <<w>> = {1} /\ <<w>>[1] = w
  OBVIOUS
<1>. QED
  BY <1>1, <1>2 DEF ToSet

\* The write w is of a row only.
Saves(w, m, state, by) ==
    /\ DOMAIN w.rows = {m} /\ w.rows[m] = state
    /\ w.added = {} /\ w.removed = {} /\ w.by = by

\* A save writes the row of its message.
LEMMA SaveFacts ==
    ASSUME NEW m \in Messages, NEW state \in States, NEW by \in Askers
    PROVE  /\ Save(m, state, by) \in Seq(Writes)
           /\ \E w \in Writes :
                 ToSet(Save(m, state, by)) = {w} /\ Saves(w, m, state, by)
<1> DEFINE rows == [n \in {m} |-> state]
           w == Write(rows, {}, {}, by)
<1>1. rows \in [{m} -> States] /\ rows[m] = state
  OBVIOUS
<1>2. rows \in RowSets /\ DOMAIN rows = {m}
  BY <1>1, RowSetsFacts
<1>3. /\ w \in Writes /\ w.rows = rows
      /\ w.added = {} /\ w.removed = {} /\ w.by = by
  BY <1>2 DEF Write, Writes
<1>. QED
  BY <1>1, <1>2, <1>3, OneWrite DEF Save, Saves

\* The other writes leave the rows alone.
LEMMA TaskFacts ==
    ASSUME NEW X \in SUBSET Receipts, NEW by \in Askers
    PROVE  /\ RemoveTasks(X, by) \in Seq(Writes)
           /\ \A w \in ToSet(RemoveTasks(X, by)) :
                 /\ DOMAIN w.rows = {} /\ w.by = by
                 /\ w.added = {} /\ w.removed = X
<1> DEFINE w == Write(<<>>, {}, X, by)
<1>1. <<>> \in [{} -> States] /\ DOMAIN <<>> = {}
  OBVIOUS
<1>2. <<>> \in RowSets
  BY <1>1, RowSetsFacts
<1>3. /\ w \in Writes /\ DOMAIN w.rows = {} /\ w.by = by
      /\ w.added = {} /\ w.removed = X
  BY <1>1, <1>2 DEF Write, Writes
<1>4. CASE X = {}
  BY <1>4, EmptyFacts DEF RemoveTasks
<1>5. CASE X # {}
  BY <1>3, <1>5, OneWrite DEF RemoveTasks
<1>. QED
  BY <1>4, <1>5

\* Storing a task leaves the rows alone.
LEMMA StoreFacts ==
    ASSUME NEW x \in Receipts
    PROVE  /\ Store(x) \in Seq(Writes)
           /\ \E w \in Writes :
                 /\ ToSet(Store(x)) = {w} /\ DOMAIN w.rows = {}
                 /\ w.added = {x} /\ w.removed = {} /\ w.by = <<"store", x>>
<1> DEFINE w == Write(<<>>, {x}, {}, <<"store", x>>)
<1>1. <<>> \in [{} -> States] /\ DOMAIN <<>> = {}
  OBVIOUS
<1>2. <<>> \in RowSets
  BY <1>1, RowSetsFacts
<1>3. /\ w \in Writes /\ DOMAIN w.rows = {} /\ w.added = {x}
      /\ w.removed = {} /\ w.by = <<"store", x>>
  BY <1>1, <1>2 DEF Write, Writes, Askers
<1>. QED
  BY <1>3, OneWrite DEF Store

\* Who waits has a write in the queue.
LEMMA WritingFacts ==
    \A by : Writing(by) <=> \E w \in ToSet(writes) : w.by = by
<1>. QED
  BY DEF Writing, ToSet

\* A served write changes the rows it has, and nothing else.
LEMMA ServeFacts ==
    ASSUME TypeInv, Serve
    PROVE  /\ Head(writes) \in Writes /\ writes' = Tail(writes)
           /\ writes' \in Seq(Writes) /\ stored' \in RowSets
           /\ ToSet(writes) = {Head(writes)} \cup ToSet(writes')
           /\ DOMAIN stored' = DOMAIN stored \cup DOMAIN Head(writes).rows
           /\ \A m \in DOMAIN stored' :
                 stored'[m] = IF m \in DOMAIN Head(writes).rows
                              THEN Head(writes).rows[m] ELSE stored[m]
<1>1. writes \in Seq(Writes) /\ writes # <<>> /\ writes' = Tail(writes)
  BY DEF TypeInv, StateTypes, Serve
<1>2. /\ Tail(writes) \in Seq(Writes) /\ Head(writes) \in Writes
      /\ ToSet(writes) = {Head(writes)} \cup ToSet(Tail(writes))
  BY <1>1, TailFacts
<1> DEFINE new == Head(writes).rows
<1>3. new \in RowSets /\ stored \in RowSets
  BY <1>2 DEF Writes, TypeInv, StateTypes
<1>4. stored' = [m \in DOMAIN new \cup DOMAIN stored |->
                    IF m \in DOMAIN new THEN new[m] ELSE stored[m]]
  BY DEF Serve
<1>5. stored' \in [DOMAIN new \cup DOMAIN stored -> States]
  BY <1>3, <1>4, RowSetsFacts
<1>6. DOMAIN new \cup DOMAIN stored \in SUBSET Messages
  BY <1>3, RowSetsFacts
<1>7. stored' \in RowSets
  BY <1>5, <1>6, RowSetsFacts
<1>. QED
  BY <1>1, <1>2, <1>4, <1>7

-----------------------------------------------------------------------------
\* What a step asks of the database.

\* Saves of the state that is in memory then, which is no step back.
Adds(t) ==
    /\ writes' = writes \o t /\ stored' = stored
    /\ sent' \in [Messages -> States]
    /\ \A m \in Messages : Rises(sent[m], sent'[m])
    /\ \A w \in ToSet(t) : \A m \in DOMAIN w.rows : w.rows[m] = sent'[m]
Asks == \E t \in Seq(Writes) : Adds(t)

\* Every state is as high as itself.
LEMMA RisesFacts ==
    ASSUME NEW a \in States
    PROVE  /\ Rises(a, a)
           /\ \A b, c \in States : Rises(a, b) /\ Rises(b, c) => Rises(a, c)
<1>. QED
  BY StatusFacts DEF Rises, States

\* A step that changes no state and no write asks for nothing.
LEMMA AsksNothing ==
    ASSUME StateTypes, UNCHANGED <<sent, stored, writes>>
    PROVE  Asks
<1>1. <<>> \in Seq(Writes) /\ ToSet(<<>>) = {} /\ writes \o <<>> = writes
  BY EmptyFacts DEF StateTypes
<1>2. \A m \in Messages : Rises(sent[m], sent'[m])
  BY RisesFacts DEF StateTypes
<1>3. Adds(<<>>)
  BY <1>1, <1>2 DEF Adds, StateTypes
<1>. QED
  BY <1>1, <1>3 DEF Asks

\* One that asks for writes of tasks only asks for no save.
LEMMA AsksTasks ==
    ASSUME StateTypes, UNCHANGED <<sent, stored>>, NEW t \in Seq(Writes),
           writes' = writes \o t, \A w \in ToSet(t) : DOMAIN w.rows = {}
    PROVE  Asks
<1>1. \A m \in Messages : Rises(sent[m], sent'[m])
  BY RisesFacts DEF StateTypes
<1>2. Adds(t)
  BY <1>1 DEF Adds, StateTypes
<1>. QED
  BY <1>2 DEF Asks

\* One that raises the state of a message may ask for the save of it.
LEMMA AsksSave ==
    ASSUME StateTypes, NEW m \in Messages, NEW state \in States,
           NEW by \in Askers, Rises(sent[m], state),
           sent' = [sent EXCEPT ![m] = state], stored' = stored,
           \/ writes' = writes \o Save(m, state, by)
           \/ writes' = writes
    PROVE  Asks
<1>0. /\ Save(m, state, by) \in Seq(Writes)
      /\ \E w \in Writes : ToSet(Save(m, state, by)) = {w} /\ Saves(w, m, state, by)
  BY SaveFacts
<1>1. PICK w \in Writes : ToSet(Save(m, state, by)) = {w} /\ Saves(w, m, state, by)
  BY <1>0
<1>2. Save(m, state, by) \in Seq(Writes)
  BY <1>0
<1>3. \A n \in Messages : sent'[n] = IF n = m THEN state ELSE sent[n]
  BY DEF StateTypes
<1>4. /\ sent' \in [Messages -> States]
      /\ \A n \in Messages : Rises(sent[n], sent'[n])
  BY <1>3, RisesFacts DEF StateTypes
<1>5. CASE writes' = writes \o Save(m, state, by)
  <2>1. Adds(Save(m, state, by))
    BY <1>1, <1>3, <1>4, <1>5 DEF Adds, Saves
  <2>. QED
    BY <1>2, <2>1 DEF Asks
<1>6. CASE writes' = writes
  <2>1. <<>> \in Seq(Writes) /\ ToSet(<<>>) = {} /\ writes \o <<>> = writes
    BY EmptyFacts DEF StateTypes
  <2>2. Adds(<<>>)
    BY <2>1, <1>4, <1>6 DEF Adds
  <2>. QED
    BY <2>1, <2>2 DEF Asks
<1>. QED
  BY <1>5, <1>6

\* What is asked keeps the types.
LEMMA AsksTypes ==
    ASSUME StateTypes, Asks
    PROVE  StateTypes'
<1>1. PICK t \in Seq(Writes) : Adds(t)
  BY DEF Asks
<1>2. writes' \in Seq(Writes)
  BY <1>1 DEF Adds, StateTypes
<1>. QED
  BY <1>1, <1>2 DEF Adds, StateTypes

\* At first nothing is written.
LEMMA TypesInitially == Init => TypeInv
<1>1. SUFFICES ASSUME Init PROVE TypeInv
  OBVIOUS
<1>2. \A status \in Statuses : All(status) \in States
  BY DEF All, States
<1>3. All(Sent) \in States /\ All(Pending) \in States
  BY <1>2, StatusFacts
<1>4. Ours \subseteq Messages /\ Synced \subseteq Messages
  BY MessageReceiptsAssumption DEF Ours
<1>5. sent \in [Messages -> States]
  BY <1>1, <1>3 DEF Init
<1>6. stored \in [Ours -> States]
  BY <1>1, <1>4, <1>5 DEF Init
<1>7. stored \in RowSets /\ Ours \subseteq DOMAIN stored
  BY <1>4, <1>6, RowSetsFacts
<1>8. writes \in Seq(Writes)
  BY <1>1 DEF Init, InitProcess
<1>9. ReceiptTypes
  BY <1>1 DEF Init, InitProcess, ReceiptTypes, NoBatch, Batches
<1>10. SendTypes
  BY <1>1, MessageReceiptsAssumption DEF Init, SendTypes, Sends, NoSend
<1>11. HandleTypes
  BY <1>1 DEF Init, HandleTypes
<1>. QED
  BY <1>5, <1>7, <1>8, <1>9, <1>10, <1>11 DEF TypeInv, StateTypes

\* The handlers of receipts.
LEMMA TypesReceive ==
    ASSUME TypeInv, NEW x \in Receipts, Receive(x) \/ OnReceipt(x)
    PROVE  TypeInv' /\ Asks
<1>1. ReceiptTypes' /\ SendTypes' /\ HandleTypes'
  BY DEF TypeInv, ReceiptTypes, SendTypes, HandleTypes, Receive, OnReceipt,
         sending, ghosts
<1>2. CASE Receive(x)
  <2>1. Asks
    BY <1>2, StoreFacts, AsksTasks DEF Receive, TypeInv
  <2>. QED
    BY <1>1, <2>1, AsksTypes DEF TypeInv
<1>3. CASE OnReceipt(x)
  <2>1. Asks
    BY <1>3, AsksNothing DEF OnReceipt, TypeInv
  <2>. QED
    BY <1>1, <2>1, AsksTypes DEF TypeInv
<1>. QED
  BY <1>2, <1>3

\* A batch begins and looks for its messages.
LEMMA TypesFind ==
    ASSUME TypeInv, Kick \/ \E m \in Messages : Find(m)
    PROVE  TypeInv' /\ Asks
<1>1. SendTypes' /\ HandleTypes'
  BY DEF TypeInv, SendTypes, HandleTypes, Kick, Find, sending
<1>2. ReceiptTypes'
  <2>1. CASE Kick
    <3>1. ASSUME NEW m \in Messages, NEW due, due = {x \in items : x.of = m}
          PROVE  (IF due = {} THEN NoBatch
                  ELSE [step |-> "finding", receipts |-> due]) \in Batches
      <4>1. due \in SUBSET Receipts
        BY <3>1 DEF TypeInv, ReceiptTypes
      <4>. QED
        BY <4>1 DEF NoBatch, Batches
    <3>2. batch' \in [Messages -> Batches]
      BY <2>1, <3>1 DEF Kick
    <3>. QED
      BY <2>1, <3>2 DEF Kick, TypeInv, ReceiptTypes, ghosts
  <2>2. CASE \E m \in Messages : Find(m)
    <3>1. PICK m \in Messages : Find(m)
      BY <2>2
    <3> DEFINE found == {x \in batch[m].receipts :
                           /\ m \in DOMAIN stored
                           /\ stored[m][x.from] \notin Undelivered}
    <3>2. /\ found \in SUBSET Receipts
          /\ missed' = missed \cup (batch[m].receipts \ found)
      BY <3>1 DEF Find, TypeInv, ReceiptTypes, Batches
    <3>3. To(m, "found", found)
      BY <3>1 DEF Find
    <3>4. batch[m].receipts \in SUBSET Receipts
      BY DEF TypeInv, ReceiptTypes, Batches
    <3>. HIDE DEF found
    <3>5. batch' \in [Messages -> Batches]
      BY <3>2, <3>3 DEF To, NoBatch, Batches, TypeInv, ReceiptTypes
    <3>. QED
      BY <3>1, <3>2, <3>4, <3>5 DEF Find, TypeInv, ReceiptTypes
  <2>. QED
    BY <2>1, <2>2
<1>3. Asks
  BY AsksNothing DEF Kick, Find, TypeInv
<1>. QED
  BY <1>1, <1>2, <1>3, AsksTypes DEF TypeInv

\* A batch applies its receipts and removes them.
LEMMA TypesApply ==
    ASSUME TypeInv, NEW m \in Messages, Apply(m) \/ RemoveNext(m)
    PROVE  TypeInv' /\ Asks
<1>1. SendTypes' /\ HandleTypes'
  BY DEF TypeInv, SendTypes, HandleTypes, Apply, RemoveNext, sending
<1>2. ReceiptTypes'
  <2>1. CASE Apply(m)
    BY <2>1 DEF Apply, TypeInv, ReceiptTypes, Batches, ghosts
  <2>2. CASE RemoveNext(m)
    <3>1. batch' \in [Messages -> Batches] /\ cached' \subseteq cached
      <4>1. CASE batch[m].receipts = {}
        <5>1. batch' = [batch EXCEPT ![m] = NoBatch] /\ cached' = cached
          BY <2>2, <4>1 DEF RemoveNext
        <5>2. NoBatch \in Batches
          BY DEF NoBatch, Batches
        <5>. QED
          BY <5>1, <5>2 DEF TypeInv, ReceiptTypes
      <4>2. CASE batch[m].receipts # {}
        <5>1. PICK x \in batch[m].receipts :
                 /\ cached' = cached \ {x}
                 /\ batch' = [batch EXCEPT ![m].receipts = @ \ {x}]
          BY <2>2, <4>2 DEF RemoveNext
        <5>. QED
          BY <5>1 DEF TypeInv, ReceiptTypes, Batches
      <4>. QED
        BY <4>1, <4>2
    <3>. QED
      BY <2>2, <3>1 DEF RemoveNext, TypeInv, ReceiptTypes, ghosts
  <2>. QED
    BY <2>1, <2>2
<1>3. <<"batch", m>> \in Askers
  BY DEF Askers
<1>4. CASE Apply(m)
  <2> DEFINE valid == batch[m].receipts \cap cached
  <2>1. valid \in SUBSET Receipts /\ sent[m] \in States
    BY DEF TypeInv, ReceiptTypes, Batches, StateTypes
  <2>2. /\ WithReceipts(sent[m], valid) \in States
        /\ Rises(sent[m], WithReceipts(sent[m], valid))
    BY <2>1, ReceiptsRaise
  <2>3. /\ sent' = [sent EXCEPT ![m] = WithReceipts(sent[m], valid)]
        /\ stored' = stored
        /\ writes' = writes \o Save(m, WithReceipts(sent[m], valid), <<"batch", m>>)
    BY <1>4 DEF Apply
  <2>4. Asks
    <3>. HIDE DEF valid
    <3>. QED
      BY <1>3, <2>2, <2>3, AsksSave DEF TypeInv
  <2>. QED
    BY <1>1, <1>2, <2>4, AsksTypes DEF TypeInv
<1>5. CASE RemoveNext(m)
  <2>1. CASE batch[m].receipts = {}
    <3>1. Asks
      BY <1>5, <2>1, AsksNothing DEF RemoveNext, TypeInv
    <3>. QED
      BY <1>1, <1>2, <3>1, AsksTypes DEF TypeInv
  <2>2. CASE batch[m].receipts # {}
    <3>1. PICK x \in batch[m].receipts :
             writes' = writes \o RemoveTasks({x}, <<"batch", m>>)
      BY <1>5, <2>2 DEF RemoveNext
    <3>2. {x} \in SUBSET Receipts
      BY DEF TypeInv, ReceiptTypes, Batches
    <3>3. /\ RemoveTasks({x}, <<"batch", m>>) \in Seq(Writes)
          /\ \A w \in ToSet(RemoveTasks({x}, <<"batch", m>>)) : DOMAIN w.rows = {}
      BY <1>3, <3>2, TaskFacts
    <3>4. UNCHANGED <<sent, stored>>
      BY <1>5 DEF RemoveNext
    <3>5. Asks
      BY <3>1, <3>3, <3>4, AsksTasks DEF TypeInv
    <3>. QED
      BY <1>1, <1>2, <3>5, AsksTypes DEF TypeInv
  <2>. QED
    BY <2>1, <2>2
<1>. QED
  BY <1>4, <1>5

\* The handler of a transcript.
LEMMA TypesForMessage ==
    ASSUME TypeInv, NEW m \in Synced, FirstRun(m) \/ SecondRun(m)
    PROVE  TypeInv' /\ Asks
<1>1. SendTypes' /\ HandleTypes'
  BY DEF TypeInv, SendTypes, HandleTypes, FirstRun, SecondRun, sending
<1>2. ReceiptTypes'
  BY DEF FirstRun, SecondRun, ForMessage, TypeInv, ReceiptTypes
<1> DEFINE taken == {x \in cached : x.of = m}
           t == RemoveTasks(taken, <<"handle", m>>)
<1>3. taken \in SUBSET Receipts /\ <<"handle", m>> \in Askers
  BY MessageReceiptsAssumption DEF Askers, TypeInv, ReceiptTypes
<1>4. writes' = writes \o t /\ UNCHANGED <<sent, stored>>
  BY DEF FirstRun, SecondRun, ForMessage
<1>5. t \in Seq(Writes) /\ \A w \in ToSet(t) : DOMAIN w.rows = {}
  <2>. HIDE DEF taken
  <2>. QED
    BY <1>3, TaskFacts
<1>6. Asks
  <2>. HIDE DEF t
  <2>. QED
    BY <1>4, <1>5, AsksTasks DEF TypeInv
<1>. QED
  BY <1>1, <1>2, <1>6, AsksTypes DEF TypeInv

\* It saves what it has taken.
LEMMA TypesModify ==
    ASSUME TypeInv, NEW m \in Synced, Modify(m)
    PROVE  TypeInv' /\ Asks
<1>1. ReceiptTypes' /\ SendTypes' /\ HandleTypes'
  BY DEF TypeInv, ReceiptTypes, SendTypes, HandleTypes, Modify, receipting,
         sending, ghosts
<1> DEFINE taken == {x \in early : x.of = m}
           state == WithReceipts(sent[m], taken)
<1>2. m \in Messages /\ <<"handle", m>> \in Askers
  BY MessageReceiptsAssumption DEF Askers
<1>3. taken \in SUBSET Receipts /\ sent[m] \in States
  BY <1>2 DEF TypeInv, ReceiptTypes, Batches, StateTypes
<1>4. state \in States /\ Rises(sent[m], state)
  <2>. HIDE DEF taken
  <2>. QED
    BY <1>3, ReceiptsRaise
<1>5. /\ sent' = [sent EXCEPT ![m] = state] /\ stored' = stored
      /\ \/ writes' = writes \o Save(m, state, <<"handle", m>>)
         \/ writes' = writes
  BY DEF Modify
<1>6. Asks
  <2>. HIDE DEF state
  <2>. QED
    BY <1>2, <1>4, <1>5, AsksSave DEF TypeInv
<1>. QED
  BY <1>1, <1>6, AsksTypes DEF TypeInv

\* The send of a message.
LEMMA TypesBegin ==
    ASSUME TypeInv, NEW m \in Ours,
           Begin(m) \/ \E r \in Recipients : Accept(m, r)
    PROVE  TypeInv' /\ Asks
<1>1. ReceiptTypes' /\ HandleTypes'
  BY DEF TypeInv, ReceiptTypes, HandleTypes, Begin, Accept, receipting, ghosts
<1>2. SendTypes'
  <2>1. CASE Begin(m)
    <3> DEFINE unsent == Unsent(m)
    <3>1. unsent \in SUBSET Recipients
      BY DEF Unsent
    <3> DEFINE next == IF unsent = {} THEN [NoSend EXCEPT !.step = "sent"]
                       ELSE [step |-> "sending", attempt |-> send[m].attempt + 1,
                             to |-> unsent, ok |-> {}]
    <3>2. send' = [send EXCEPT ![m] = next] /\ UNCHANGED <<accepted, events>>
      BY <2>1 DEF Begin
    <3>3. send[m].attempt + 1 \in 0..MaxAttempts /\ 0 \in 0..MaxAttempts
      BY <2>1, MessageReceiptsAssumption
         DEF Begin, Sending, TypeInv, SendTypes, Sends
    <3>4. next \in Sends /\ next.step # "queued"
      <4>. HIDE DEF unsent
      <4>1. CASE unsent = {}
        BY <3>3, <4>1 DEF NoSend, Sends
      <4>2. CASE unsent # {}
        BY <3>1, <3>3, <4>2 DEF Sends
      <4>. QED
        BY <4>1, <4>2
    <3>. HIDE DEF next
    <3>. QED
      BY <3>2, <3>4 DEF TypeInv, SendTypes
  <2>2. CASE \E r \in Recipients : Accept(m, r)
    BY <2>2 DEF Accept, TypeInv, SendTypes
  <2>. QED
    BY <2>1, <2>2
<1>3. Asks
  BY AsksNothing DEF Begin, Accept, TypeInv
<1>. QED
  BY <1>1, <1>2, <1>3, AsksTypes DEF TypeInv

\* The send of a message, where it saves.
LEMMA TypesMark ==
    ASSUME TypeInv, NEW m \in Ours,
           \/ \E ok \in SUBSET send[m].to : Answer(m, ok)
           \/ MarkSent(m) \/ End(m) \/ RetryMessageSend(m)
    PROVE  TypeInv' /\ Asks
<1>1. ReceiptTypes' /\ HandleTypes'
  BY DEF TypeInv, ReceiptTypes, HandleTypes, Answer, MarkSent, End,
         RetryMessageSend, receipting, ghosts
<1>2. m \in Messages /\ <<"send", m>> \in Askers
  BY DEF Ours, Askers
<1>3. sent \in [Messages -> States] /\ sent[m] \in States /\ StateTypes
  BY <1>2 DEF TypeInv, StateTypes
<1>4. send[m] \in Sends
  BY DEF TypeInv, SendTypes
<1>5. /\ Failed \in Statuses /\ Pending \in Statuses /\ Sent \in Statuses
  BY StatusFacts
<1>6. CASE \E ok \in SUBSET send[m].to : Answer(m, ok)
  <2>1. PICK ok \in SUBSET send[m].to : Answer(m, ok)
    BY <1>6
  <2>2. ok \in SUBSET Recipients
    BY <1>4 DEF Sends
  <2>3. SendTypes'
    BY <2>1, <2>2 DEF Answer, TypeInv, SendTypes, Sends
  <2>4. /\ sent' = [sent EXCEPT ![m] = sent[m]] /\ stored' = stored
        /\ writes' = writes \o Save(m, sent[m], <<"send", m>>)
    BY <1>3, <2>1 DEF Answer, SaveNow
  <2>5. Asks
    BY <1>2, <1>3, <2>4, RisesFacts, AsksSave
  <2>. QED
    BY <1>1, <2>3, <2>5, AsksTypes DEF TypeInv
<1>7. CASE MarkSent(m)
  <2>1. SendTypes'
    BY <1>7 DEF MarkSent, TypeInv, SendTypes, Sends
  <2> DEFINE state == Marked(m, sent[m])
  <2>2. \A r \in Recipients :
           state[r] \in Statuses /\ (sent[m][r] >= Sent => state[r] >= sent[m][r])
    <3>1. ASSUME NEW r \in Recipients
          PROVE  /\ state[r] \in Statuses
                 /\ sent[m][r] >= Sent => state[r] >= sent[m][r]
      <4>1. sent[m][r] \in Statuses
        BY <1>3 DEF States
      <4>2. state[r] \in {SendStateReducer(sent[m][r], Sent),
                          SendStateReducer(sent[m][r], Failed), sent[m][r]}
        BY DEF Marked
      <4>3. CASE state[r] = sent[m][r]
        BY <4>1, <4>3, StatusFacts
      <4>4. CASE state[r] = SendStateReducer(sent[m][r], Sent)
        BY <1>5, <4>1, <4>4, ReducerFacts
      <4>5. CASE state[r] = SendStateReducer(sent[m][r], Failed)
        BY <1>5, <4>1, <4>5, ReducerFacts
      <4>. QED
        BY <4>2, <4>3, <4>4, <4>5
    <3>. QED
      BY <3>1
  <2>3. state \in States /\ Rises(sent[m], state)
    <3>1. state = [r \in Recipients |-> state[r]]
      BY DEF Marked
    <3>. HIDE DEF state
    <3>. QED
      BY <2>2, <3>1 DEF States, Rises
  <2>4. /\ sent' = [sent EXCEPT ![m] = state] /\ stored' = stored
        /\ writes' = writes \o Save(m, state, <<"send", m>>)
    BY <1>2, <1>3, <1>7 DEF MarkSent, SaveNow
  <2>5. Asks
    <3>. HIDE DEF state
    <3>. QED
      BY <1>2, <1>3, <2>3, <2>4, AsksSave
  <2>. QED
    BY <1>1, <2>1, <2>5, AsksTypes DEF TypeInv
<1>8. CASE End(m)
  <2>1. SendTypes'
    <3>1. CASE send' = [send EXCEPT ![m] = [NoSend EXCEPT !.step = "sent"]]
      BY <1>8, <3>1, MessageReceiptsAssumption
         DEF End, NoSend, TypeInv, SendTypes, Sends
    <3>2. CASE /\ ~Final(m)
               /\ send' = [send EXCEPT ![m] = [NoSend EXCEPT !.attempt =
                                                      send[m].attempt]]
      BY <1>4, <1>8, <3>2, MessageReceiptsAssumption
         DEF End, Final, NoSend, TypeInv, SendTypes, Sends
    <3>3. CASE send' = [send EXCEPT ![m] = [NoSend EXCEPT !.step = "failed"]]
      BY <1>8, <3>3, MessageReceiptsAssumption
         DEF End, NoSend, TypeInv, SendTypes, Sends
    <3>. QED
      BY <1>8, <3>1, <3>2, <3>3 DEF End
  <2>2. CASE UNCHANGED <<sent, writes>>
    <3>1. Asks
      BY <1>3, <1>8, <2>2, AsksNothing DEF End
    <3>. QED
      BY <1>1, <2>1, <3>1, AsksTypes DEF TypeInv
  <2> DEFINE state == [r \in Recipients |-> SendStateReducer(sent[m][r], Failed)]
  <2>3. CASE sent' = [sent EXCEPT ![m] = state] /\ SaveNow(m, sent'[m])
    <3>1. state \in States /\ Rises(sent[m], state)
      BY <1>3, <1>5, ReducerFacts DEF States, Rises
    <3>2. stored' = stored /\ writes' = writes \o Save(m, state, <<"send", m>>)
      BY <1>2, <1>3, <1>8, <2>3 DEF End, SaveNow
    <3>3. Asks
      <4>1. sent' = [sent EXCEPT ![m] = state]
        BY <2>3
      <4>. HIDE DEF state
      <4>. QED
        BY <1>2, <1>3, <3>1, <3>2, <4>1, AsksSave
    <3>. QED
      BY <1>1, <2>1, <3>3, AsksTypes DEF TypeInv
  <2>. QED
    BY <1>8, <2>2, <2>3 DEF End
<1>9. CASE RetryMessageSend(m)
  <2>1. SendTypes'
    BY <1>9, MessageReceiptsAssumption
       DEF RetryMessageSend, NoSend, TypeInv, SendTypes, Sends
  <2> DEFINE state == [r \in Recipients |->
                         IF sent[m][r] >= Sent THEN sent[m][r]
                         ELSE SendStateReducer(sent[m][r], Pending)]
  <2>2. state \in States /\ Rises(sent[m], state)
    BY <1>3, <1>5, ReducerFacts, StatusFacts DEF States, Rises
  <2>3. /\ sent' = [sent EXCEPT ![m] = state] /\ stored' = stored
        /\ writes' = writes \o Save(m, state, <<"send", m>>)
    BY <1>2, <1>3, <1>9 DEF RetryMessageSend, SaveNow
  <2>4. Asks
    <3>. HIDE DEF state
    <3>. QED
      BY <1>2, <1>3, <2>2, <2>3, AsksSave
  <2>. QED
    BY <1>1, <2>1, <2>4, AsksTypes DEF TypeInv
<1>. QED
  BY <1>6, <1>7, <1>8, <1>9

\* The database serves a write.
LEMMA TypesServe ==
    ASSUME TypeInv, Serve
    PROVE  TypeInv'
<1>1. SendTypes' /\ HandleTypes'
  BY DEF TypeInv, SendTypes, HandleTypes, Serve, sending
<1>2. StateTypes'
  BY ServeFacts DEF Serve, TypeInv, StateTypes
<1>3. ReceiptTypes'
  BY ServeFacts DEF Serve, Writes, TypeInv, ReceiptTypes, receipting, ghosts
<1>. QED
  BY <1>1, <1>2, <1>3 DEF TypeInv

\* The next process begins with what is stored.
LEMMA TypesRestart ==
    ASSUME TypeInv, Restart
    PROVE  TypeInv'
<1>1. StateTypes'
  <2>1. \A m \in Messages : m \in DOMAIN stored => stored[m] \in States
    BY RowSetsFacts DEF TypeInv, StateTypes
  <2>2. All(Sent) \in States
    BY StatusFacts DEF All, States
  <2>3. sent' \in [Messages -> States]
    BY <2>1, <2>2 DEF Restart
  <2>. QED
    BY <2>3 DEF Restart, TypeInv, StateTypes
<1>2. ReceiptTypes'
  BY DEF Restart, TypeInv, ReceiptTypes, NoBatch, Batches
<1>3. SendTypes'
  <2>1. \A m \in Ours : send'[m] = NoSend
                        \/ \E step \in {"sent", "failed"} :
                              send'[m] = [NoSend EXCEPT !.step = step]
    BY DEF Restart
  <2>2. \A m \in Ours :
           /\ send'[m] \in Sends
           /\ send'[m].step = "queued" => send'[m].attempt < MaxAttempts
    BY <2>1, MessageReceiptsAssumption DEF NoSend, Sends
  <2>3. send' \in [Ours -> Sends]
    BY <2>2 DEF Restart
  <2>4. accepted' = accepted /\ events' = events + 1 /\ events < MaxEvents
    BY DEF Restart
  <2>. QED
    BY <2>2, <2>3, <2>4, MessageReceiptsAssumption DEF TypeInv, SendTypes
<1>4. HandleTypes'
  BY DEF Restart, TypeInv, HandleTypes
<1>. QED
  BY <1>1, <1>2, <1>3, <1>4 DEF TypeInv

\* Every step but those of the database and of the processes asks for saves of
\* what is in memory, if anything.
LEMMA StepAsks ==
    ASSUME TypeInv, Next, ~Serve, ~Restart
    PROVE  TypeInv' /\ Asks
<1>1. CASE \E x \in Receipts : Receive(x) \/ OnReceipt(x)
  BY <1>1, TypesReceive
<1>2. CASE Kick \/ \E m \in Messages : Find(m)
  BY <1>2, TypesFind
<1>3. CASE \E m \in Messages : Apply(m) \/ RemoveNext(m)
  BY <1>3, TypesApply
<1>4. CASE \E m \in Synced : FirstRun(m) \/ SecondRun(m)
  BY <1>4, TypesForMessage
<1>5. CASE \E m \in Synced : Modify(m)
  BY <1>5, TypesModify
<1>6. CASE \E m \in Ours : Begin(m) \/ \E r \in Recipients : Accept(m, r)
  BY <1>6, TypesBegin
<1>7. CASE \E m \in Ours : \/ \E ok \in SUBSET send[m].to : Answer(m, ok)
                           \/ MarkSent(m) \/ End(m) \/ RetryMessageSend(m)
  BY <1>7, TypesMark
<1>. QED
  BY <1>1, <1>2, <1>3, <1>4, <1>5, <1>6, <1>7 DEF Next, Steps, SendSteps

\* Every step keeps the types.
LEMMA TypesStep == TypeInv /\ [Next]_vars => TypeInv'
<1>1. CASE TypeInv /\ UNCHANGED vars
  BY <1>1 DEF vars, receipting, sending, ghosts, TypeInv, StateTypes,
              ReceiptTypes, SendTypes, HandleTypes
<1>. QED
  BY <1>1, StepAsks, TypesServe, TypesRestart

\* The strengthened types imply those of the model.
LEMMA TypesHold == TypeInv => TypeOK
<1>. QED
  BY RowSetsFacts DEF TypeInv, StateTypes, ReceiptTypes, SendTypes, HandleTypes,
     Batches, Sends, TypeOK

\* Every variable keeps its type.
THEOREM TypeCorrect == Spec => []TypeOK
<1>. QED
  BY TypesInitially, TypesStep, TypesHold, PTL DEF Spec

-----------------------------------------------------------------------------
\* No row falls back.

\* A write is not behind an earlier one of the same row.
Newer == {p \in Writes \X Writes :
             \A m \in DOMAIN p[1].rows \cap DOMAIN p[2].rows :
                Rises(p[1].rows[m], p[2].rows[m])}

\* From the row over the writes to the memory, no state is behind another.
OrderInv ==
    /\ \A m \in DOMAIN stored : Rises(stored[m], sent[m])
    /\ \A w \in ToSet(writes) : \A m \in DOMAIN w.rows :
          /\ Rises(w.rows[m], sent[m])
          /\ m \in DOMAIN stored => Rises(stored[m], w.rows[m])
    /\ Pairwise(writes, Newer)

\* The states of a write are states of messages.
LEMMA WriteRows ==
    ASSUME NEW w \in Writes
    PROVE  \A m \in DOMAIN w.rows : m \in Messages /\ w.rows[m] \in States
<1>. QED
  BY RowSetsFacts DEF Writes

\* So are those of the queue.
LEMMA QueuedWrites ==
    ASSUME TypeInv
    PROVE  ToSet(writes) \subseteq Writes
<1>. QED
  BY DEF TypeInv, StateTypes, ToSet

\* At first the rows are as in memory.
LEMMA OrderInitially == Init => OrderInv
<1>1. SUFFICES ASSUME Init PROVE OrderInv
  OBVIOUS
<1>2. TypeInv
  BY <1>1, TypesInitially
<1>3. writes = <<>> /\ DOMAIN stored = Ours /\ \A m \in Ours : stored[m] = sent[m]
  BY <1>1 DEF Init, InitProcess
<1>4. \A m \in Ours : Rises(stored[m], sent[m])
  BY <1>2, <1>3, RisesFacts DEF TypeInv, StateTypes, Ours
<1>5. ToSet(writes) = {} /\ Pairwise(writes, Newer)
  BY <1>3, EmptyFacts, PairwiseEmpty
<1>. QED
  BY <1>3, <1>4, <1>5 DEF OrderInv

\* New saves are of the memory, which only rises.
LEMMA OrderAsks ==
    ASSUME TypeInv, OrderInv, Asks
    PROVE  OrderInv'
<1>1. PICK t \in Seq(Writes) : Adds(t)
  BY DEF Asks
<1>2. /\ stored' = stored /\ writes' = writes \o t /\ writes \in Seq(Writes)
      /\ ToSet(writes') = ToSet(writes) \cup ToSet(t)
  BY <1>1, ConcatFacts DEF Adds, TypeInv, StateTypes
<1>3. ToSet(t) \subseteq Writes
  BY DEF ToSet
<1>4. \A m \in Messages : /\ sent[m] \in States /\ sent'[m] \in States
                          /\ Rises(sent[m], sent'[m])
  BY <1>1 DEF Adds, TypeInv, StateTypes
<1>5. \A m \in DOMAIN stored : m \in Messages /\ stored[m] \in States
  BY RowSetsFacts DEF TypeInv, StateTypes
<1>6. \A m \in DOMAIN stored : Rises(stored[m], sent'[m])
  BY <1>4, <1>5, RisesFacts DEF OrderInv
<1>7. \A w \in ToSet(writes) : \A m \in DOMAIN w.rows :
         m \in Messages /\ w.rows[m] \in States /\ Rises(w.rows[m], sent'[m])
  BY <1>4, QueuedWrites, WriteRows, RisesFacts DEF OrderInv
<1>8. \A w \in ToSet(t) : \A m \in DOMAIN w.rows :
         m \in Messages /\ w.rows[m] = sent'[m] /\ Rises(w.rows[m], sent'[m])
  BY <1>1, <1>3, <1>4, WriteRows, RisesFacts DEF Adds
<1>9. Cross(ToSet(writes), ToSet(t), Newer)
  BY <1>3, <1>7, <1>8, QueuedWrites DEF Cross, Newer
<1>10. Pairwise(t, Newer)
  <2>1. \A i \in DOMAIN t : t[i] \in ToSet(t)
    BY DEF ToSet
  <2>2. \A v, w \in ToSet(t) : <<v, w>> \in Newer
    BY <1>3, <1>8 DEF Newer
  <2>. QED
    BY <2>1, <2>2 DEF Pairwise
<1>11. Pairwise(writes', Newer)
  BY <1>2, <1>9, <1>10, PairwiseConcat DEF OrderInv
<1>. QED
  BY <1>2, <1>6, <1>7, <1>8, <1>11 DEF OrderInv

\* A served write is not behind the row, and not ahead of the others.
LEMMA OrderServe ==
    ASSUME TypeInv, OrderInv, Serve
    PROVE  OrderInv' /\ \A m \in DOMAIN stored :
                           m \in DOMAIN stored' /\ Rises(stored[m], stored'[m])
<1> DEFINE h == Head(writes)
<1>1. /\ h \in Writes /\ writes' = Tail(writes) /\ sent' = sent
      /\ ToSet(writes) = {h} \cup ToSet(writes')
      /\ DOMAIN stored' = DOMAIN stored \cup DOMAIN h.rows
      /\ \A m \in DOMAIN stored' :
            stored'[m] = IF m \in DOMAIN h.rows THEN h.rows[m] ELSE stored[m]
  BY ServeFacts DEF Serve
<1>2. Pairwise(writes', Newer) /\ Cross({h}, ToSet(writes'), Newer)
  BY <1>1, PairwiseTail DEF OrderInv, TypeInv, StateTypes, Serve
<1>3. \A m \in DOMAIN stored : m \in Messages /\ stored[m] \in States
  BY RowSetsFacts DEF TypeInv, StateTypes
<1>. HIDE DEF h
<1>4. \A m \in DOMAIN stored : Rises(stored[m], stored'[m])
  BY <1>1, <1>3, RisesFacts DEF OrderInv
<1>5. \A m \in DOMAIN stored' : Rises(stored'[m], sent[m])
  BY <1>1 DEF OrderInv
<1>6. \A w \in ToSet(writes') : \A m \in DOMAIN w.rows :
         m \in DOMAIN stored' => Rises(stored'[m], w.rows[m])
  BY <1>1, <1>2 DEF OrderInv, Cross, Newer
<1>. QED
  BY <1>1, <1>2, <1>4, <1>5, <1>6 DEF OrderInv

\* The next process has the stored states in memory, and no writes.
LEMMA OrderRestart ==
    ASSUME TypeInv, OrderInv, Restart
    PROVE  OrderInv' /\ stored' = stored
<1>1. writes' = <<>> /\ stored' = stored /\ \A m \in Messages :
         m \in DOMAIN stored => sent'[m] = stored[m]
  BY DEF Restart
<1>2. \A m \in DOMAIN stored : m \in Messages /\ stored[m] \in States
  BY RowSetsFacts DEF TypeInv, StateTypes
<1>3. ToSet(writes') = {} /\ Pairwise(writes', Newer)
  BY <1>1, EmptyFacts, PairwiseEmpty
<1>. QED
  BY <1>1, <1>2, <1>3, RisesFacts DEF OrderInv

\* Of each step: the order is kept, and no row falls back.
LEMMA OrderStep ==
    ASSUME TypeInv, OrderInv, [Next]_vars
    PROVE  OrderInv' /\ \A m \in DOMAIN stored :
                           m \in DOMAIN stored' /\ Rises(stored[m], stored'[m])
<1>1. \A m \in DOMAIN stored : Rises(stored[m], stored[m])
  BY RowSetsFacts, RisesFacts DEF TypeInv, StateTypes
<1>2. CASE UNCHANGED vars
  BY <1>1, <1>2 DEF vars, OrderInv
<1>3. CASE Serve
  BY <1>3, OrderServe
<1>4. CASE Restart
  BY <1>1, <1>4, OrderRestart
<1>5. CASE Next /\ ~Serve /\ ~Restart
  <2>1. Asks /\ stored' = stored
    BY <1>5, StepAsks DEF Asks, Adds
  <2>. QED
    BY <1>1, <2>1, OrderAsks
<1>. QED
  BY <1>2, <1>3, <1>4, <1>5

\* The types and the order of the writes hold at every step.
THEOREM WriteInvariance == Spec => [](TypeInv /\ OrderInv)
<1>1. Init => TypeInv /\ OrderInv
  BY TypesInitially, OrderInitially
<1>2. TypeInv /\ OrderInv /\ [Next]_vars => (TypeInv /\ OrderInv)'
  BY TypesStep, OrderStep
<1>. QED
  BY <1>1, <1>2, PTL DEF Spec

\* The row of a message that was sent to somebody never falls back, whoever
\* saves it: sends, retries, batches of receipts and handlers of transcripts.
THEOREM NoRowFallsBack == Spec => NeverBackwards
<1>1. TypeInv /\ OrderInv /\ [Next]_vars =>
        [\A m \in DOMAIN stored, r \in Recipients :
            stored[m][r] >= Sent => stored'[m][r] >= stored[m][r]]_vars
  BY OrderStep DEF Rises
<1>. QED
  BY WriteInvariance, <1>1, PTL DEF NeverBackwards, Spec

-----------------------------------------------------------------------------
\* No confirmed receipt is lost.

\* The receipt x does not need its task, or has it.
Spare(x) == Covered(x) \/ x \in early \cup lost
Safe(x) == x \in tasks \/ Spare(x)

\* Among the writes W is the task of x; a save for its batch that shows it.
Storing(x, W) == \E w \in W : w.by = <<"store", x>> /\ x \in w.added
Saving(m, x, W) ==
    \E w \in W : /\ w.by = <<"batch", m>> /\ m \in DOMAIN w.rows
                 /\ w.rows[m][x.from] >= x.status

\* Only tasks that are not needed are removed.
RemovalsSpare == \A w \in ToSet(writes) : \A x \in w.removed : Spare(x)

\* A receipt that was stored is safe, or its task is still to be written.
ReceivedSafe ==
    \A x \in Receipts :
       /\ receiving[x] = "confirmed" => Safe(x)
       /\ receiving[x] = "storing" => Safe(x) \/ Storing(x, ToSet(writes))

\* What a batch has applied is in the row, or will be before it removes a task.
BatchSaves ==
    \A m \in Messages : \A x \in batch[m].receipts :
       /\ x.of = m
       /\ batch[m].step = "applied" => Covered(x) \/ Saving(m, x, ToSet(writes))

DurableInv == RemovalsSpare /\ ReceivedSafe /\ BatchSaves

\* At first no receipt has come.
LEMMA DurableInitially == Init => DurableInv
<1>1. SUFFICES ASSUME Init PROVE DurableInv
  OBVIOUS
<1>2. ToSet(writes) = {}
  BY <1>1, EmptyFacts DEF Init, InitProcess
<1>3. \A m \in Messages : batch[m].receipts = {}
  BY <1>1 DEF Init, InitProcess, NoBatch
<1>4. \A x \in Receipts : receiving[x] = "none"
  BY <1>1 DEF Init
<1>. QED
  BY <1>2, <1>3, <1>4 DEF DurableInv, RemovalsSpare, ReceivedSafe, BatchSaves

\* What a row shows it goes on to show.
LEMMA CoveredStays ==
    ASSUME TypeInv, OrderInv, [Next]_vars, NEW x \in Receipts, Covered(x)
    PROVE  Covered(x)'
<1>1. /\ x.from \in Recipients /\ x.status \in Statuses /\ x.status >= Sent
  BY MessageReceiptsAssumption, StatusFacts
<1>2. TypeInv' /\ x.of \in DOMAIN stored' /\ Rises(stored[x.of], stored'[x.of])
  BY TypesStep, OrderStep DEF Covered
<1>3. stored[x.of][x.from] \in Statuses /\ stored'[x.of][x.from] \in Statuses
  BY <1>1, <1>2, RowSetsFacts DEF TypeInv, StateTypes, States, Covered
<1>. QED
  BY <1>1, <1>2, <1>3, StatusFacts DEF Covered, Rises

\* A step that serves no write keeps the receipts, if it asks to remove only
\* spare tasks, confirms only what is safe, and a batch that has applied its
\* receipts has asked for the save.
LEMMA DurableGrows ==
    ASSUME DurableInv, UNCHANGED <<stored, tasks>>,
           early \cup lost \subseteq early' \cup lost',
           ToSet(writes) \subseteq ToSet(writes'),
           \A w \in ToSet(writes') \ ToSet(writes) : \A x \in w.removed : Spare(x)',
           \A x \in Receipts :
              \/ receiving'[x] = receiving[x] \/ Safe(x)
              \/ receiving'[x] = "storing" /\ Storing(x, ToSet(writes')),
           \A m \in Messages : \A x \in batch'[m].receipts :
              /\ x.of = m
              /\ batch'[m].step = "applied" =>
                    \/ batch[m].step = "applied" /\ x \in batch[m].receipts
                    \/ Saving(m, x, ToSet(writes'))
    PROVE  DurableInv'
<1>1. \A x : /\ Covered(x)' <=> Covered(x)
             /\ Spare(x) => Spare(x)'
             /\ Safe(x) => Safe(x)'
  BY DEF Covered, Spare, Safe
<1>2. RemovalsSpare'
  BY <1>1 DEF DurableInv, RemovalsSpare
<1>3. ReceivedSafe'
  BY <1>1 DEF DurableInv, ReceivedSafe, Storing
<1>4. BatchSaves'
  BY <1>1 DEF DurableInv, BatchSaves, Saving
<1>. QED
  BY <1>2, <1>3, <1>4 DEF DurableInv

\* So does one that asks for nothing, or only for a save, and leaves receipts
\* and batches alone.
LEMMA DurableSave ==
    ASSUME TypeInv, DurableInv, UNCHANGED <<stored, tasks, receiving>>,
           early \cup lost \subseteq early' \cup lost',
           \/ writes' = writes
           \/ \E m \in Messages, state \in States, by \in Askers :
                 writes' = writes \o Save(m, state, by),
           \A m \in Messages : \A x \in batch'[m].receipts :
              /\ x.of = m
              /\ batch'[m].step = "applied" =>
                    batch[m].step = "applied" /\ x \in batch[m].receipts
    PROVE  DurableInv'
<1>1. CASE writes' = writes
  BY <1>1, DurableGrows
<1>2. ASSUME NEW m \in Messages, NEW state \in States, NEW by \in Askers,
             writes' = writes \o Save(m, state, by)
      PROVE  DurableInv'
  <2>1. /\ Save(m, state, by) \in Seq(Writes)
        /\ \E w \in Writes :
              ToSet(Save(m, state, by)) = {w} /\ Saves(w, m, state, by)
    BY SaveFacts
  <2>2. PICK w \in Writes : ToSet(Save(m, state, by)) = {w} /\ w.removed = {}
    BY <2>1 DEF Saves
  <2>3. ToSet(writes') = ToSet(writes) \cup {w}
    BY <1>2, <2>1, <2>2, ConcatFacts DEF TypeInv, StateTypes
  <2>. QED
    BY <2>2, <2>3, DurableGrows
<1>. QED
  BY <1>1, <1>2

\* A receipt is confirmed when its task is written.
LEMMA DurableReceive ==
    ASSUME TypeInv, DurableInv, NEW x \in Receipts, Receive(x) \/ OnReceipt(x)
    PROVE  DurableInv'
<1>1. /\ UNCHANGED <<stored, tasks, early, lost, batch>>
      /\ \A m \in Messages : \A y \in batch[m].receipts : y.of = m
  BY DEF Receive, OnReceipt, ghosts, DurableInv, BatchSaves
<1>2. CASE Receive(x)
  <2>1. PICK w \in Writes :
           /\ ToSet(Store(x)) = {w} /\ DOMAIN w.rows = {}
           /\ w.added = {x} /\ w.removed = {} /\ w.by = <<"store", x>>
    BY StoreFacts
  <2>2. ToSet(writes') = ToSet(writes) \cup {w}
    BY <1>2, <2>1, StoreFacts, ConcatFacts DEF Receive, TypeInv, StateTypes
  <2>3. Storing(x, ToSet(writes'))
    BY <2>1, <2>2 DEF Storing
  <2>4. \A y \in Receipts :
           receiving'[y] = IF y = x THEN "storing" ELSE receiving[y]
    BY <1>2 DEF Receive, TypeInv, ReceiptTypes
  <2>. QED
    BY <1>1, <2>1, <2>2, <2>3, <2>4, DurableGrows
<1>3. CASE OnReceipt(x)
  <2>1. ~Storing(x, ToSet(writes)) /\ receiving[x] = "storing"
    BY <1>3, WritingFacts DEF OnReceipt, Storing
  <2>2. Safe(x)
    BY <2>1 DEF DurableInv, ReceivedSafe
  <2>3. \A y \in Receipts : y = x \/ receiving'[y] = receiving[y]
    BY <1>3 DEF OnReceipt, TypeInv, ReceiptTypes
  <2>4. writes' = writes
    BY <1>3 DEF OnReceipt
  <2>. QED
    BY <1>1, <2>2, <2>3, <2>4, DurableGrows
<1>. QED
  BY <1>2, <1>3

\* A batch has the receipts of its messages.
LEMMA DurableFind ==
    ASSUME TypeInv, DurableInv, Kick \/ \E m \in Messages : Find(m)
    PROVE  DurableInv'
<1>1. UNCHANGED <<stored, tasks, receiving, writes, early, lost>>
  BY DEF Kick, Find, ghosts
<1>2. ASSUME NEW m \in Messages, NEW x \in batch'[m].receipts
      PROVE  /\ x.of = m
             /\ batch'[m].step = "applied" =>
                   batch[m].step = "applied" /\ x \in batch[m].receipts
  <2>1. CASE Kick
    <3>1. batch'[m] = IF {y \in items : y.of = m} = {} THEN NoBatch
                      ELSE [step |-> "finding",
                            receipts |-> {y \in items : y.of = m}]
      BY <2>1 DEF Kick
    <3>2. CASE {y \in items : y.of = m} = {}
      BY <1>2, <3>1, <3>2 DEF NoBatch
    <3>3. CASE {y \in items : y.of = m} # {}
      BY <1>2, <3>1, <3>3
    <3>. QED
      BY <3>2, <3>3
  <2>2. CASE \E n \in Messages : Find(n)
    <3>1. PICK n \in Messages : Find(n)
      BY <2>2
    <3>2. CASE n # m
      <4>1. batch'[m] = batch[m]
        BY <3>1, <3>2 DEF Find, To, TypeInv, ReceiptTypes
      <4>. QED
        BY <1>2, <4>1 DEF DurableInv, BatchSaves
    <3>3. CASE n = m
      <4> DEFINE found == {y \in batch[m].receipts :
                             /\ m \in DOMAIN stored
                             /\ stored[m][y.from] \notin Undelivered}
      <4>1. batch'[m] = IF found = {} THEN NoBatch
                        ELSE [step |-> "found", receipts |-> found]
        BY <3>1, <3>3 DEF Find, To, TypeInv, ReceiptTypes
      <4>2. found \subseteq batch[m].receipts
        OBVIOUS
      <4>. HIDE DEF found
      <4>3. CASE found = {}
        BY <1>2, <4>1, <4>3 DEF NoBatch
      <4>4. CASE found # {}
        BY <1>2, <4>1, <4>2, <4>4 DEF DurableInv, BatchSaves
      <4>. QED
        BY <4>3, <4>4
    <3>. QED
      BY <3>2, <3>3
  <2>. QED
    BY <2>1, <2>2
<1>. QED
  BY <1>1, <1>2, DurableSave

\* A batch that applies its receipts asks for the save that shows them.
LEMMA DurableApply ==
    ASSUME TypeInv, DurableInv, NEW m \in Messages, Apply(m)
    PROVE  DurableInv'
<1> DEFINE valid == batch[m].receipts \cap cached
           state == WithReceipts(sent[m], valid)
<1>1. /\ UNCHANGED <<stored, tasks, receiving, early, lost>>
      /\ writes' = writes \o Save(m, state, <<"batch", m>>)
      /\ batch' = [batch EXCEPT ![m] = [step |-> "applied", receipts |-> valid]]
  BY DEF Apply, ghosts
<1>2. valid \in SUBSET Receipts /\ sent[m] \in States /\ <<"batch", m>> \in Askers
  BY DEF TypeInv, ReceiptTypes, Batches, StateTypes, Askers
<1>3. /\ \A x \in valid : x.of = m
      /\ \A n \in Messages : \A x \in batch[n].receipts : x.of = n
  BY DEF DurableInv, BatchSaves
<1>. HIDE DEF valid
<1>4. state \in States /\ \A x \in valid : state[x.from] >= x.status
  BY <1>2, ReceiptsRaise
<1>. HIDE DEF state
<1>5. /\ Save(m, state, <<"batch", m>>) \in Seq(Writes)
      /\ \E w \in Writes : /\ ToSet(Save(m, state, <<"batch", m>>)) = {w}
                           /\ Saves(w, m, state, <<"batch", m>>)
  BY <1>2, <1>4, SaveFacts
<1>6. PICK w \in Writes : /\ ToSet(Save(m, state, <<"batch", m>>)) = {w}
                          /\ Saves(w, m, state, <<"batch", m>>)
  BY <1>5
<1>7. ToSet(writes') = ToSet(writes) \cup {w}
  <2>1. writes \in Seq(Writes)
    BY DEF TypeInv, StateTypes
  <2>2. PICK t \in Seq(Writes) : writes' = writes \o t /\ ToSet(t) = {w}
    BY <1>1, <1>5, <1>6
  <2>. QED
    BY <2>1, <2>2, ConcatFacts
<1>8. \A x \in valid : Saving(m, x, ToSet(writes'))
  BY <1>4, <1>6, <1>7 DEF Saves, Saving
<1>9. \A n \in Messages :
         batch'[n] = IF n = m THEN [step |-> "applied", receipts |-> valid]
                     ELSE batch[n]
  BY <1>1 DEF TypeInv, ReceiptTypes
<1>10. \A n \in Messages : \A x \in batch'[n].receipts :
          /\ x.of = n
          /\ batch'[n].step = "applied" =>
                \/ batch[n].step = "applied" /\ x \in batch[n].receipts
                \/ Saving(n, x, ToSet(writes'))
  BY <1>3, <1>8, <1>9
<1>11. \A v \in ToSet(writes') \ ToSet(writes) : v.removed = {}
  BY <1>6, <1>7 DEF Saves
<1>. QED
  BY <1>1, <1>7, <1>10, <1>11, DurableGrows

\* A batch removes a task when its save has been served.
LEMMA DurableRemove ==
    ASSUME TypeInv, DurableInv, NEW m \in Messages, RemoveNext(m)
    PROVE  DurableInv'
<1>1. UNCHANGED <<stored, tasks, receiving, early, lost>>
  BY DEF RemoveNext, ghosts
<1>2. ~\E w \in ToSet(writes) : w.by = <<"batch", m>>
  BY WritingFacts DEF RemoveNext
<1>3. \A x \in batch[m].receipts : Covered(x)
  BY <1>2 DEF DurableInv, BatchSaves, RemoveNext, Saving
<1>4. \A n \in Messages : \A x \in batch'[n].receipts :
         /\ x.of = n
         /\ batch'[n].step = "applied" =>
               batch[n].step = "applied" /\ x \in batch[n].receipts
  <2>1. \A n \in Messages : \A x \in batch[n].receipts : x.of = n
    BY DEF DurableInv, BatchSaves
  <2>2. \A n \in Messages \ {m} : batch'[n] = batch[n]
    BY DEF RemoveNext, TypeInv, ReceiptTypes
  <2>3. batch'[m].receipts \subseteq batch[m].receipts /\ batch[m].step = "applied"
    <3>1. CASE batch[m].receipts = {}
      BY <3>1 DEF RemoveNext, NoBatch, TypeInv, ReceiptTypes
    <3>2. CASE batch[m].receipts # {}
      <4>1. PICK x \in batch[m].receipts :
               batch' = [batch EXCEPT ![m].receipts = @ \ {x}]
        BY <3>2 DEF RemoveNext
      <4>2. batch[m].step = "applied"
        BY DEF RemoveNext
      <4>. QED
        BY <4>1, <4>2 DEF TypeInv, ReceiptTypes, Batches
    <3>. QED
      BY <3>1, <3>2 DEF RemoveNext
  <2>. QED
    BY <2>1, <2>2, <2>3
<1>5. CASE batch[m].receipts = {}
  <2>1. writes' = writes
    BY <1>5 DEF RemoveNext
  <2>. QED
    BY <1>1, <1>4, <2>1, DurableSave
<1>6. CASE batch[m].receipts # {}
  <2>1. PICK x \in batch[m].receipts :
           writes' = writes \o RemoveTasks({x}, <<"batch", m>>)
    BY <1>6 DEF RemoveNext
  <2>2. {x} \in SUBSET Receipts /\ <<"batch", m>> \in Askers
    BY DEF TypeInv, ReceiptTypes, Batches, Askers
  <2>3. /\ RemoveTasks({x}, <<"batch", m>>) \in Seq(Writes)
        /\ \A w \in ToSet(RemoveTasks({x}, <<"batch", m>>)) : w.removed = {x}
    BY <2>2, TaskFacts
  <2>4. ToSet(writes') = ToSet(writes)
                            \cup ToSet(RemoveTasks({x}, <<"batch", m>>))
    BY <2>1, <2>3, ConcatFacts DEF TypeInv, StateTypes
  <2>5. Spare(x)'
    BY <1>1, <1>3 DEF Spare, Covered
  <2>. QED
    BY <1>1, <1>4, <2>3, <2>4, <2>5, DurableGrows
<1>. QED
  BY <1>5, <1>6

\* What a transcript takes is in "early" from then on.
LEMMA DurableForMessage ==
    ASSUME TypeInv, DurableInv, NEW m \in Synced, FirstRun(m) \/ SecondRun(m)
    PROVE  DurableInv'
<1> DEFINE taken == {x \in cached : x.of = m}
           t == RemoveTasks(taken, <<"handle", m>>)
<1>1. /\ UNCHANGED <<stored, tasks, receiving, lost, batch>>
      /\ early' = early \cup taken /\ writes' = writes \o t
  BY DEF FirstRun, SecondRun, ForMessage
<1>2. taken \in SUBSET Receipts /\ <<"handle", m>> \in Askers
  BY MessageReceiptsAssumption DEF Askers, TypeInv, ReceiptTypes
<1>. HIDE DEF taken
<1>3. t \in Seq(Writes) /\ \A w \in ToSet(t) : w.removed = taken
  BY <1>2, TaskFacts
<1>. HIDE DEF t
<1>4. ToSet(writes') = ToSet(writes) \cup ToSet(t)
  BY <1>1, <1>3, ConcatFacts DEF TypeInv, StateTypes
<1>5. \A x \in taken : Spare(x)'
  BY <1>1 DEF Spare
<1>6. \A n \in Messages : \A x \in batch[n].receipts : x.of = n
  BY DEF DurableInv, BatchSaves
<1>. QED
  BY <1>1, <1>3, <1>4, <1>5, <1>6, DurableGrows

\* The saves of transcripts.
LEMMA DurableModify ==
    ASSUME TypeInv, DurableInv, NEW m \in Synced, Modify(m)
    PROVE  DurableInv'
<1> DEFINE taken == {x \in early : x.of = m}
           state == WithReceipts(sent[m], taken)
<1>1. /\ UNCHANGED <<stored, tasks, receiving, early, lost, batch>>
      /\ \/ writes' = writes \o Save(m, state, <<"handle", m>>)
         \/ writes' = writes
  BY DEF Modify, receipting, ghosts
<1>2. m \in Messages /\ <<"handle", m>> \in Askers
  BY MessageReceiptsAssumption DEF Askers
<1>3. taken \in SUBSET Receipts /\ sent[m] \in States
  BY <1>2 DEF TypeInv, ReceiptTypes, StateTypes
<1>. HIDE DEF taken
<1>4. state \in States
  BY <1>3, ReceiptsRaise
<1>. HIDE DEF state
<1>5. \A n \in Messages : \A x \in batch[n].receipts : x.of = n
  BY DEF DurableInv, BatchSaves
<1>. QED
  BY <1>1, <1>2, <1>4, <1>5, DurableSave

\* The saves of sends.
LEMMA DurableSend ==
    ASSUME TypeInv, DurableInv, NEW m \in Ours, SendSteps(m)
    PROVE  DurableInv'
<1>1. m \in Messages /\ <<"send", m>> \in Askers
  BY DEF Ours, Askers
<1>2. sent[m] \in States /\ sent'[m] \in States
  <2>1. TypeInv'
    BY TypesBegin, TypesMark DEF SendSteps
  <2>. QED
    BY <1>1, <2>1 DEF TypeInv, StateTypes
<1>3. UNCHANGED <<stored, tasks, receiving, early, lost, batch>>
  BY DEF SendSteps, Begin, MarkSent, End, RetryMessageSend, Answer, Accept,
         receipting, ghosts
<1>4. \/ writes' = writes
      \/ writes' = writes \o Save(m, sent[m], <<"send", m>>)
      \/ writes' = writes \o Save(m, sent'[m], <<"send", m>>)
  BY DEF SendSteps, Begin, MarkSent, End, RetryMessageSend, Answer, Accept, SaveNow
<1>5. \A n \in Messages : \A x \in batch[n].receipts : x.of = n
  BY DEF DurableInv, BatchSaves
<1>6. \/ writes' = writes
      \/ \E n \in Messages, state \in States, by \in Askers :
            writes' = writes \o Save(n, state, by)
  BY <1>1, <1>2, <1>4
<1>. QED
  BY <1>3, <1>5, <1>6, DurableSave

\* A served write is in the tables: a task that it removes is spare.
LEMMA DurableServe ==
    ASSUME TypeInv, OrderInv, DurableInv, Serve
    PROVE  DurableInv'
<1> DEFINE h == Head(writes)
<1>1. /\ h \in Writes /\ ToSet(writes) = {h} \cup ToSet(writes')
      /\ DOMAIN stored' = DOMAIN stored \cup DOMAIN h.rows
      /\ \A m \in DOMAIN stored' :
            stored'[m] = IF m \in DOMAIN h.rows THEN h.rows[m] ELSE stored[m]
  BY ServeFacts
<1>2. /\ tasks' = (tasks \cup h.added) \ h.removed
      /\ UNCHANGED <<receiving, batch, early, lost>>
  BY DEF Serve, receipting, ghosts
<1>. HIDE DEF h
<1>3. \A x \in Receipts : Covered(x) => Covered(x)'
  BY CoveredStays DEF Next
<1>4. \A x \in Receipts : Spare(x) => Spare(x)'
  BY <1>2, <1>3 DEF Spare
<1>5. \A x \in Receipts : x \in h.removed => Spare(x)'
  BY <1>1, <1>4 DEF DurableInv, RemovalsSpare
<1>6. \A x \in Receipts : Safe(x) => Safe(x)'
  BY <1>2, <1>4, <1>5 DEF Safe
<1>7. RemovalsSpare'
  <2>1. \A w \in ToSet(writes') : \A x \in w.removed : x \in Receipts /\ Spare(x)
    BY <1>1, QueuedWrites DEF DurableInv, RemovalsSpare, Writes
  <2>. QED
    BY <1>4, <2>1 DEF RemovalsSpare
<1>8. ReceivedSafe'
  <2>1. ASSUME NEW x \in Receipts, Storing(x, ToSet(writes))
        PROVE  Safe(x)' \/ Storing(x, ToSet(writes'))
    <3>1. PICK w \in ToSet(writes) : w.by = <<"store", x>> /\ x \in w.added
      BY <2>1 DEF Storing
    <3>2. CASE w = h
      BY <1>2, <1>5, <3>1, <3>2 DEF Safe
    <3>3. CASE w # h
      BY <1>1, <3>1, <3>3 DEF Storing
    <3>. QED
      BY <3>2, <3>3
  <2>. QED
    BY <1>2, <1>6, <2>1 DEF DurableInv, ReceivedSafe
<1>9. BatchSaves'
  <2>1. ASSUME NEW m \in Messages, NEW x \in batch[m].receipts,
               batch[m].step = "applied"
        PROVE  Covered(x)' \/ Saving(m, x, ToSet(writes'))
    <3>1. x \in Receipts /\ x.of = m
      BY DEF TypeInv, ReceiptTypes, Batches, DurableInv, BatchSaves
    <3>2. CASE Covered(x)
      BY <1>3, <3>1, <3>2
    <3>3. CASE Saving(m, x, ToSet(writes))
      <4>1. PICK w \in ToSet(writes) :
               /\ w.by = <<"batch", m>> /\ m \in DOMAIN w.rows
               /\ w.rows[m][x.from] >= x.status
        BY <3>3 DEF Saving
      <4>2. CASE w = h
        BY <1>1, <3>1, <4>1, <4>2 DEF Covered
      <4>3. CASE w # h
        BY <1>1, <4>1, <4>3 DEF Saving
      <4>. QED
        BY <4>2, <4>3
    <3>. QED
      BY <2>1, <3>2, <3>3 DEF DurableInv, BatchSaves
  <2>. QED
    BY <1>2, <2>1 DEF DurableInv, BatchSaves
<1>. QED
  BY <1>7, <1>8, <1>9 DEF DurableInv

\* After a restart what was taken early has its task or its row, or is lost.
LEMMA DurableRestart ==
    ASSUME TypeInv, DurableInv, Restart
    PROVE  DurableInv'
<1>1. /\ ToSet(writes') = {} /\ UNCHANGED <<stored, tasks>>
      /\ lost' = lost \cup {x \in early \ tasks : ~Covered(x)}
      /\ \A m \in Messages : batch'[m].receipts = {}
      /\ \A x \in Receipts :
            receiving'[x] = IF receiving[x] = "confirmed" \/ x \in tasks
                            THEN "confirmed" ELSE "none"
  BY EmptyFacts DEF Restart, NoBatch
<1>2. \A x \in Receipts : Safe(x) => Safe(x)'
  BY <1>1 DEF Safe, Spare, Covered
<1>3. \A x \in Receipts : receiving'[x] = "confirmed" => Safe(x)
  BY <1>1 DEF DurableInv, ReceivedSafe, Safe
<1>4. \A x \in Receipts : receiving'[x] # "storing"
  BY <1>1
<1>. QED
  BY <1>1, <1>2, <1>3, <1>4
     DEF DurableInv, RemovalsSpare, ReceivedSafe, BatchSaves

\* Every step keeps what the receipts need.
LEMMA DurableStep ==
    ASSUME TypeInv, OrderInv, DurableInv, [Next]_vars
    PROVE  DurableInv'
<1>1. CASE UNCHANGED vars
  BY <1>1 DEF vars, receipting, ghosts, DurableInv, RemovalsSpare, ReceivedSafe,
              BatchSaves, Safe, Spare, Covered
<1>2. CASE Serve \/ Restart
  BY <1>2, DurableServe, DurableRestart
<1>3. CASE \E x \in Receipts : Receive(x) \/ OnReceipt(x)
  BY <1>3, DurableReceive
<1>4. CASE Kick \/ \E m \in Messages : Find(m)
  BY <1>4, DurableFind
<1>5. CASE \E m \in Messages : Apply(m) \/ RemoveNext(m)
  BY <1>5, DurableApply, DurableRemove
<1>6. CASE \E m \in Synced : FirstRun(m) \/ SecondRun(m) \/ Modify(m)
  BY <1>6, DurableForMessage, DurableModify
<1>7. CASE \E m \in Ours : SendSteps(m)
  BY <1>7, DurableSend
<1>. QED
  BY <1>1, <1>2, <1>3, <1>4, <1>5, <1>6, <1>7 DEF Next, Steps

\* The strengthening about receipts holds at every step.
THEOREM DurabilityInvariance == Spec => [](TypeInv /\ OrderInv /\ DurableInv)
<1>1. Init => TypeInv /\ OrderInv /\ DurableInv
  BY TypesInitially, OrderInitially, DurableInitially
<1>2. TypeInv /\ OrderInv /\ DurableInv /\ [Next]_vars
        => (TypeInv /\ OrderInv /\ DurableInv)'
  BY TypesStep, OrderStep, DurableStep
<1>. QED
  BY <1>1, <1>2, PTL DEF Spec

\* A receipt whose envelope was confirmed is a task, or in the row of its
\* message, or was taken by a transcript.
THEOREM ConfirmedStays == Spec => []ConfirmedIsDurable
<1>1. DurableInv => ConfirmedIsDurable
  BY DEF DurableInv, ReceivedSafe, Safe, Spare, ConfirmedIsDurable
<1>. QED
  BY DurabilityInvariance, <1>1, PTL
================================================================================
