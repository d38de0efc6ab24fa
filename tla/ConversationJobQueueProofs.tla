---------------------- MODULE ConversationJobQueueProofs ----------------------
(***************************************************************************)
(* The safety of ConversationJobQueue, for any conversations, jobs,        *)
(* challenges and bounds: what is put aside is tried again, and no job is  *)
(* queued twice or lost.                                                   *)
(***************************************************************************)
EXTENDS ConversationJobQueue, SequenceFacts, TLAPS

Times == {"none", "future", "past"}

\* The record of the handler, and the bound of its captchas.
HandlerType ==
    [registered : SUBSET Convs, retryAt : [Convs -> Times],
     tokens : SUBSET Convs, timer : [Convs -> {"none", "own", "limit"}],
     pending : SUBSET Convs, registering : SUBSET Challenges,
     starting : SUBSET Convs, online : BOOLEAN, limited : BOOLEAN,
     token : BOOLEAN, asked : Nat, sending : Nat, events : Nat,
     dropped : SUBSET Convs]

Bounded(h) ==
    /\ h \in HandlerType
    /\ h.asked + h.sending <= h.events /\ h.events <= MaxEvents

RunType == [step : Steps, attempt : 0..MaxAttempts, stale : BOOLEAN]

DataType == [status : Statuses, retryAt : Times, held : Seq(Jobs)]

\* A job in the first step of run() has made no attempt.
RunInv ==
    /\ run \in [Convs -> RunType]
    /\ \A c \in Convs : run[c].step = "queued" => run[c].attempt = 0

\* The variables but the handler and the runs.
QueueTypes ==
    /\ added \subseteq Jobs /\ ended \subseteq added /\ deferred \subseteq Jobs
    /\ lane \in [Convs -> Seq(Jobs)] /\ data \in [Convs -> DataType]
    /\ idle \subseteq Convs /\ waiter \subseteq Convs
    /\ timeouts \in [Convs -> SUBSET {"kept", "lost"}]
    /\ challenged \in 0..MaxChallenges

\* Jobs are held in one state only, and that state has a trigger.
HeldAreBlocked ==
    \A c \in Convs : data[c].held # <<>> => data[c].status = "blocked with jobs"

BlockedHaveATrigger ==
    \A c \in Convs : data[c].status = "blocked with jobs" =>
                         c \in idle \/ timeouts[c] # {}

\* Job j is once in one of a queue q, the jobs h held for it and the jobs D
\* between the two, if it is one of the jobs A that have not ended.
Placed(q, h, D, A, j) ==
    /\ Once(q, j) /\ Once(h, j)
    /\ j \in ToSet(q) => j \notin ToSet(h) /\ j \notin D
    /\ j \in ToSet(h) => j \notin D
    /\ j \in A <=> j \in ToSet(q) \/ j \in ToSet(h) \/ j \in D

\* The same of all jobs, each in the queue of its conversation.
Kept(l, d, D, A) ==
    /\ l \in [Convs -> Seq(Jobs)] /\ d \in [Convs -> DataType]
    /\ \A c \in Convs : \A j \in ToSet(l[c]) \cup ToSet(d[c].held) : ConvOf[j] = c
    /\ \A j \in Jobs : Placed(l[ConvOf[j]], d[ConvOf[j]].held, D, A, j)

JobsKept == Kept(lane, data, deferred, added \ ended)

IInv ==
    /\ Bounded(handler) /\ RunInv /\ QueueTypes
    /\ HeldAreBlocked /\ BlockedHaveATrigger /\ JobsKept

-----------------------------------------------------------------------------
\* The operations of the handler keep its type and bound.

\* unregister.
LEMMA UnregisterTypes ==
    ASSUME NEW h, Bounded(h), NEW c \in Convs PROVE Bounded(Unregister(h, c))
BY DEF Bounded, HandlerType, Unregister, Times

\* #startQueue of some conversations.
LEMMA StartQueuesTypes ==
    ASSUME NEW h, Bounded(h), NEW convs \in SUBSET Convs
    PROVE  Bounded(StartQueues(h, convs))
BY DEF Bounded, HandlerType, StartQueues, Times

\* An update of the counts and flags of the record.
LEMMA CountTypes ==
    ASSUME NEW h \in HandlerType, NEW a \in Nat, NEW b \in Nat
    PROVE  /\ \A t \in BOOLEAN :
                 [h EXCEPT !.asked = a, !.token = t, !.events = b] \in HandlerType
           /\ [h EXCEPT !.asked = a] \in HandlerType
           /\ [h EXCEPT !.sending = b] \in HandlerType
           /\ [h EXCEPT !.asked = a, !.token = FALSE, !.sending = b]
                 \in HandlerType
           /\ [h EXCEPT !.online = FALSE, !.events = a] \in HandlerType
           /\ \A r \in [Convs -> Times], t \in [Convs -> {"none", "own", "limit"}] :
                 [h EXCEPT !.sending = b, !.limited = TRUE, !.retryAt = r,
                           !.timer = t] \in HandlerType
BY DEF HandlerType

\* #solve, which the bound may stop.
LEMMA SolveTypes ==
    ASSUME NEW h, Bounded(h) PROVE Bounded(Solve(h))
<1>1. MaxEvents \in Nat
  BY ConversationJobQueueAssumption
<1>2. /\ h \in HandlerType /\ h.asked \in Nat /\ h.sending \in Nat
      /\ h.events \in Nat
      /\ h.asked + h.sending <= h.events /\ h.events <= MaxEvents
  BY DEF Bounded, HandlerType
<1>3. CASE h.events < MaxEvents
  <2>0. h.asked + 1 \in Nat /\ h.events + 1 \in Nat
    BY <1>2
  <2>1. [h EXCEPT !.asked = h.asked + 1, !.token = TRUE,
                  !.events = h.events + 1] \in HandlerType
    BY <1>2, <2>0, CountTypes
  <2>. QED
    BY <1>1, <1>2, <1>3, <2>1 DEF Bounded, Solve, HandlerType
<1>. QED
  BY <1>3 DEF Solve

\* maybeSolve, which may be one.
LEMMA MaybeSolveTypes ==
    ASSUME NEW h, Bounded(h), NEW c PROVE Bounded(MaybeSolve(h, c))
BY SolveTypes DEF MaybeSolve

\* register up to its await.
LEMMA RegisterTypes ==
    ASSUME NEW h, Bounded(h), NEW x \in Challenges PROVE Bounded(Register(h, x))
BY DEF Bounded, HandlerType, Register, Challenges, Times

\* register after its await.
LEMMA TrackTypes ==
    ASSUME NEW h, Bounded(h), NEW x \in Challenges PROVE Bounded(Track(h, x))
<1>1. \A t \in {"own", "limit"} : Bounded([h EXCEPT !.timer[x.conv] = t])
  BY DEF Bounded, HandlerType, Challenges
<1>. QED
  BY <1>1, SolveTypes DEF Track

\* What the handler does by itself, and the times that come.
LEMMA HandlerStepTypes ==
    ASSUME Bounded(handler),
           HandlerSteps \/ \E c \in Convs : Matures(c)
    PROVE  Bounded(handler')
<1>0. /\ handler \in HandlerType /\ handler.asked \in Nat
      /\ handler.sending \in Nat /\ handler.events \in Nat
      /\ handler.asked + handler.sending <= handler.events
      /\ handler.events <= MaxEvents /\ MaxEvents \in Nat
  BY ConversationJobQueueAssumption DEF Bounded, HandlerType
<1>1. CASE \E c \in Convs : TimerFires(c)
  <2>1. PICK c \in Convs : TimerFires(c)
    BY <1>1
  <2>2. Bounded([handler EXCEPT !.timer[c] = "none", !.limited = FALSE])
    BY DEF Bounded, HandlerType
  <2>. QED
    BY <2>1, <2>2, StartQueuesTypes DEF TimerFires
<1>2. CASE Registers
  <2>1. PICK x \in handler.registering : Registered(x)
    BY <1>2 DEF Registers
  <2> DEFINE h == [handler EXCEPT !.registering = @ \ {x}]
  <2>2. Bounded(h) /\ x \in Challenges /\ x.conv \in Convs
    BY DEF Bounded, HandlerType, Challenges
  <2>3. \/ handler' = Track(h, x)
        \/ handler' = StartQueues([h EXCEPT !.retryAt[x.conv] =
               IF x.conv \in h.registered THEN "past" ELSE @], {x.conv})
    BY <2>1 DEF Registered
  <2>. HIDE DEF h
  <2>4. Bounded([h EXCEPT !.retryAt[x.conv] =
               IF x.conv \in h.registered THEN "past" ELSE @])
    BY <2>2 DEF Bounded, HandlerType, Times
  <2>. QED
    BY <2>2, <2>3, <2>4, TrackTypes, StartQueuesTypes
<1>3. CASE OnOnline
  <2> DEFINE due == {c \in handler.registered : handler.retryAt[c] = "past"}
             forgotten == (handler.pending \cap handler.registered) \ due
             h == [handler EXCEPT !.online = TRUE, !.pending = {},
                                  !.dropped = @ \cup forgotten]
  <2>1. due \subseteq Convs /\ forgotten \subseteq Convs
    BY DEF Bounded, HandlerType
  <2>2. handler' = StartQueues(h, due)
    BY <1>3 DEF OnOnline
  <2>. HIDE DEF due, forgotten
  <2>3. Bounded(h)
    BY <2>1 DEF Bounded, HandlerType
  <2>. QED
    BY <2>1, <2>2, <2>3, StartQueuesTypes
<1>4. CASE OnOffline
  <2>1. handler.events + 1 \in Nat /\ handler.events + 1 <= MaxEvents
    BY <1>0, <1>4 DEF OnOffline
  <2>2. handler' \in HandlerType
    BY <1>0, <1>4, <2>1, CountTypes DEF OnOffline
  <2>3. /\ handler'.asked = handler.asked /\ handler'.sending = handler.sending
        /\ handler'.events = handler.events + 1
    BY <1>0, <1>4 DEF OnOffline, HandlerType
  <2>. QED
    BY <1>0, <2>1, <2>2, <2>3 DEF Bounded
<1>5. CASE Solved
  <2>0. handler.asked - 1 \in Nat /\ handler.sending + 1 \in Nat
    BY <1>0, <1>5 DEF Solved
  <2>1. handler' \in HandlerType
    BY <1>0, <1>5, <2>0, CountTypes DEF Solved
  <2>2. /\ handler'.asked + handler'.sending <= handler.asked + handler.sending
        /\ handler'.events = handler.events
    BY <1>0, <1>5 DEF Solved, HandlerType
  <2>. QED
    BY <1>0, <2>1, <2>2 DEF Bounded, HandlerType
<1>6. CASE SolveSucceeds
  <2>1. Bounded([handler EXCEPT !.sending = @ - 1])
    BY <1>0, <1>6 DEF SolveSucceeds, Bounded, HandlerType
  <2>2. handler.registered \in SUBSET Convs
    BY DEF Bounded, HandlerType
  <2>. QED
    BY <1>6, <2>1, <2>2, StartQueuesTypes DEF SolveSucceeds
<1>7. CASE SolveFails
  <2>0. handler.sending - 1 \in Nat
    BY <1>0, <1>7 DEF SolveFails
  <2> DEFINE r == [c \in Convs |-> IF c \in handler.registered THEN "future"
                                   ELSE handler.retryAt[c]]
             t == [c \in Convs |-> IF c \in handler.registered THEN "own"
                                   ELSE handler.timer[c]]
  <2>3. r \in [Convs -> Times] /\ t \in [Convs -> {"none", "own", "limit"}]
    BY <1>0 DEF HandlerType, Times
  <2>4. handler' = [handler EXCEPT !.sending = handler.sending - 1,
                        !.limited = TRUE, !.retryAt = r, !.timer = t]
    BY <1>7 DEF SolveFails
  <2>. HIDE DEF r, t
  <2>1. handler' \in HandlerType
    BY <1>0, <2>0, <2>3, <2>4, CountTypes
  <2>2. /\ handler'.asked = handler.asked /\ handler'.events = handler.events
        /\ handler'.sending = handler.sending - 1
    BY <1>0, <1>7 DEF SolveFails, HandlerType
  <2>. QED
    BY <1>0, <2>1, <2>2 DEF Bounded
<1>8. CASE \E c \in Convs : Matures(c)
  BY <1>8 DEF Matures, Bounded, HandlerType, Times
<1>. QED
  BY <1>1, <1>2, <1>3, <1>4, <1>5, <1>6, <1>7, <1>8 DEF HandlerSteps, SolveEnds

-----------------------------------------------------------------------------
\* Where a job is, when its queue and what is held for it change.
LEMMA PlacedFacts ==
    ASSUME NEW q \in Seq(Jobs), NEW h \in Seq(Jobs), NEW D, NEW A, NEW j,
           Placed(q, h, D, A, j)
    PROVE  /\ \A e \in Jobs \ A : Placed(Append(q, e), h, D, A \cup {e}, j)
           /\ q # <<>> => /\ Placed(Tail(q), h, D, A \ {Head(q)}, j)
                          /\ Head(q) \in A => Placed(Tail(q), h, D \cup {Head(q)}, A, j)
           /\ \A e \in D \cap Jobs : Placed(q, Append(h, e), D \ {e}, A, j)
           /\ Placed(q \o h, <<>>, D, A, j)
<1>0. /\ Once(q, j) /\ Once(h, j)
      /\ j \in ToSet(q) => j \notin ToSet(h) /\ j \notin D
      /\ j \in ToSet(h) => j \notin D
      /\ j \in A <=> j \in ToSet(q) \/ j \in ToSet(h) \/ j \in D
  BY DEF Placed
<1>1. ASSUME NEW e \in Jobs \ A PROVE Placed(Append(q, e), h, D, A \cup {e}, j)
  <2>1. ToSet(Append(q, e)) = ToSet(q) \cup {e}
    BY AppendFacts
  <2>2. e = j => j \notin ToSet(q)
    BY <1>0
  <2>3. Once(Append(q, e), j)
    BY <1>0, <2>2, OnceAppend
  <2>. QED
    BY <1>0, <2>1, <2>3 DEF Placed
<1>2. ASSUME q # <<>>
      PROVE  /\ Placed(Tail(q), h, D, A \ {Head(q)}, j)
             /\ Head(q) \in A => Placed(Tail(q), h, D \cup {Head(q)}, A, j)
  <2>1. ToSet(q) = {Head(q)} \cup ToSet(Tail(q))
    BY <1>2, TailFacts
  <2>2. Once(Tail(q), j) /\ (Head(q) = j => j \notin ToSet(Tail(q)))
    BY <1>0, <1>2, OnceTail
  <2>. QED
    BY <1>0, <2>1, <2>2 DEF Placed
<1>3. ASSUME NEW e \in D \cap Jobs PROVE Placed(q, Append(h, e), D \ {e}, A, j)
  <2>1. ToSet(Append(h, e)) = ToSet(h) \cup {e}
    BY AppendFacts
  <2>2. e = j => j \notin ToSet(h)
    BY <1>0
  <2>3. Once(Append(h, e), j)
    BY <1>0, <2>2, OnceAppend
  <2>. QED
    BY <1>0, <2>1, <2>3 DEF Placed
<1>4. Placed(q \o h, <<>>, D, A, j)
  <2>1. ToSet(q \o h) = ToSet(q) \cup ToSet(h)
    BY ConcatFacts
  <2>2. Once(q \o h, j)
    BY <1>0, OnceConcat
  <2>. QED
    BY <1>0, <2>1, <2>2, EmptyFacts DEF Placed
<1>. QED
  BY <1>1, <1>2, <1>3, <1>4

\* A change of other jobs leaves a job where it is.
LEMMA PlacedApart ==
    ASSUME NEW q, NEW h, NEW D, NEW A, NEW D2, NEW A2, NEW j,
           Placed(q, h, D, A, j), j \in D <=> j \in D2, j \in A <=> j \in A2
    PROVE  Placed(q, h, D2, A2, j)
BY DEF Placed

\* A job is added to the end of its queue.
LEMMA KeptAppend ==
    ASSUME NEW l, NEW d, NEW D, NEW A, Kept(l, d, D, A), NEW e \in Jobs \ A
    PROVE  Kept([l EXCEPT ![ConvOf[e]] = Append(@, e)], d, D, A \cup {e})
<1> DEFINE c == ConvOf[e]
           m == [l EXCEPT ![ConvOf[e]] = Append(@, e)]
<1>1. /\ c \in Convs /\ l[c] \in Seq(Jobs) /\ d[c].held \in Seq(Jobs)
      /\ l \in [Convs -> Seq(Jobs)] /\ d \in [Convs -> DataType]
  BY ConversationJobQueueAssumption DEF Kept, DataType
<1>2. /\ Append(l[c], e) \in Seq(Jobs)
      /\ ToSet(Append(l[c], e)) = ToSet(l[c]) \cup {e}
  BY <1>1, AppendFacts
<1>3. /\ m \in [Convs -> Seq(Jobs)] /\ m[c] = Append(l[c], e)
      /\ \A b \in Convs \ {c} : m[b] = l[b]
  BY <1>1, <1>2
<1>4. ASSUME NEW b \in Convs, NEW j \in ToSet(m[b]) \cup ToSet(d[b].held)
      PROVE  ConvOf[j] = b
  BY <1>2, <1>3, <1>4 DEF Kept
<1>5. ASSUME NEW j \in Jobs
      PROVE  Placed(m[ConvOf[j]], d[ConvOf[j]].held, D, A \cup {e}, j)
  <2>1. ConvOf[j] \in Convs /\ Placed(l[ConvOf[j]], d[ConvOf[j]].held, D, A, j)
    BY ConversationJobQueueAssumption DEF Kept
  <2>2. CASE ConvOf[j] = c
    BY <1>1, <1>3, <2>1, <2>2, PlacedFacts
  <2>3. CASE ConvOf[j] # c
    BY <1>3, <2>1, <2>3, PlacedApart
  <2>. QED
    BY <2>2, <2>3
<1>. QED
  BY <1>1, <1>3, <1>4, <1>5 DEF Kept

\* The head of a queue ends, or is put aside.
LEMMA KeptTail ==
    ASSUME NEW l, NEW d, NEW D, NEW A, Kept(l, d, D, A), NEW c \in Convs,
           l[c] # <<>>
    PROVE  /\ Head(l[c]) \in A /\ Head(l[c]) \in Jobs
           /\ Kept([l EXCEPT ![c] = Tail(@)], d, D, A \ {Head(l[c])})
           /\ Kept([l EXCEPT ![c] = Tail(@)], d, D \cup {Head(l[c])}, A)
<1> DEFINE e == Head(l[c])
           m == [l EXCEPT ![c] = Tail(@)]
<1>1. /\ l[c] \in Seq(Jobs) /\ d[c].held \in Seq(Jobs)
      /\ l \in [Convs -> Seq(Jobs)] /\ d \in [Convs -> DataType]
  BY DEF Kept, DataType
<1>2. /\ Tail(l[c]) \in Seq(Jobs) /\ e \in Jobs
      /\ ToSet(l[c]) = {e} \cup ToSet(Tail(l[c]))
  BY <1>1, TailFacts
<1>3. /\ m \in [Convs -> Seq(Jobs)] /\ m[c] = Tail(l[c])
      /\ \A b \in Convs \ {c} : m[b] = l[b]
  BY <1>1, <1>2
<1>4. ASSUME NEW b \in Convs, NEW j \in ToSet(m[b]) \cup ToSet(d[b].held)
      PROVE  ConvOf[j] = b
  BY <1>2, <1>3, <1>4 DEF Kept
<1>5. ConvOf[e] = c /\ e \in A
  BY <1>2 DEF Kept, Placed
<1>6. ASSUME NEW j \in Jobs
      PROVE  /\ Placed(m[ConvOf[j]], d[ConvOf[j]].held, D, A \ {e}, j)
             /\ Placed(m[ConvOf[j]], d[ConvOf[j]].held, D \cup {e}, A, j)
  <2>1. ConvOf[j] \in Convs /\ Placed(l[ConvOf[j]], d[ConvOf[j]].held, D, A, j)
    BY ConversationJobQueueAssumption DEF Kept
  <2>2. CASE ConvOf[j] = c
    BY <1>1, <1>3, <1>5, <2>1, <2>2, PlacedFacts
  <2>3. CASE ConvOf[j] # c
    BY <1>3, <1>5, <2>1, <2>3, PlacedApart
  <2>. QED
    BY <2>2, <2>3
<1>. QED
  BY <1>1, <1>2, <1>3, <1>4, <1>5, <1>6 DEF Kept

\* A job that was put aside is held.
LEMMA KeptHold ==
    ASSUME NEW l, NEW d, NEW D, NEW A, Kept(l, d, D, A), NEW e \in D \cap Jobs,
           NEW r \in DataType, r.held = Append(d[ConvOf[e]].held, e)
    PROVE  Kept(l, [d EXCEPT ![ConvOf[e]] = r], D \ {e}, A)
<1> DEFINE c == ConvOf[e]
           f == [d EXCEPT ![ConvOf[e]] = r]
<1>1. /\ c \in Convs /\ l[c] \in Seq(Jobs) /\ d[c].held \in Seq(Jobs)
      /\ l \in [Convs -> Seq(Jobs)] /\ d \in [Convs -> DataType]
  BY ConversationJobQueueAssumption DEF Kept, DataType
<1>2. /\ ToSet(r.held) = ToSet(d[c].held) \cup {e}
  BY <1>1, AppendFacts
<1>3. /\ f \in [Convs -> DataType] /\ f[c] = r
      /\ \A b \in Convs \ {c} : f[b] = d[b]
  BY <1>1
<1>4. ASSUME NEW b \in Convs, NEW j \in ToSet(l[b]) \cup ToSet(f[b].held)
      PROVE  ConvOf[j] = b
  BY <1>2, <1>3, <1>4 DEF Kept
<1>5. ASSUME NEW j \in Jobs
      PROVE  Placed(l[ConvOf[j]], f[ConvOf[j]].held, D \ {e}, A, j)
  <2>1. ConvOf[j] \in Convs /\ Placed(l[ConvOf[j]], d[ConvOf[j]].held, D, A, j)
    BY ConversationJobQueueAssumption DEF Kept
  <2>2. CASE ConvOf[j] = c
    <3>1. Placed(l[c], Append(d[c].held, e), D \ {e}, A, j)
      BY <1>1, <2>1, <2>2, PlacedFacts
    <3>2. f[ConvOf[j]].held = Append(d[c].held, e)
      BY <1>3, <2>2
    <3>. QED
      BY <2>2, <3>1, <3>2
  <2>3. CASE ConvOf[j] # c
    BY <1>3, <2>1, <2>3, PlacedApart
  <2>. QED
    BY <2>2, <2>3
<1>. QED
  BY <1>1, <1>3, <1>4, <1>5 DEF Kept

\* The jobs that are held join the queue again.
LEMMA KeptRetry ==
    ASSUME NEW l, NEW d, NEW D, NEW A, Kept(l, d, D, A), NEW c \in Convs
    PROVE  Kept([l EXCEPT ![c] = @ \o d[c].held], [d EXCEPT ![c] = Retrying], D, A)
<1> DEFINE m == [l EXCEPT ![c] = @ \o d[c].held]
           f == [d EXCEPT ![c] = Retrying]
<1>1. /\ l[c] \in Seq(Jobs) /\ d[c].held \in Seq(Jobs)
      /\ l \in [Convs -> Seq(Jobs)] /\ d \in [Convs -> DataType]
  BY DEF Kept, DataType
<1>2. /\ l[c] \o d[c].held \in Seq(Jobs)
      /\ ToSet(l[c] \o d[c].held) = ToSet(l[c]) \cup ToSet(d[c].held)
  BY <1>1, ConcatFacts
<1>3. Retrying \in DataType /\ Retrying.held = <<>>
  BY EmptySeq DEF Retrying, Data, DataType, Statuses, Times
<1>4. /\ m \in [Convs -> Seq(Jobs)] /\ m[c] = l[c] \o d[c].held
      /\ \A b \in Convs \ {c} : m[b] = l[b]
  BY <1>1, <1>2
<1>5. /\ f \in [Convs -> DataType] /\ f[c].held = <<>>
      /\ \A b \in Convs \ {c} : f[b] = d[b]
  BY <1>1, <1>3
<1>6. ASSUME NEW b \in Convs, NEW j \in ToSet(m[b]) \cup ToSet(f[b].held)
      PROVE  ConvOf[j] = b
  BY <1>2, <1>4, <1>5, <1>6, EmptyFacts DEF Kept
<1>7. ASSUME NEW j \in Jobs
      PROVE  Placed(m[ConvOf[j]], f[ConvOf[j]].held, D, A, j)
  <2>1. ConvOf[j] \in Convs /\ Placed(l[ConvOf[j]], d[ConvOf[j]].held, D, A, j)
    BY ConversationJobQueueAssumption DEF Kept
  <2>2. CASE ConvOf[j] = c
    <3>1. Placed(l[c] \o d[c].held, <<>>, D, A, j)
      BY <1>1, <2>1, <2>2, PlacedFacts
    <3>. QED
      BY <1>4, <1>5, <2>2, <3>1
  <2>3. CASE ConvOf[j] # c
    BY <1>4, <1>5, <2>1, <2>3
  <2>. QED
    BY <2>2, <2>3
<1>. QED
  BY <1>4, <1>5, <1>6, <1>7 DEF Kept

\* The data change, but not what is held.
LEMMA KeptStatus ==
    ASSUME NEW l, NEW d, NEW D, NEW A, Kept(l, d, D, A),
           NEW f \in [Convs -> DataType],
           \A c \in Convs : f[c].held = d[c].held
    PROVE  Kept(l, f, D, A)
BY ConversationJobQueueAssumption DEF Kept

-----------------------------------------------------------------------------
\* The callback of a conversation, and what calls it.

\* A conversation whose jobs are retried holds none.
LEMMA RetryingFacts ==
    /\ Retrying \in DataType /\ Retrying.held = <<>>
    /\ Retrying.status = "running" /\ Retrying.retryAt = "none"
BY EmptySeq DEF Retrying, Data, DataType, Statuses, Times

\* A retry empties what is held into the queue.
LEMMA RetryFacts ==
    ASSUME IInv, NEW c \in Convs, NEW h, Bounded(h), NEW q, NEW D, NEW A,
           Kept([lane EXCEPT ![c] = q], data, D, A), Retry(c, h, q)
    PROVE  /\ Bounded(handler') /\ Kept(lane', data', D, A)
           /\ data' = [data EXCEPT ![c] = Retrying]
<1> DEFINE l == [lane EXCEPT ![c] = q]
<1>1. lane \in [Convs -> Seq(Jobs)]
  BY DEF IInv, QueueTypes
<1>2. lane' = [l EXCEPT ![c] = @ \o data[c].held]
  BY <1>1 DEF Retry
<1>3. data' = [data EXCEPT ![c] = Retrying] /\ handler' = Unregister(h, c)
  BY DEF Retry
<1>4. Kept(l, data, D, A)
  OBVIOUS
<1>. HIDE DEF l
<1>5. Kept(lane', data', D, A)
  BY <1>2, <1>3, <1>4, KeptRetry
<1>. QED
  BY <1>3, <1>5, UnregisterTypes

\* What a step must keep of the triggers.
Triggered ==
    /\ timeouts \in [Convs -> SUBSET {"kept", "lost"}]
    /\ HeldAreBlocked /\ BlockedHaveATrigger

\* A conversation of which a trigger has been taken away by its callback.
LEMMA CallbackFacts ==
    ASSUME IInv, NEW c \in Convs, NEW pending \in SUBSET {"kept", "lost"},
           RetryCallback(c, pending), idle \ {c} \subseteq idle'
    PROVE  /\ Bounded(handler') /\ Triggered'
           /\ Kept(lane', data', deferred, added \ ended)
<1>0. /\ data \in [Convs -> DataType] /\ lane \in [Convs -> Seq(Jobs)]
      /\ timeouts \in [Convs -> SUBSET {"kept", "lost"}]
      /\ HeldAreBlocked /\ BlockedHaveATrigger /\ Bounded(handler)
      /\ Kept(lane, data, deferred, added \ ended)
  BY DEF IInv, QueueTypes, JobsKept
<1>1. CASE data[c].status = "blocked with jobs" /\ data[c].retryAt # "future"
  <2>1. /\ timeouts' = [timeouts EXCEPT ![c] = pending \ {"kept"}]
        /\ Retry(c, handler, lane[c])
    BY <1>1 DEF RetryCallback
  <2>2. [lane EXCEPT ![c] = lane[c]] = lane
    BY <1>0
  <2>3. /\ Bounded(handler') /\ Kept(lane', data', deferred, added \ ended)
        /\ data' = [data EXCEPT ![c] = Retrying]
    BY <1>0, <2>1, <2>2, RetryFacts
  <2>4. Triggered'
    BY <1>0, <2>1, <2>3, RetryingFacts
       DEF Triggered, HeldAreBlocked, BlockedHaveATrigger
  <2>. QED
    BY <2>3, <2>4
<1>2. CASE ~(data[c].status = "blocked with jobs" /\ data[c].retryAt # "future")
  <2>1. /\ timeouts' = [timeouts EXCEPT ![c] =
               IF data[c].status = "blocked with jobs" THEN pending \cup {"kept"}
               ELSE pending]
        /\ UNCHANGED <<handler, data, lane>>
    BY <1>2 DEF RetryCallback
  <2>2. Triggered'
    BY <1>0, <2>1 DEF Triggered, HeldAreBlocked, BlockedHaveATrigger
  <2>. QED
    BY <1>0, <2>1, <2>2
<1>. QED
  BY <1>1, <1>2

\* The retries of a conversation are unblocked.
LEMMA UnblockFacts ==
    ASSUME IInv, NEW c \in Convs, NEW h, Bounded(h), NEW q, NEW D, NEW A,
           Kept([lane EXCEPT ![c] = q], data, D, A), Unblock(c, h, q),
           idle' = idle
    PROVE  /\ Bounded(handler') /\ Triggered' /\ Kept(lane', data', D, A)
<1>0. /\ data \in [Convs -> DataType] /\ lane \in [Convs -> Seq(Jobs)]
      /\ timeouts \in [Convs -> SUBSET {"kept", "lost"}]
      /\ HeldAreBlocked /\ BlockedHaveATrigger
  BY DEF IInv, QueueTypes
<1>1. CASE data[c].status = "blocked"
  <2>1. /\ data' = [data EXCEPT ![c] = Retrying]
        /\ handler' = h /\ lane' = [lane EXCEPT ![c] = q]
        /\ timeouts' = timeouts
    BY <1>1 DEF Unblock
  <2>2. data[c].held = <<>>
    BY <1>0, <1>1 DEF HeldAreBlocked
  <2>3. /\ data' \in [Convs -> DataType]
        /\ \A b \in Convs : data'[b].held = data[b].held
    BY <1>0, <2>1, <2>2, RetryingFacts
  <2>4. Kept(lane', data', D, A)
    BY <2>1, <2>3, KeptStatus
  <2>5. Triggered'
    BY <1>0, <2>1, RetryingFacts
       DEF Triggered, HeldAreBlocked, BlockedHaveATrigger
  <2>. QED
    BY <2>1, <2>4, <2>5
<1>2. CASE data[c].status = "blocked with jobs"
  <2>1. /\ timeouts' = [timeouts EXCEPT ![c] = @ \ {"kept"}]
        /\ Retry(c, h, q)
    BY <1>2 DEF Unblock
  <2>2. /\ Bounded(handler') /\ Kept(lane', data', D, A)
        /\ data' = [data EXCEPT ![c] = Retrying]
    BY <2>1, RetryFacts
  <2>3. Triggered'
    BY <1>0, <2>1, <2>2, RetryingFacts
       DEF Triggered, HeldAreBlocked, BlockedHaveATrigger
  <2>. QED
    BY <2>2, <2>3
<1>3. CASE data[c].status \notin {"blocked", "blocked with jobs"}
  <2>1. /\ handler' = h /\ lane' = [lane EXCEPT ![c] = q]
        /\ UNCHANGED <<data, timeouts>>
    BY <1>3 DEF Unblock
  <2>2. Triggered'
    BY <1>0, <2>1 DEF Triggered, HeldAreBlocked, BlockedHaveATrigger
  <2>. QED
    BY <2>1, <2>2
<1>. QED
  BY <1>1, <1>2, <1>3

-----------------------------------------------------------------------------
\* What run() does to the state of an attempt.

\* An attempt that may be made is counted.
LEMMA AttemptRuns ==
    ASSUME RunInv, NEW c \in Convs, run[c].attempt < MaxAttempts, Attempt(c),
           data[c].retryAt \in Times
    PROVE  RunInv'
<1>1. /\ run \in [Convs -> RunType] /\ MaxAttempts \in Nat
      /\ \A b \in Convs : run[b].step = "queued" => run[b].attempt = 0
  BY ConversationJobQueueAssumption DEF RunInv
<1>2. run[c].attempt + 1 \in 0..MaxAttempts
  BY <1>1 DEF RunType
<1> DEFINE n == run[c].attempt + 1
           r == [step |-> "loading", attempt |-> n,
                 stale |-> data[c].retryAt # "none"]
<1>3. run' = [run EXCEPT ![c] = r]
  BY <1>1 DEF Attempt
<1>4. n \in 0..MaxAttempts
  BY <1>2
<1>. HIDE DEF n
<1>5. r \in RunType /\ r.step = "loading"
  BY <1>4 DEF RunType, Steps
<1>. HIDE DEF r
<1>. QED
  BY <1>1, <1>3, <1>5 DEF RunInv

\* The queue goes on to another job.
LEMMA GoOnRuns ==
    ASSUME RunInv, NEW c \in Convs, GoOn(c) PROVE RunInv'
<1>1. NotBegun \in RunType /\ NotBegun.attempt = 0
  BY ConversationJobQueueAssumption DEF NotBegun, RunType, Steps
<1>. QED
  BY <1>1 DEF RunInv, GoOn

\* The attempt goes on to another step.
LEMMA StepRuns ==
    ASSUME RunInv, NEW c \in Convs, NEW s \in Steps \ {"queued"}
    PROVE  /\ run' = [run EXCEPT ![c].step = s] => RunInv'
           /\ run' = [run EXCEPT ![c].step = s, ![c].stale = FALSE] => RunInv'
BY DEF RunInv, RunType

\* An exception in run(), as the handler and the data stay or change otherwise.
LEMMA ThrowFacts ==
    ASSUME IInv, NEW c \in Convs, lane[c] # <<>>, Throw(c), deferred' = deferred,
           added' = added
    PROVE  /\ RunInv' /\ ended' \subseteq added'
           /\ Kept(lane', data, deferred', added' \ ended')
<1>0. /\ data \in [Convs -> DataType] /\ RunInv /\ ended \subseteq added
      /\ Kept(lane, data, deferred, added \ ended)
  BY DEF IInv, QueueTypes, JobsKept
<1>1. CASE run[c].attempt < MaxAttempts
  <2>1. Attempt(c) /\ UNCHANGED <<ended, lane>>
    BY <1>1 DEF Throw
  <2>2. data[c].retryAt \in Times
    BY <1>0 DEF DataType
  <2>. QED
    BY <1>0, <1>1, <2>1, <2>2, AttemptRuns
<1>2. CASE ~(run[c].attempt < MaxAttempts)
  <2>1. /\ ended' = ended \cup {Head(lane[c])}
        /\ lane' = [lane EXCEPT ![c] = Tail(@)] /\ GoOn(c)
    BY <1>2 DEF Throw
  <2>2. /\ Head(lane[c]) \in added \ ended
        /\ Kept([lane EXCEPT ![c] = Tail(@)], data, deferred,
                (added \ ended) \ {Head(lane[c])})
    BY <1>0, KeptTail
  <2>3. added' \ ended' = (added \ ended) \ {Head(lane[c])}
    BY <2>1
  <2>. QED
    BY <1>0, <2>1, <2>2, <2>3, GoOnRuns
<1>. QED
  BY <1>1, <1>2

\* Every step of the system keeps the invariant.
LEMMA Inductive == IInv /\ [Next]_vars => IInv'
<1>. SUFFICES ASSUME IInv, [Next]_vars PROVE IInv'
  OBVIOUS
<1>0. /\ Bounded(handler) /\ RunInv /\ QueueTypes /\ Triggered
      /\ Kept(lane, data, deferred, added \ ended)
      /\ data \in [Convs -> DataType] /\ lane \in [Convs -> Seq(Jobs)]
      /\ timeouts \in [Convs -> SUBSET {"kept", "lost"}]
      /\ added \subseteq Jobs /\ ended \subseteq added /\ deferred \subseteq Jobs
      /\ idle \subseteq Convs /\ waiter \subseteq Convs
      /\ challenged \in 0..MaxChallenges
  BY DEF IInv, QueueTypes, JobsKept, Triggered
<1> DEFINE Rest == /\ added \subseteq Jobs /\ ended \subseteq added
                   /\ deferred \subseteq Jobs
                   /\ idle \subseteq Convs /\ waiter \subseteq Convs
                   /\ challenged \in 0..MaxChallenges
<1>a. ASSUME Bounded(handler'), RunInv', Triggered', Rest',
             Kept(lane', data', deferred', added' \ ended')
      PROVE  IInv'
  BY <1>a DEF IInv, QueueTypes, JobsKept, Triggered, Kept
<1>b. /\ UNCHANGED <<data, timeouts, idle>> => Triggered'
      /\ UNCHANGED run => RunInv'
  BY <1>0 DEF Triggered, HeldAreBlocked, BlockedHaveATrigger, RunInv
<1>1. ASSUME HandlerSteps \/ \E c \in Convs : Matures(c), UNCHANGED queue
      PROVE  IInv'
  BY <1>0, <1>1, <1>a, <1>b, HandlerStepTypes DEF queue
<1>2. ASSUME NEW c \in Convs, QueueIsIdle(c) \/ RetryTimeout(c) PROVE IInv'
  <2>1. PICK pending \in SUBSET {"kept", "lost"} : RetryCallback(c, pending)
    BY <1>0, <1>2 DEF QueueIsIdle, RetryTimeout
  <2>2. idle \ {c} \subseteq idle' /\ idle' \subseteq idle
        /\ UNCHANGED <<added, ended, run, deferred, waiter, challenged>>
    BY <1>2 DEF QueueIsIdle, RetryTimeout
  <2>3. Bounded(handler') /\ Triggered' /\ Kept(lane', data', deferred, added \ ended)
    BY <2>1, <2>2, CallbackFacts
  <2>. QED
    BY <1>0, <1>a, <1>b, <2>2, <2>3
<1>3. ASSUME NEW c \in Convs, RetryAtComes(c) PROVE IInv'
  <2>1. /\ data' = [data EXCEPT ![c].retryAt = "past"]
        /\ UNCHANGED <<handler, added, ended, lane, run, deferred, idle,
                   timeouts, waiter, challenged>>
    BY <1>3 DEF RetryAtComes
  <2>2. /\ data' \in [Convs -> DataType]
        /\ \A b \in Convs : /\ data'[b].held = data[b].held
                            /\ data'[b].status = data[b].status
    BY <1>0, <2>1 DEF DataType, Times
  <2>3. Kept(lane', data', deferred', added' \ ended')
    BY <1>0, <2>1, <2>2, KeptStatus
  <2>4. Triggered'
    BY <1>0, <2>1, <2>2 DEF Triggered, HeldAreBlocked, BlockedHaveATrigger
  <2>. QED
    BY <1>0, <1>a, <1>b, <2>1, <2>3, <2>4
<1>4. ASSUME NEW c \in Convs, QueueStarts(c) PROVE IInv'
  <2> DEFINE h == [handler EXCEPT !.starting = @ \ {c}]
  <2>1. Bounded(h)
    BY <1>0 DEF Bounded, HandlerType
  <2>2. UNCHANGED <<added, ended, deferred, idle, challenged>>
    BY <1>4 DEF QueueStarts
  <2>3. CASE c \in waiter
    <3>1. /\ waiter' = waiter \ {c}
          /\ run' = [run EXCEPT ![c].step = IF @ = "waiting" THEN "checking"
                                            ELSE @]
          /\ handler' = h /\ UNCHANGED <<lane, data, timeouts>>
      BY <1>4, <2>3 DEF QueueStarts
    <3>2. RunInv'
      BY <1>0, <3>1 DEF RunInv, RunType, Steps
    <3>. QED
      BY <1>0, <1>a, <1>b, <2>1, <2>2, <3>1, <3>2
  <2>4. CASE c \notin waiter
    <3>1. Unblock(c, h, lane[c]) /\ UNCHANGED <<waiter, run>>
      BY <1>4, <2>4 DEF QueueStarts
    <3>2. [lane EXCEPT ![c] = lane[c]] = lane
      BY <1>0
    <3>. HIDE DEF h
    <3>3. /\ Bounded(handler') /\ Triggered'
          /\ Kept(lane', data', deferred, added \ ended)
      BY <1>0, <2>1, <2>2, <3>1, <3>2, UnblockFacts
    <3>. QED
      BY <1>0, <1>a, <1>b, <2>2, <3>1, <3>3
  <2>. QED
    BY <2>3, <2>4
<1>5. ASSUME NEW j \in Jobs, Add(j) PROVE IInv'
  <2>1. /\ j \notin added /\ added' = added \cup {j}
        /\ lane' = [lane EXCEPT ![ConvOf[j]] = Append(@, j)]
        /\ handler' \in {handler, MaybeSolve(handler, ConvOf[j])}
        /\ UNCHANGED <<ended, run, deferred, data, idle, timeouts, waiter,
                   challenged>>
    BY <1>5 DEF Add
  <2>2. added' \ ended' = (added \ ended) \cup {j}
    BY <1>0, <2>1
  <2>3. Kept(lane', data', deferred', added' \ ended')
    <3>1. j \in Jobs \ (added \ ended)
      BY <2>1
    <3>2. Kept([lane EXCEPT ![ConvOf[j]] = Append(@, j)], data, deferred,
               (added \ ended) \cup {j})
      BY <1>0, <3>1, KeptAppend
    <3>. QED
      BY <2>1, <2>2, <3>2
  <2>4. Bounded(handler')
    BY <1>0, <2>1, MaybeSolveTypes
  <2>. QED
    BY <1>0, <1>a, <1>b, <2>1, <2>3, <2>4
<1>6. ASSUME NEW c \in Convs, Begin(c) PROVE IInv'
  <2>1. /\ Attempt(c) /\ run[c].step = "queued"
        /\ UNCHANGED <<handler, added, ended, lane, deferred, data, idle,
                   timeouts, waiter, challenged>>
    BY <1>6 DEF Begin, At
  <2>2. run[c].attempt < MaxAttempts
    BY <1>0, <2>1, ConversationJobQueueAssumption DEF RunInv
  <2>3. data[c].retryAt \in Times
    BY <1>0 DEF DataType
  <2>4. RunInv'
    BY <1>0, <2>1, <2>2, <2>3, AttemptRuns
  <2>. QED
    BY <1>0, <1>a, <1>b, <2>1, <2>4
<1>7. ASSUME NEW c \in Convs, Load(c) PROVE IInv'
  <2>0. /\ lane[c] # <<>>
        /\ UNCHANGED <<handler, added, ended, data, idle, timeouts, waiter,
                   challenged>>
    BY <1>7 DEF Load, At
  <2>1. CASE run[c].stale /\ Head(lane[c]) \in Silent
    <3>1. /\ deferred' = deferred \cup {Head(lane[c])}
          /\ lane' = [lane EXCEPT ![c] = Tail(@)] /\ GoOn(c)
      BY <1>7, <2>1 DEF Load
    <3>2. RunInv'
      BY <1>0, <3>1, GoOnRuns
    <3>. QED
      BY <1>0, <1>a, <1>b, <2>0, <3>1, <3>2, KeptTail
  <2>2. CASE ~(run[c].stale /\ Head(lane[c]) \in Silent)
    <3>1. /\ run' = [run EXCEPT ![c].step = "checking", ![c].stale = FALSE]
          /\ UNCHANGED <<lane, deferred>>
      BY <1>7, <2>2 DEF Load
    <3>2. RunInv'
      BY <1>0, <3>1, StepRuns DEF Steps
    <3>. QED
      BY <1>0, <1>a, <1>b, <2>0, <3>1, <3>2
  <2>. QED
    BY <2>1, <2>2
<1>8. ASSUME NEW c \in Convs, GiveUp(c) PROVE IInv'
  <2>1. /\ lane[c] # <<>> /\ GoOn(c)
        /\ ended' = ended \cup {Head(lane[c])}
        /\ lane' = [lane EXCEPT ![c] = Tail(@)]
        /\ UNCHANGED <<handler, added, deferred, data, idle, timeouts, waiter,
                   challenged>>
    BY <1>8 DEF GiveUp, At
  <2>2. /\ Head(lane[c]) \in added \ ended
        /\ Kept(lane', data, deferred, (added \ ended) \ {Head(lane[c])})
    BY <1>0, <2>1, KeptTail
  <2>3. added' \ ended' = (added \ ended) \ {Head(lane[c])}
    BY <2>1
  <2>. QED
    BY <1>0, <1>a, <1>b, <2>1, <2>2, <2>3, GoOnRuns
<1>9. ASSUME NEW c \in Convs, Continue(c) PROVE IInv'
  <2>0. UNCHANGED <<added, ended, deferred, idle, challenged>>
    BY <1>9 DEF Continue
  <2>1. CASE c \notin handler.registered
    <3>1. /\ Unblock(c, handler, lane[c])
          /\ run' = [run EXCEPT ![c].step = "sending"]
          /\ UNCHANGED waiter
      BY <1>9, <2>1 DEF Continue
    <3>2. [lane EXCEPT ![c] = lane[c]] = lane
      BY <1>0
    <3>3. /\ Bounded(handler') /\ Triggered'
          /\ Kept(lane', data', deferred, added \ ended)
      BY <1>0, <2>0, <3>1, <3>2, UnblockFacts
    <3>4. RunInv'
      BY <1>0, <3>1, StepRuns DEF Steps
    <3>. QED
      BY <1>0, <1>a, <2>0, <3>1, <3>3, <3>4
  <2>2. CASE c \in handler.registered
    <3>1. /\ \/ run' = [run EXCEPT ![c].step = "sending"]
             \/ run' = [run EXCEPT ![c].step = "waiting"]
          /\ waiter' \subseteq waiter \cup {c}
          /\ handler' \in {handler, MaybeSolve(handler, c)}
          /\ UNCHANGED <<lane, data, timeouts>>
      BY <1>9, <2>2 DEF Continue
    <3>2. RunInv'
      BY <1>0, <3>1, StepRuns DEF Steps
    <3>3. Bounded(handler')
      BY <1>0, <3>1, MaybeSolveTypes
    <3>. QED
      BY <1>0, <1>a, <1>b, <2>0, <3>1, <3>2, <3>3
  <2>. QED
    BY <2>1, <2>2
<1>10. ASSUME NEW c \in Convs, WaitEnds(c) PROVE IInv'
  <2>1. /\ run' = [run EXCEPT ![c].step = "checking"]
        /\ UNCHANGED <<handler, added, ended, lane, deferred, data, idle,
                   timeouts, waiter, challenged>>
    BY <1>10 DEF WaitEnds
  <2>2. RunInv'
    BY <1>0, <2>1, StepRuns DEF Steps
  <2>. QED
    BY <1>0, <1>a, <1>b, <2>1, <2>2
<1>11. ASSUME NEW c \in Convs, Succeed(c) PROVE IInv'
  <2>1. /\ lane[c] # <<>> /\ GoOn(c)
        /\ ended' = ended \cup {Head(lane[c])}
        /\ UNCHANGED <<added, deferred, idle, waiter, challenged>>
    BY <1>11 DEF Succeed, At
  <2> DEFINE l == [lane EXCEPT ![c] = Tail(lane[c])]
             A == (added \ ended) \ {Head(lane[c])}
  <2>2. /\ Head(lane[c]) \in added \ ended /\ Kept(l, data, deferred, A)
    BY <1>0, <2>1, KeptTail
  <2>3. added' \ ended' = A
    BY <2>1
  <2>4. RunInv'
    BY <1>0, <2>1, GoOnRuns
  <2>5. CASE data[c].status = "blocked with jobs"
    <3>1. Unblock(c, handler, Tail(lane[c]))
      BY <1>11, <2>5 DEF Succeed
    <3>. HIDE DEF A
    <3>2. Bounded(handler') /\ Triggered' /\ Kept(lane', data', deferred, A)
      BY <1>0, <2>1, <2>2, <3>1, UnblockFacts
    <3>. QED
      BY <1>0, <1>a, <2>1, <2>2, <2>3, <2>4, <3>2
  <2>6. CASE data[c].status # "blocked with jobs"
    <3>1. /\ data' = [data EXCEPT ![c] = NoData] /\ lane' = l
          /\ UNCHANGED <<handler, timeouts>>
      BY <1>11, <2>6 DEF Succeed
    <3>2. NoData \in DataType /\ NoData.held = <<>> /\ NoData.status = "none"
      BY EmptySeq DEF NoData, DataType, Statuses, Times
    <3>3. data[c].held = <<>>
      BY <1>0, <2>6 DEF Triggered, HeldAreBlocked
    <3>4. /\ data' \in [Convs -> DataType]
          /\ \A b \in Convs : data'[b].held = data[b].held
      BY <1>0, <3>1, <3>2, <3>3
    <3>. HIDE DEF A, l
    <3>5. Kept(lane', data', deferred, A)
      BY <2>2, <3>1, <3>4, KeptStatus
    <3>6. Triggered'
      BY <1>0, <2>1, <3>1, <3>2
         DEF Triggered, HeldAreBlocked, BlockedHaveATrigger
    <3>. QED
      BY <1>0, <1>a, <2>1, <2>2, <2>3, <2>4, <3>1, <3>5, <3>6
  <2>. QED
    BY <2>5, <2>6
<1>12. ASSUME NEW c \in Convs, Fail(c) PROVE IInv'
  <2>1. /\ lane[c] # <<>> /\ Throw(c)
        /\ UNCHANGED <<handler, added, deferred, data, idle, timeouts, waiter,
                   challenged>>
    BY <1>12 DEF Fail, At
  <2>2. /\ RunInv' /\ ended' \subseteq added'
        /\ Kept(lane', data, deferred', added' \ ended')
    BY <2>1, ThrowFacts
  <2>. QED
    BY <1>0, <1>a, <1>b, <2>1, <2>2
<1>13. ASSUME NEW c \in Convs, Challenge(c) PROVE IInv'
  <2> DEFINE j == Head(lane[c])
  <2>1. /\ lane[c] # <<>> /\ challenged < MaxChallenges
        /\ challenged' = challenged + 1
        /\ UNCHANGED <<added, idle, timeouts, waiter>>
    BY <1>13 DEF Challenge, At
  <2>2. challenged' \in 0..MaxChallenges
    BY <1>0, <2>1, ConversationJobQueueAssumption
  <2>3. Bounded(handler')
    <3>1. PICK offer \in Offers : handler' = Register(handler,
              [conv |-> c, silent |-> j \in Silent,
               retryAt |-> offer.retryAt, token |-> offer.token])
      BY <1>13 DEF Challenge
    <3>2. [conv |-> c, silent |-> j \in Silent, retryAt |-> offer.retryAt,
           token |-> offer.token] \in Challenges
      BY ConversationJobQueueAssumption DEF Challenges
    <3>. QED
      BY <1>0, <3>1, <3>2, RegisterTypes
  <2>4. CASE j \in Silent
    <3>1. /\ CaptureRetryAt(c) /\ GoOn(c) /\ UNCHANGED ended
          /\ deferred' = deferred \cup {j}
          /\ lane' = [lane EXCEPT ![c] = Tail(@)]
      BY <1>13, <2>4 DEF Challenge
    <3>2. /\ j \in Jobs /\ Kept(lane', data, deferred', added' \ ended')
      BY <1>0, <2>1, <3>1, KeptTail
    <3>3. /\ data' \in [Convs -> DataType]
          /\ \A b \in Convs : data'[b].held = data[b].held
          /\ \A b \in Convs : data'[b].status = "blocked with jobs"
                                <=> data[b].status = "blocked with jobs"
      <4> DEFINE status == IF data[c].status = "blocked with jobs"
                           THEN data[c].status ELSE "blocked"
      <4>1. \/ data' = data
            \/ data' = [data EXCEPT ![c] = Data(status, "future", data[c].held)]
        BY <1>0, <3>1 DEF CaptureRetryAt
      <4>2. /\ status \in Statuses
            /\ status = "blocked with jobs"
                  <=> data[c].status = "blocked with jobs"
        BY DEF Statuses
      <4>. HIDE DEF status
      <4>3. /\ Data(status, "future", data[c].held) \in DataType
            /\ Data(status, "future", data[c].held).held = data[c].held
            /\ Data(status, "future", data[c].held).status = status
        BY <1>0, <4>2 DEF Data, DataType, Times
      <4>. HIDE DEF Data
      <4>. QED
        BY <1>0, <4>1, <4>2, <4>3
    <3>4. Kept(lane', data', deferred', added' \ ended')
      BY <3>2, <3>3, KeptStatus
    <3>5. Triggered'
      BY <1>0, <2>1, <3>3 DEF Triggered, HeldAreBlocked, BlockedHaveATrigger
    <3>6. RunInv'
      BY <1>0, <3>1, GoOnRuns
    <3>. QED
      BY <1>0, <1>a, <2>1, <2>2, <2>3, <3>1, <3>2, <3>4, <3>5, <3>6
  <2>5. CASE j \notin Silent
    <3>1. Throw(c) /\ UNCHANGED <<deferred, data>>
      BY <1>13, <2>5 DEF Challenge
    <3>2. /\ RunInv' /\ ended' \subseteq added'
          /\ Kept(lane', data, deferred', added' \ ended')
      BY <2>1, <3>1, ThrowFacts
    <3>. QED
      BY <1>0, <1>a, <1>b, <2>1, <2>2, <2>3, <3>1, <3>2
  <2>. QED
    BY <2>4, <2>5
<1>14. ASSUME NEW j \in Jobs, RetryJobOnQueueIdle(j) PROVE IInv'
  <2> DEFINE c == ConvOf[j]
             r == Data("blocked with jobs",
                       IF data[c].status \in {"none", "running"} THEN "future"
                       ELSE data[c].retryAt, Append(data[c].held, j))
  <2>0. c \in Convs
    BY ConversationJobQueueAssumption
  <2>1. /\ j \in deferred /\ deferred' = deferred \ {j}
        /\ data' = [data EXCEPT ![c] = r]
        /\ timeouts' = [timeouts EXCEPT ![c] = IF "kept" \in @ THEN {"lost"} ELSE @]
        /\ idle' = IF data[c].status = "blocked with jobs" THEN idle
                   ELSE idle \cup {c}
        /\ UNCHANGED <<handler, added, ended, lane, run, waiter, challenged>>
    BY <1>0, <1>14, <2>0 DEF RetryJobOnQueueIdle
  <2>2. Append(data[c].held, j) \in Seq(Jobs)
    BY <1>0, <2>0, AppendFacts DEF DataType
  <2>3. /\ r \in DataType /\ r.held = Append(data[c].held, j)
        /\ r.status = "blocked with jobs"
    BY <1>0, <2>0, <2>2 DEF Data, DataType, Statuses, Times
  <2>. HIDE DEF r
  <2>4. Kept(lane', data', deferred', added' \ ended')
    BY <1>0, <2>1, <2>3, KeptHold
  <2>5. Triggered'
    BY <1>0, <2>0, <2>1, <2>3 DEF Triggered, HeldAreBlocked, BlockedHaveATrigger
  <2>6. Rest'
    BY <1>0, <2>0, <2>1
  <2>. QED
    BY <1>0, <1>a, <1>b, <2>1, <2>4, <2>5, <2>6
<1>15. CASE UNCHANGED vars
  BY <1>0, <1>15, <1>a, <1>b DEF vars
<1>. QED
  BY <1>1, <1>2, <1>3, <1>4, <1>5, <1>6, <1>7, <1>8, <1>9, <1>10, <1>11, <1>12,
     <1>13, <1>14, <1>15 DEF Next, Work, RunSteps, Comes

-----------------------------------------------------------------------------
\* A process begins with the challenges that the last one has left.
LEMMA Initially == Init => IInv
<1>. SUFFICES ASSUME Init PROVE IInv
  OBVIOUS
<1>1. Bounded(handler)
  <2>1. handler = Loaded(Stored) /\ Stored \subseteq Challenges
    BY ConversationJobQueueAssumption DEF Init
  <2>2. \A x \in Stored : x.conv \in Convs
    BY <2>1 DEF Challenges
  <2>3. handler \in HandlerType
    BY <2>1, <2>2 DEF Loaded, HandlerType, Times
  <2>4. handler.asked = 0 /\ handler.sending = 0 /\ handler.events = 0
    BY <2>1 DEF Loaded
  <2>. QED
    BY <2>3, <2>4, ConversationJobQueueAssumption DEF Bounded
<1>2. RunInv
  BY ConversationJobQueueAssumption DEF Init, RunInv, NotBegun, RunType, Steps
<1>3. /\ NoData \in DataType /\ NoData.held = <<>>
      /\ NoData.status # "blocked with jobs"
  BY EmptySeq DEF NoData, DataType, Statuses, Times
<1>4. QueueTypes /\ HeldAreBlocked /\ BlockedHaveATrigger
  <2>1. /\ data \in [Convs -> DataType]
        /\ \A c \in Convs : data[c].held = <<>>
                            /\ data[c].status # "blocked with jobs"
    BY <1>3 DEF Init
  <2>2. lane \in [Convs -> Seq(Jobs)] /\ challenged \in 0..MaxChallenges
    BY EmptySeq, ConversationJobQueueAssumption DEF Init
  <2>. QED
    BY <2>1, <2>2 DEF Init, QueueTypes, HeldAreBlocked, BlockedHaveATrigger
<1>5. JobsKept
  BY <1>3, EmptySeq, EmptyFacts, ConversationJobQueueAssumption
     DEF Init, JobsKept, Kept, Placed
<1>. QED
  BY <1>1, <1>2, <1>4, <1>5 DEF IInv

\* The inductive invariant: the handler is bounded, jobs are held in one state,
\* which has a trigger, and each job is in one place.
THEOREM Invariance == Spec => []IInv
BY Initially, Inductive, PTL DEF Spec

\* Every variable keeps its type, and the captchas asked for at once their bound.
THEOREM TypeCorrect == Spec => []TypeOK
<1>1. ASSUME IInv PROVE TypeOK
  <2>1. HandlerTypeOK
    <3>1. /\ handler \in HandlerType /\ MaxEvents \in Nat
          /\ handler.asked + handler.sending <= handler.events
          /\ handler.events <= MaxEvents
      BY <1>1, ConversationJobQueueAssumption DEF IInv, Bounded
    <3>2. handler.asked \in 0..MaxEvents /\ handler.sending \in 0..MaxEvents
      BY <3>1 DEF HandlerType
    <3>. QED
      BY <3>1, <3>2 DEF HandlerTypeOK, HandlerType, Times
  <2>. QED
    BY <1>1, <2>1 DEF IInv, TypeOK, QueueTypes, RunInv, RunType, DataType, Times
<1>2. IInv => TypeOK
  BY <1>1
<1>. QED
  BY Invariance, <1>2, PTL

\* Jobs that were put aside are tried again: a wait for the idle queue or a
\* timeout is there for as long as they are (retryJobOnQueueIdle).
THEOREM TriggersRemain == Spec => []HeldJobsHaveATrigger
<1>1. IInv => HeldJobsHaveATrigger
  BY DEF IInv, HeldAreBlocked, BlockedHaveATrigger, HeldJobsHaveATrigger
<1>. QED
  BY Invariance, <1>1, PTL

\* A job that has not ended is in memory once, and one that has is not: neither
\* a callback nor an unblocking queues a job twice (createRetryCallback,
\* #unblockConversationRetries).
THEOREM JobsAreOnce == Spec => []EveryJobOnce
<1>1. ASSUME IInv, NEW j \in Jobs
      PROVE  Copies(lane[ConvOf[j]], j) + Copies(data[ConvOf[j]].held, j)
                 + Cardinality(deferred \cap {j})
               = IF j \in added \ ended THEN 1 ELSE 0
  <2> DEFINE q == lane[ConvOf[j]]
             h == data[ConvOf[j]].held
  <2>1. Placed(q, h, deferred, added \ ended, j)
    BY <1>1 DEF IInv, JobsKept, Kept
  <2>. HIDE DEF q, h
  <2>2. /\ Copies(q, j) = IF j \in ToSet(q) THEN 1 ELSE 0
        /\ Copies(h, j) = IF j \in ToSet(h) THEN 1 ELSE 0
    BY <2>1, OnceIsOnePlace DEF Placed, Copies
  <2>3. Cardinality(deferred \cap {j}) = IF j \in deferred THEN 1 ELSE 0
    <3>1. deferred \cap {j} = IF j \in deferred THEN {j} ELSE {}
      OBVIOUS
    <3>. QED
      BY <3>1, FS_EmptySet, FS_Singleton
  <2>4. Copies(q, j) + Copies(h, j) + Cardinality(deferred \cap {j})
               = IF j \in added \ ended THEN 1 ELSE 0
    BY <2>1, <2>2, <2>3 DEF Placed
  <2>. QED
    BY <2>4 DEF q, h
<1>2. IInv => EveryJobOnce
  BY <1>1 DEF EveryJobOnce
<1>. QED
  BY Invariance, <1>2, PTL
=============================================================================
