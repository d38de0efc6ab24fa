---------------------------- MODULE JobQueueProofs ----------------------------
(***************************************************************************)
(* The safety of JobQueue, for any jobs, queues, attempts, crashes, pauses *)
(* and shutdowns.                                                          *)
(***************************************************************************)
EXTENDS JobQueue, SequenceFacts, TLAPS

\* The conjuncts of TypeOK about what is in memory, and about the rest.
QueueTypes ==
    /\ fetched \in Seq(Jobs) /\ stream \in Seq(Jobs)
    /\ held \subseteq Jobs /\ Cardinality(held) <= 1
    /\ lane \in [Keys -> Seq(Jobs)]
    /\ ending \in Seq([job : Jobs, result : Results])

FlagTypes ==
    /\ broken \in BOOLEAN /\ paused \in BOOLEAN /\ shuttingDown \in BOOLEAN

StateTypes ==
    /\ fetch \in {"none", "asked", "read", "done"}
    /\ adding \in [Jobs -> {"none", "inserting", "detached", "waiting",
                            "persisting", "done", "gone"}]
    /\ completion \in [Jobs -> {"none", "open", "resolved", "rejected"}]
    /\ draining \subseteq Keys
    /\ rows \subseteq Jobs /\ overlooked \subseteq Jobs /\ ended \subseteq Jobs
    /\ before \in [Jobs -> SUBSET Jobs]
    /\ attempt \in [Jobs -> 0..MaxAttempts]

\* A queue in memory has the jobs of its key, and a job that is executed is the
\* head of its queue.
LanesByKey == \A k \in Keys : \A j \in ToSet(lane[k]) : KeyOf[j] = k

HeadsRun == \A j \in Jobs : attempt[j] > 0 => Runs(KeyOf[j], j)

\* shutdown() waits for every queue that executes a job.
ShutdownWaits ==
    shuttingDown => \A j \in Jobs : attempt[j] > 0 => KeyOf[j] \in draining

\* Only jobs that have had their result are deleted.
DeletesFollowResults == Deleting \subseteq ended

RunInv ==
    /\ TypeOK /\ LanesByKey /\ HeadsRun /\ ShutdownWaits
    /\ DeletesFollowResults

\* Before the fetch is answered nothing is in memory but what it has read, and
\* the loop is left only by a shutdown.
NothingBeforeTheFetch ==
    /\ fetch # "done" =>
          stream = <<>> /\ held = {} /\ \A k \in Keys : lane[k] = <<>>
    /\ fetch # "read" => fetched = <<>>
    /\ broken => shuttingDown

\* The inserts under way are those that the state of the fetch allows.
InsertsKnowTheFetch ==
    \A j \in Jobs :
        /\ adding[j] = "persisting" => fetch = "done"
        /\ adding[j] = "waiting" => fetch \in {"asked", "read"}
        /\ adding[j] = "inserting" => j \in Own
        /\ adding[j] \in {"persisting", "detached"} => j \notin Own

\* Between the fetch and its answer, a row has been read, or its insert waits
\* for the answer, or nobody will be told of it.
FetchSeesTheTable ==
    fetch = "read" =>
        rows \subseteq ToSet(fetched) \cup overlooked
                         \cup {j \in Own : adding[j] = "waiting"}

FetchInv ==
    /\ RunInv /\ NothingBeforeTheFetch /\ InsertsKnowTheFetch
    /\ FetchSeesTheTable /\ NothingForgotten

\* A job whose row has never been written is nowhere.
Unwritten(j) ==
    \/ adding[j] \in {"none", "inserting"}
    \/ j \notin Own /\ adding[j] \in {"waiting", "persisting", "detached"}

UnwrittenIsNowhere ==
    \A j \in Jobs : Unwritten(j) =>
        j \notin rows \cup ToSet(fetched) \cup InMemory

\* A job that store.insert has persisted is in one place, and there once.
OnePlace ==
    \A j \in Jobs \ Own :
        /\ Once(fetched, j) /\ Once(stream, j) /\ Once(lane[KeyOf[j]], j)
        /\ j \in held => j \notin ToSet(stream) \cup ToSet(lane[KeyOf[j]])
        /\ j \in ToSet(stream) => j \notin ToSet(lane[KeyOf[j]])

OnceInv == FetchInv /\ UnwrittenIsNowhere /\ OnePlace

\* The jobs that were there before a job are earlier ones of its queue, and
\* add() is called for the jobs in their order.
BeforeIsEarlier ==
    \A j \in Jobs :
        /\ adding[j] # "none" => \A i \in Jobs : i < j => adding[i] # "none"
        /\ \A i \in before[j] :
              /\ i < j /\ KeyOf[i] = KeyOf[j]
              /\ adding[i] = "done" /\ adding[j] # "none"

\* The jobs that must have begun before job j does.
Waited(j) == (before[j] \cap rows) \ (overlooked \cup Deleting)

\* Wherever j is, i is ahead of it, or a shutdown has let go of i, after which
\* j does not run.
Ordered(j, i) ==
    /\ Follows(fetched, j, i)
    /\ \/ Follows(stream, j, i)
       \/ shuttingDown
       \/ i \in held \cup ToSet(lane[KeyOf[j]])
    /\ j \in held => shuttingDown \/ i \in ToSet(lane[KeyOf[j]])
    /\ \/ Follows(lane[KeyOf[j]], j, i)
       \/ shuttingDown /\ attempt[j] = 0

OrderKept == \A j \in Jobs : \A i \in Waited(j) : Ordered(j, i)

IInv == OnceInv /\ BeforeIsEarlier /\ OrderKept

\* The jobs of all queues in memory.
InLanes == UNION {ToSet(lane[k]) : k \in Keys}

-----------------------------------------------------------------------------
\* ORDER BY timestamp gives every row, once, and in order.
LEMMA ByTimestampFacts ==
    ASSUME NEW T \in SUBSET Jobs
    PROVE  /\ ByTimestamp(T) \in Seq(Jobs)
           /\ ToSet(ByTimestamp(T)) = T
           /\ \A j : Once(ByTimestamp(T), j)
           /\ \A i, j \in T : i < j => Follows(ByTimestamp(T), j, i)
<1> DEFINE t == ByTimestamp(T)
<1>1. T \in SUBSET Nat /\ IsFiniteSet(T)
  BY JobQueueAssumption, FS_Subset
<1>2. PICK s : Sorting(s, T)
  BY <1>1, SortExists
<1>3. Sorting(t, T)
  BY <1>2 DEF Sorting, ByTimestamp
<1> HIDE DEF t
<1>4. t \in Seq(T) /\ ToSet(t) = T /\ (\A j : Once(t, j))
      /\ \A i, j \in T : i < j => Follows(t, j, i)
  BY <1>1, <1>3, SortedFacts
<1>5. t \in Seq(Jobs)
  <2>1. \A i \in DOMAIN t : t[i] \in Jobs
    BY <1>4, LenProperties, ElementOfSeq
  <2>. QED
    BY <1>4, <2>1, SeqDef, LenProperties
<1>. QED
  BY <1>4, <1>5 DEF t

-----------------------------------------------------------------------------
\* TypeOK is the conjunction of its three parts.
LEMMA TypeParts == TypeOK <=> QueueTypes /\ FlagTypes /\ StateTypes
BY DEF TypeOK, QueueTypes, FlagTypes, StateTypes, JobSeqs

\* A set of at most one job, and what one result adds to the deletes.
LEMMA SmallSets ==
    /\ Cardinality({}) <= 1
    /\ \A j : Cardinality({j}) <= 1
BY FS_EmptySet, FS_Singleton

\* What enqueueStoredJob keeps.
LEMMA EnqueueTypes ==
    ASSUME QueueTypes, NEW j \in Jobs, Enqueue(j)
    PROVE  /\ lane' \in [Keys -> Seq(Jobs)]
           /\ ending' \in Seq([job : Jobs, result : Results])
           /\ ended \subseteq Jobs => ended' \subseteq Jobs
<1>1. KeyOf[j] \in Keys
  BY JobQueueAssumption
<1>2. CASE j \in Bad
  <2>1. [job |-> j, result |-> "unparsed"] \in [job : Jobs, result : Results]
    BY DEF Results
  <2>2. Append(ending, [job |-> j, result |-> "unparsed"])
           \in Seq([job : Jobs, result : Results])
    BY <2>1, AppendProperties DEF QueueTypes
  <2>. QED
    BY <1>2, <2>2 DEF Enqueue, QueueTypes
<1>3. CASE j \notin Bad
  <2>1. Append(lane[KeyOf[j]], j) \in Seq(Jobs)
    BY <1>1, AppendProperties DEF QueueTypes
  <2>. QED
    BY <1>1, <1>3, <2>1 DEF Enqueue, QueueTypes
<1>. QED
  BY <1>2, <1>3

\* What the end of a run keeps.
LEMMA EndTypes ==
    ASSUME TypeOK, NEW k \in Keys, NEW j \in Jobs, lane[k] # <<>>,
           NEW result \in Results, End(k, j, result)
    PROVE  /\ lane' \in [Keys -> Seq(Jobs)]
           /\ ending' \in Seq([job : Jobs, result : Results])
           /\ attempt' \in [Jobs -> 0..MaxAttempts]
           /\ completion' \in [Jobs -> {"none", "open", "resolved", "rejected"}]
           /\ draining' \subseteq Keys /\ ended' \subseteq Jobs
<1>. USE TypeParts
<1>1. Tail(lane[k]) \in Seq(Jobs)
  BY HeadTailProperties DEF QueueTypes
<1>2. Append(ending, [job |-> j, result |-> result])
         \in Seq([job : Jobs, result : Results])
  <2>1. [job |-> j, result |-> result] \in [job : Jobs, result : Results]
    OBVIOUS
  <2>. QED
    BY <2>1, AppendProperties DEF QueueTypes
<1>3. lane' \in [Keys -> Seq(Jobs)]
  BY <1>1 DEF End, QueueTypes
<1>4. ending' \in Seq([job : Jobs, result : Results])
  BY <1>2 DEF End, QueueTypes
<1>5. attempt' \in [Jobs -> 0..MaxAttempts]
  BY JobQueueAssumption DEF End, StateTypes
<1>6. completion' \in [Jobs -> {"none", "open", "resolved", "rejected"}]
  BY DEF End, Settled, StateTypes
<1>7. draining' \subseteq Keys /\ ended' \subseteq Jobs
  BY DEF End, StateTypes
<1>. QED
  BY <1>3, <1>4, <1>5, <1>6, <1>7

\* What another attempt keeps.
LEMMA AttemptTypes ==
    ASSUME TypeOK, NEW k \in Keys, NEW j \in Jobs, lane[k] # <<>>,
           attempt[j] # MaxAttempts, Attempt(k, j)
    PROVE  /\ lane' \in [Keys -> Seq(Jobs)]
           /\ ending' \in Seq([job : Jobs, result : Results])
           /\ attempt' \in [Jobs -> 0..MaxAttempts]
           /\ completion' \in [Jobs -> {"none", "open", "resolved", "rejected"}]
           /\ draining' \subseteq Keys /\ ended' \subseteq Jobs
<1>1. CASE shuttingDown
  <2>1. "shutdown" \in Results
    BY DEF Results
  <2>. QED
    BY <1>1, <2>1, EndTypes DEF Attempt
<1>2. CASE ~shuttingDown
  <2>1. attempt' \in [Jobs -> 0..MaxAttempts]
    BY <1>2, JobQueueAssumption DEF Attempt, TypeOK
  <2>. QED
    BY <1>2, <2>1 DEF Attempt, TypeOK, JobSeqs
<1>. QED
  BY <1>1, <1>2

\* The next process finds memory of its types.
LEMMA NextProcessTypes ==
    ASSUME TypeOK, EndProcess PROVE TypeOK'
<1>1. QueueTypes'
  BY EmptySeq, SmallSets DEF EndProcess, QueueTypes
<1>2. FlagTypes'
  BY DEF EndProcess, FlagTypes
<1>3. StateTypes'
  <2>1. rows' \subseteq Jobs
    BY TypeParts DEF EndProcess, StateTypes, Served, Inserting
  <2>2. attempt' \in [Jobs -> 0..MaxAttempts]
    BY JobQueueAssumption DEF EndProcess
  <2>. QED
    BY <2>1, <2>2, TypeParts DEF EndProcess, StateTypes
<1>. QED
  BY <1>1, <1>2, <1>3, TypeParts
     DEF TypeOK, QueueTypes, FlagTypes, StateTypes, JobSeqs

\* The types are kept, an action by an action.
LEMMA TypeStep == TypeOK /\ [Next]_vars => TypeOK'
<1>. SUFFICES ASSUME TypeOK, [Next]_vars
              PROVE  QueueTypes' /\ FlagTypes' /\ StateTypes'
  BY DEF TypeOK, QueueTypes, FlagTypes, StateTypes, JobSeqs
<1>0. QueueTypes /\ FlagTypes /\ StateTypes
  BY TypeParts
<1>1. ASSUME NEW j \in Jobs, Add(j)
      PROVE  QueueTypes' /\ FlagTypes' /\ StateTypes'
  <2>1. adding' \in [Jobs -> {"none", "inserting", "detached", "waiting",
                             "persisting", "done", "gone"}]
    BY <1>0, <1>1 DEF Add, Awaited, StateTypes
  <2>2. before' \in [Jobs -> SUBSET Jobs]
    BY <1>0, <1>1 DEF Add, Returned, StateTypes
  <2>3. completion' \in [Jobs -> {"none", "open", "resolved", "rejected"}]
    BY <1>0, <1>1 DEF Add, StateTypes
  <2>4. StateTypes'
    BY <1>0, <1>1, <2>1, <2>2, <2>3 DEF Add, streaming, flags, StateTypes
  <2>. QED
    BY <1>0, <1>1, <2>4 DEF Add, streaming, flags, QueueTypes, FlagTypes
<1>2. ASSUME NEW j \in Jobs, Inserted(j)
      PROVE  QueueTypes' /\ FlagTypes' /\ StateTypes'
  <2>1. stream' \in Seq(Jobs)
    <3>1. Append(stream, j) \in Seq(Jobs)
      BY <1>0, AppendProperties DEF QueueTypes
    <3>. QED
      BY <1>0, <1>2, <3>1 DEF Inserted, QueueTypes
  <2>2. StateTypes'
    BY <1>0, <1>2 DEF Inserted, running, flags, ghosts, StateTypes
  <2>. QED
    BY <1>0, <1>2, <2>1, <2>2
       DEF Inserted, running, flags, QueueTypes, FlagTypes
<1>3. ASSUME NEW j \in Jobs, Persisted(j)
      PROVE  QueueTypes' /\ FlagTypes' /\ StateTypes'
  <2>1. stream' \in Seq(Jobs)
    <3>1. Append(stream, j) \in Seq(Jobs)
      BY <1>0, AppendProperties DEF QueueTypes
    <3>. QED
      BY <1>0, <1>3, <3>1 DEF Persisted, QueueTypes
  <2>2. StateTypes'
    BY <1>0, <1>3 DEF Persisted, running, flags, StateTypes
  <2>. QED
    BY <1>0, <1>3, <2>1, <2>2
       DEF Persisted, running, flags, QueueTypes, FlagTypes
<1>4. ASSUME NEW j \in Jobs, Refused(j)
      PROVE  QueueTypes' /\ FlagTypes' /\ StateTypes'
  BY <1>0, <1>4
     DEF Refused, streaming, running, flags, ghosts, QueueTypes, FlagTypes,
         StateTypes
<1>5. CASE StreamJobs
  BY <1>0, <1>5
     DEF StreamJobs, running, flags, ghosts, QueueTypes, FlagTypes, StateTypes
<1>6. CASE GetJobsInQueue
  <2>1. fetched' \in Seq(Jobs)
    BY <1>0, <1>6, ByTimestampFacts DEF GetJobsInQueue, StateTypes
  <2>. QED
    BY <1>0, <1>6, <2>1
       DEF GetJobsInQueue, running, flags, ghosts, QueueTypes, FlagTypes,
           StateTypes
<1>7. CASE FetchReturns
  <2>. DEFINE waiting == {j \in Jobs : adding[j] = "waiting"}
  <2>1. ByTimestamp(waiting \cap Own) \in Seq(Jobs)
    BY ByTimestampFacts
  <2>2. fetched \o stream \in Seq(Jobs)
    BY <1>0, ConcatProperties DEF QueueTypes
  <2>3. stream' \in Seq(Jobs) /\ fetched' \in Seq(Jobs)
    BY <1>7, <2>1, <2>2, ConcatProperties, EmptySeq DEF FetchReturns
  <2>4. StateTypes'
    BY <1>0, <1>7 DEF FetchReturns, running, flags, ghosts, StateTypes
  <2>. QED
    BY <1>0, <1>7, <2>3, <2>4
       DEF FetchReturns, running, flags, QueueTypes, FlagTypes
<1>8. CASE Take
  <2>1. Head(stream) \in Jobs /\ Tail(stream) \in Seq(Jobs)
    BY <1>0, <1>8, HeadTailProperties DEF Take, QueueTypes
  <2>2. CASE shuttingDown
    BY <1>0, <1>8, <2>1, <2>2 DEF Take, flags, QueueTypes, FlagTypes, StateTypes
  <2>3. CASE ~shuttingDown /\ paused
    BY <1>0, <1>8, <2>1, <2>3, SmallSets
       DEF Take, flags, QueueTypes, FlagTypes, StateTypes
  <2>4. CASE ~shuttingDown /\ ~paused
    BY <1>0, <1>8, <2>1, <2>4, EnqueueTypes
       DEF Take, flags, QueueTypes, FlagTypes, StateTypes
  <2>. QED
    BY <1>0, <2>2, <2>3, <2>4 DEF FlagTypes
<1>9. CASE Release
  <2>1. PICK j \in held : Enqueue(j)
    BY <1>9 DEF Release
  <2>2. j \in Jobs
    BY <1>0, <2>1 DEF QueueTypes
  <2>. QED
    BY <1>0, <1>9, <2>1, <2>2, EnqueueTypes, SmallSets
       DEF Release, flags, QueueTypes, FlagTypes, StateTypes
<1>10. ASSUME NEW k \in Keys, NEW j \in Jobs, Begin(k, j)
       PROVE  QueueTypes' /\ FlagTypes' /\ StateTypes'
  <2>1. lane[k] # <<>> /\ attempt[j] # MaxAttempts
    BY <1>10, JobQueueAssumption DEF Begin, Runs
  <2>. QED
    BY <1>0, <1>10, <2>1, AttemptTypes
       DEF Begin, streaming, QueueTypes, FlagTypes, StateTypes
<1>11. ASSUME NEW k \in Keys, NEW j \in Jobs, RunReturns(k, j)
       PROVE  QueueTypes' /\ FlagTypes' /\ StateTypes'
  <2>1. PICK result \in {"success", "retry"} : End(k, j, result)
    BY <1>11 DEF RunReturns
  <2>2. result \in Results /\ lane[k] # <<>>
    BY <1>11 DEF Results, RunReturns, Runs
  <2>. QED
    BY <1>0, <1>11, <2>1, <2>2, EndTypes
       DEF RunReturns, streaming, QueueTypes, FlagTypes, StateTypes
<1>12. ASSUME NEW k \in Keys, NEW j \in Jobs, RunThrows(k, j)
       PROVE  QueueTypes' /\ FlagTypes' /\ StateTypes'
  <2>1. lane[k] # <<>> /\ "failed" \in Results
    BY <1>12 DEF RunThrows, Runs, Results
  <2>2. /\ lane' \in [Keys -> Seq(Jobs)]
        /\ ending' \in Seq([job : Jobs, result : Results])
        /\ attempt' \in [Jobs -> 0..MaxAttempts]
        /\ completion' \in [Jobs -> {"none", "open", "resolved", "rejected"}]
        /\ draining' \subseteq Keys /\ ended' \subseteq Jobs
    BY <1>12, <2>1, AttemptTypes, EndTypes DEF RunThrows
  <2>. QED
    BY <1>0, <1>12, <2>2
       DEF RunThrows, streaming, QueueTypes, FlagTypes, StateTypes
<1>13. CASE DeleteReturns
  <2>1. /\ Tail(ending) \in Seq([job : Jobs, result : Results])
        /\ Head(ending) \in [job : Jobs, result : Results]
    BY <1>0, <1>13, HeadTailProperties DEF DeleteReturns, QueueTypes
  <2>2. completion' \in [Jobs -> {"none", "open", "resolved", "rejected"}]
    BY <1>0, <1>13 DEF DeleteReturns, Settled, StateTypes
  <2>. QED
    BY <1>0, <1>13, <2>1, <2>2
       DEF DeleteReturns, streaming, flags, ghosts, QueueTypes, FlagTypes,
           StateTypes
<1>14. CASE Pause
  BY <1>0, <1>14
     DEF Pause, streaming, running, QueueTypes, FlagTypes, StateTypes
<1>15. CASE Resume
  BY <1>0, <1>15
     DEF Resume, streaming, running, ghosts, QueueTypes, FlagTypes, StateTypes
<1>16. CASE Shutdown
  BY <1>0, <1>16
     DEF Shutdown, streaming, running, QueueTypes, FlagTypes, StateTypes
<1>17. CASE Quit \/ Crash
  <2>1. EndProcess
    BY <1>17 DEF Quit, Crash
  <2>. QED
    BY <2>1, NextProcessTypes
       DEF TypeOK, QueueTypes, FlagTypes, StateTypes, JobSeqs
<1>18. CASE UNCHANGED vars
  BY <1>0, <1>18
     DEF vars, streaming, running, flags, ghosts, QueueTypes, FlagTypes,
         StateTypes
<1>. QED
  BY <1>1, <1>2, <1>3, <1>4, <1>5, <1>6, <1>7, <1>8, <1>9, <1>10, <1>11, <1>12,
     <1>13, <1>14, <1>15, <1>16, <1>17, <1>18 DEF Next, Steps, Work

-----------------------------------------------------------------------------
\* The deletes in flight after another is asked, and after one is answered.
LEMMA DeletingFacts ==
    ASSUME ending \in Seq([job : Jobs, result : Results])
    PROVE  /\ \A r \in [job : Jobs, result : Results] :
                 ending' = Append(ending, r) => Deleting' = Deleting \cup {r.job}
           /\ ending # <<>> /\ ending' = Tail(ending) =>
                 Deleting = Deleting' \cup {Head(ending).job}
           /\ ending' = ending => Deleting' = Deleting
           /\ ending' = <<>> => Deleting' = {}
<1> DEFINE R == [job : Jobs, result : Results]
<1>1. Deleting = {r.job : r \in ToSet(ending)}
  BY DEF Deleting, ToSet
<1>2. Deleting' = {r.job : r \in ToSet(ending')}
  BY DEF Deleting, ToSet
<1>3. ASSUME NEW r \in R, ending' = Append(ending, r)
      PROVE  Deleting' = Deleting \cup {r.job}
  <2>1. ToSet(ending') = ToSet(ending) \cup {r}
    <3>1. ending \in Seq(R)
      OBVIOUS
    <3>. HIDE DEF R
    <3>. QED
      BY <1>3, <3>1, AppendFacts
  <2>. QED
    BY <1>1, <1>2, <2>1
<1>4. ASSUME ending # <<>>, ending' = Tail(ending)
      PROVE  Deleting = Deleting' \cup {Head(ending).job}
  <2>1. ToSet(ending) = {Head(ending)} \cup ToSet(ending')
    BY <1>4, TailFacts
  <2>. QED
    BY <1>1, <1>2, <2>1
<1>5. ending' = <<>> => Deleting' = {}
  BY <1>2, EmptyFacts
<1>. QED
  BY <1>1, <1>2, <1>3, <1>4, <1>5

\* What enqueueStoredJob does: the job is last in its queue, or is deleted.
LEMMA EnqueueFacts ==
    ASSUME TypeOK, NEW j \in Jobs, Enqueue(j)
    PROVE  /\ \A k \in Keys \ {KeyOf[j]} : lane'[k] = lane[k]
           /\ j \notin Bad => /\ lane'[KeyOf[j]] = Append(lane[KeyOf[j]], j)
                              /\ Deleting' = Deleting /\ ended' = ended
           /\ j \in Bad => /\ lane' = lane
                           /\ Deleting' = Deleting \cup {j}
                           /\ ended' = ended \cup {j}
<1>1. QueueTypes
  BY TypeParts
<1>2. KeyOf[j] \in Keys
  BY JobQueueAssumption
<1>3. CASE j \in Bad
  <2>. DEFINE r == [job |-> j, result |-> "unparsed"]
  <2>1. r \in [job : Jobs, result : Results] /\ r.job = j
    BY DEF Results
  <2>2. Deleting' = Deleting \cup {j}
    <3>1. ending' = Append(ending, r)
      BY <1>3 DEF Enqueue
    <3>. HIDE DEF r
    <3>. QED
      BY <1>1, <2>1, <3>1, DeletingFacts DEF QueueTypes
  <2>. QED
    BY <1>3, <2>2 DEF Enqueue
<1>4. CASE j \notin Bad
  BY <1>1, <1>2, <1>4, DeletingFacts DEF Enqueue, QueueTypes
<1>. QED
  BY <1>3, <1>4

\* What the end of a run does.
LEMMA EndFacts ==
    ASSUME TypeOK, NEW k \in Keys, NEW j \in Jobs, Runs(k, j),
           NEW result \in Results, End(k, j, result)
    PROVE  /\ \A q \in Keys \ {k} : lane'[q] = lane[q]
           /\ lane'[k] = Tail(lane[k])
           /\ attempt'[j] = 0 /\ \A i \in Jobs \ {j} : attempt'[i] = attempt[i]
           /\ result # "shutdown" => ended' = ended \cup {j}
           /\ result = "shutdown" => ended' = ended
           /\ Deletes(result) => Deleting' = Deleting \cup {j}
           /\ ~Deletes(result) => Deleting' = Deleting
           /\ draining \ {k} \subseteq draining'
           /\ Len(lane[k]) # 1 => draining' = draining
<1>1. QueueTypes /\ StateTypes
  BY TypeParts
<1>2. [job |-> j, result |-> result] \in [job : Jobs, result : Results]
  OBVIOUS
<1>3. Deletes(result) => Deleting' = Deleting \cup {j}
  BY <1>1, <1>2, DeletingFacts DEF End, QueueTypes
<1>4. ~Deletes(result) => Deleting' = Deleting
  BY <1>1, DeletingFacts DEF End, QueueTypes
<1>5. /\ \A q \in Keys \ {k} : lane'[q] = lane[q]
      /\ lane'[k] = Tail(lane[k])
  BY <1>1 DEF End, QueueTypes
<1>6. attempt'[j] = 0 /\ \A i \in Jobs \ {j} : attempt'[i] = attempt[i]
  BY <1>1 DEF End, StateTypes
<1>7. /\ result # "shutdown" => ended' = ended \cup {j}
      /\ result = "shutdown" => ended' = ended
      /\ draining \ {k} \subseteq draining'
      /\ Len(lane[k]) # 1 => draining' = draining
  BY DEF End
<1>. QED
  BY <1>3, <1>4, <1>5, <1>6, <1>7

\* A step of a run ends it or begins an attempt.
LEMMA RunFacts ==
    ASSUME NEW k \in Keys, NEW j \in Jobs,
           Begin(k, j) \/ RunReturns(k, j) \/ RunThrows(k, j)
    PROVE  /\ Runs(k, j)
           /\ UNCHANGED <<streaming, adding, paused, shuttingDown, rows,
                          overlooked, before, spent>>
           /\ \/ \E result \in Results :
                    /\ End(k, j, result)
                    /\ result = "shutdown" => shuttingDown
              \/ /\ ~shuttingDown
                 /\ attempt' = [attempt EXCEPT ![j] = @ + 1]
                 /\ UNCHANGED <<lane, ending, completion, draining, ended>>
<1>1. "shutdown" \in Results /\ "failed" \in Results /\ "success" \in Results
      /\ "retry" \in Results
  BY DEF Results
<1>2. CASE Begin(k, j)
  BY <1>1, <1>2 DEF Begin, Attempt
<1>3. CASE RunReturns(k, j)
  BY <1>1, <1>3 DEF RunReturns
<1>4. CASE RunThrows(k, j)
  BY <1>1, <1>4 DEF RunThrows, Attempt
<1>. QED
  BY <1>2, <1>3, <1>4

\* The next job of a queue has its key.
LEMMA HeadHasKey ==
    ASSUME TypeOK, LanesByKey, NEW k \in Keys, NEW j \in Jobs, Runs(k, j)
    PROVE  KeyOf[j] = k /\ lane[k] # <<>> /\ ToSet(Tail(lane[k])) \subseteq ToSet(lane[k])
<1>1. lane[k] \in Seq(Jobs) /\ lane[k] # <<>>
  BY TypeParts DEF QueueTypes, Runs
<1>. QED
  BY <1>1, TailFacts DEF LanesByKey, Runs

\* A job that is enqueued leaves the heads and the keys of the queues alone.
LEMMA EnqueueRuns ==
    ASSUME RunInv, NEW j \in Jobs, Enqueue(j),
           UNCHANGED <<attempt, draining, shuttingDown>>
    PROVE  LanesByKey' /\ HeadsRun' /\ ShutdownWaits' /\ DeletesFollowResults'
<1>. USE DEF RunInv
<1>1. /\ \A k \in Keys \ {KeyOf[j]} : lane'[k] = lane[k]
      /\ j \notin Bad => /\ lane'[KeyOf[j]] = Append(lane[KeyOf[j]], j)
                         /\ Deleting' = Deleting /\ ended' = ended
      /\ j \in Bad => /\ lane' = lane
                      /\ Deleting' = Deleting \cup {j}
                      /\ ended' = ended \cup {j}
  BY EnqueueFacts
<1>2. KeyOf[j] \in Keys /\ lane[KeyOf[j]] \in Seq(Jobs)
  BY JobQueueAssumption, TypeParts DEF QueueTypes
<1>3. DeletesFollowResults'
  BY <1>1 DEF DeletesFollowResults
<1>4. ShutdownWaits'
  BY DEF ShutdownWaits
<1>5. LanesByKey'
  <2>1. ToSet(Append(lane[KeyOf[j]], j)) = ToSet(lane[KeyOf[j]]) \cup {j}
    BY <1>2, AppendFacts
  <2>. QED
    BY <1>1, <2>1 DEF LanesByKey
<1>6. HeadsRun'
  <2>1. /\ Append(lane[KeyOf[j]], j) # <<>>
        /\ lane[KeyOf[j]] # <<>> =>
              Head(Append(lane[KeyOf[j]], j)) = Head(lane[KeyOf[j]])
    BY <1>2, AppendFacts
  <2>2. ASSUME NEW i \in Jobs, attempt'[i] > 0 PROVE Runs(KeyOf[i], i)'
    <3>1. lane[KeyOf[i]] # <<>> /\ Head(lane[KeyOf[i]]) = i /\ KeyOf[i] \in Keys
      BY <2>2, JobQueueAssumption DEF HeadsRun, Runs
    <3>2. lane'[KeyOf[i]] = lane[KeyOf[i]]
             \/ (KeyOf[i] = KeyOf[j]
                   /\ lane'[KeyOf[i]] = Append(lane[KeyOf[j]], j))
      BY <1>1, <3>1
    <3>. QED
      BY <2>1, <3>1, <3>2 DEF Runs
  <2>. QED
    BY <2>2 DEF HeadsRun
<1>. QED
  BY <1>3, <1>4, <1>5, <1>6

\* The queues run their heads, and shutdown() waits for them.
LEMMA RunStep == RunInv /\ [Next]_vars => RunInv'
<1>. SUFFICES ASSUME RunInv, [Next]_vars
              PROVE  LanesByKey' /\ HeadsRun' /\ ShutdownWaits' /\ DeletesFollowResults'
  BY TypeStep DEF RunInv
<1>. DEFINE Goal == LanesByKey' /\ HeadsRun' /\ ShutdownWaits' /\ DeletesFollowResults'
<1>0. QueueTypes /\ FlagTypes /\ StateTypes
  BY TypeParts DEF RunInv
<1>1. CASE UNCHANGED <<running, shuttingDown, draining, ended>>
  BY <1>1
     DEF RunInv, running, LanesByKey, HeadsRun, Runs, ShutdownWaits,
         DeletesFollowResults, Deleting
<1>2. ASSUME NEW j \in Jobs, Add(j) PROVE Goal
  BY <1>2
     DEF Add, flags, RunInv, LanesByKey, HeadsRun, Runs, ShutdownWaits,
         DeletesFollowResults, Deleting
<1>3. ASSUME NEW j \in Jobs, Inserted(j) \/ Persisted(j) \/ Refused(j)
      PROVE  Goal
  BY <1>1, <1>3 DEF Inserted, Persisted, Refused, flags, ghosts
<1>4. CASE StreamJobs \/ GetJobsInQueue \/ FetchReturns \/ Pause \/ Resume
  BY <1>1, <1>4
     DEF StreamJobs, GetJobsInQueue, FetchReturns, Pause, Resume, flags,
         ghosts
<1>5. CASE Take
  <2>1. Head(stream) \in Jobs
    BY <1>0, <1>5, HeadTailProperties DEF Take, QueueTypes
  <2>2. CASE shuttingDown \/ paused
    BY <1>1, <1>5, <2>2 DEF Take, running, flags
  <2>3. CASE ~shuttingDown /\ ~paused
    BY <1>5, <2>1, <2>3, EnqueueRuns DEF Take, flags
  <2>. QED
    BY <2>2, <2>3
<1>6. CASE Release
  <2>1. PICK j \in held : Enqueue(j)
    BY <1>6 DEF Release
  <2>2. j \in Jobs
    BY <1>0, <2>1 DEF QueueTypes
  <2>. QED
    BY <1>6, <2>1, <2>2, EnqueueRuns DEF Release, flags
<1>7. ASSUME NEW k \in Keys, NEW j \in Jobs,
             Begin(k, j) \/ RunReturns(k, j) \/ RunThrows(k, j)
      PROVE  Goal
  <2>1. /\ Runs(k, j) /\ shuttingDown' = shuttingDown
        /\ \/ \E result \in Results :
                 /\ End(k, j, result)
                 /\ result = "shutdown" => shuttingDown
           \/ /\ ~shuttingDown
              /\ attempt' = [attempt EXCEPT ![j] = @ + 1]
              /\ UNCHANGED <<lane, ending, completion, draining, ended>>
    BY <1>7, RunFacts
  <2>2. KeyOf[j] = k /\ lane[k] # <<>> /\ ToSet(Tail(lane[k])) \subseteq ToSet(lane[k])
    BY <2>1, HeadHasKey DEF RunInv
  <2>3. ASSUME NEW result \in Results, End(k, j, result),
               result = "shutdown" => shuttingDown
        PROVE  Goal
    <3>1. /\ \A q \in Keys \ {k} : lane'[q] = lane[q]
          /\ lane'[k] = Tail(lane[k])
          /\ attempt'[j] = 0 /\ \A i \in Jobs \ {j} : attempt'[i] = attempt[i]
          /\ result # "shutdown" => ended' = ended \cup {j}
          /\ result = "shutdown" => ended' = ended
          /\ Deletes(result) => Deleting' = Deleting \cup {j}
          /\ ~Deletes(result) => Deleting' = Deleting
          /\ draining \ {k} \subseteq draining'
      BY <2>1, <2>3, EndFacts DEF RunInv
    <3>2. ASSUME NEW i \in Jobs, attempt'[i] > 0
          PROVE  i # j /\ attempt[i] > 0 /\ KeyOf[i] # k /\ KeyOf[i] \in Keys
      BY <2>1, <3>1, <3>2, JobQueueAssumption DEF RunInv, HeadsRun, Runs
    <3>3. LanesByKey'
      BY <2>2, <3>1 DEF RunInv, LanesByKey
    <3>4. HeadsRun'
      BY <3>1, <3>2 DEF RunInv, HeadsRun, Runs
    <3>5. ShutdownWaits'
      BY <2>1, <3>1, <3>2 DEF RunInv, ShutdownWaits
    <3>6. DeletesFollowResults'
      BY <2>3, <3>1 DEF RunInv, DeletesFollowResults, Deletes
    <3>. QED
      BY <3>3, <3>4, <3>5, <3>6
  <2>4. CASE /\ ~shuttingDown
             /\ attempt' = [attempt EXCEPT ![j] = @ + 1]
             /\ UNCHANGED <<lane, ending, completion, draining, ended>>
    BY <1>0, <2>1, <2>2, <2>4
       DEF RunInv, LanesByKey, HeadsRun, Runs, ShutdownWaits,
           DeletesFollowResults, Deleting, StateTypes
  <2>. QED
    BY <2>1, <2>3, <2>4
<1>8. CASE DeleteReturns
  <2>1. Deleting' \subseteq Deleting
    BY <1>0, <1>8, DeletingFacts DEF DeleteReturns, QueueTypes
  <2>. QED
    BY <1>8, <2>1
       DEF DeleteReturns, flags, ghosts, RunInv, LanesByKey, HeadsRun, Runs,
           ShutdownWaits, DeletesFollowResults
<1>9. CASE Shutdown
  BY <1>9, JobQueueAssumption
     DEF Shutdown, running, RunInv, LanesByKey, HeadsRun, Runs, ShutdownWaits,
         DeletesFollowResults, Deleting
<1>10. CASE Quit \/ Crash
  <2>1. EndProcess
    BY <1>10 DEF Quit, Crash
  <2>2. Deleting' = {}
    BY <1>0, <2>1, DeletingFacts DEF EndProcess, QueueTypes
  <2>. QED
    BY <2>1, <2>2, EmptyFacts
       DEF EndProcess, LanesByKey, HeadsRun, ShutdownWaits,
           DeletesFollowResults
<1>11. CASE UNCHANGED vars
  BY <1>1, <1>11 DEF vars, flags, ghosts
<1>. QED
  BY <1>2, <1>3, <1>4, <1>5, <1>6, <1>7, <1>8, <1>9, <1>10, <1>11
     DEF Next, Steps, Work

-----------------------------------------------------------------------------
\* A job that is enqueued is in a queue or about to be deleted.
LEMMA EnqueueKeeps ==
    ASSUME TypeOK, NEW j \in Jobs, Enqueue(j)
    PROVE  /\ InLanes' \cup Deleting' = InLanes \cup Deleting \cup {j}
           /\ InLanes' \subseteq InLanes \cup {j}
<1>1. /\ \A k \in Keys \ {KeyOf[j]} : lane'[k] = lane[k]
      /\ j \notin Bad => /\ lane'[KeyOf[j]] = Append(lane[KeyOf[j]], j)
                         /\ Deleting' = Deleting
      /\ j \in Bad => lane' = lane /\ Deleting' = Deleting \cup {j}
  BY EnqueueFacts
<1>2. KeyOf[j] \in Keys /\ lane[KeyOf[j]] \in Seq(Jobs)
  BY JobQueueAssumption, TypeParts DEF QueueTypes
<1>3. ToSet(Append(lane[KeyOf[j]], j)) = ToSet(lane[KeyOf[j]]) \cup {j}
  BY <1>2, AppendFacts
<1>4. CASE j \in Bad
  BY <1>1, <1>4 DEF InLanes
<1>5. CASE j \notin Bad
  <2>1. /\ \A k \in Keys \ {KeyOf[j]} : ToSet(lane'[k]) = ToSet(lane[k])
        /\ ToSet(lane'[KeyOf[j]]) = ToSet(lane[KeyOf[j]]) \cup {j}
    BY <1>1, <1>3, <1>5
  <2>2. InLanes' = InLanes \cup {j}
    BY <1>2, <2>1 DEF InLanes
  <2>. QED
    BY <1>1, <1>5, <2>2
<1>. QED
  BY <1>4, <1>5

\* Only the job whose run has ended leaves the queues.
LEMMA EndKeeps ==
    ASSUME TypeOK, NEW k \in Keys, NEW j \in Jobs, Runs(k, j),
           NEW result \in Results, End(k, j, result)
    PROVE  InLanes \subseteq InLanes' \cup {j}
<1>1. /\ \A q \in Keys \ {k} : lane'[q] = lane[q]
      /\ lane'[k] = Tail(lane[k])
  BY EndFacts
<1>2. ToSet(lane[k]) = {j} \cup ToSet(Tail(lane[k]))
  BY TypeParts, TailFacts DEF QueueTypes, Runs
<1>. QED
  BY <1>1, <1>2 DEF InLanes

\* A step that changes neither what is in memory nor the table.
LEMMA FetchInvKept ==
    ASSUME FetchInv,
           UNCHANGED <<fetch, fetched, stream, held, broken, adding, lane,
                       ending, shuttingDown, rows, overlooked>>
    PROVE  /\ NothingBeforeTheFetch' /\ InsertsKnowTheFetch'
           /\ FetchSeesTheTable' /\ NothingForgotten'
BY DEF FetchInv, NothingBeforeTheFetch, InsertsKnowTheFetch, FetchSeesTheTable,
   NothingForgotten, InMemory, Deleting

\* No row is forgotten between the fetch, the stream and the queues.
LEMMA FetchStep == FetchInv /\ [Next]_vars => FetchInv'
<1>. SUFFICES ASSUME FetchInv, [Next]_vars
              PROVE  /\ NothingBeforeTheFetch' /\ InsertsKnowTheFetch'
                     /\ FetchSeesTheTable' /\ NothingForgotten'
  BY RunStep DEF FetchInv
<1>. DEFINE Goal == /\ NothingBeforeTheFetch' /\ InsertsKnowTheFetch'
                    /\ FetchSeesTheTable' /\ NothingForgotten'
<1>0. TypeOK /\ QueueTypes /\ FlagTypes /\ StateTypes
  BY TypeParts DEF FetchInv, RunInv
<1>1. ASSUME NEW j \in Jobs, Add(j) PROVE Goal
  <2>1. NothingBeforeTheFetch' /\ FetchSeesTheTable' /\ NothingForgotten'
    BY <1>0, <1>1
       DEF Add, streaming, flags, FetchInv, NothingBeforeTheFetch,
           FetchSeesTheTable, NothingForgotten, InMemory, Deleting, StateTypes
  <2>2. InsertsKnowTheFetch'
    BY <1>0, <1>1
       DEF Add, streaming, Awaited, FetchInv, InsertsKnowTheFetch, StateTypes
  <2>. QED
    BY <2>1, <2>2
<1>2. ASSUME NEW j \in Jobs, Inserted(j) PROVE Goal
  <2>1. j \in Own
    BY <1>2 DEF Inserted, FetchInv, InsertsKnowTheFetch
  <2>2. ToSet(Append(stream, j)) = ToSet(stream) \cup {j}
    BY <1>0, AppendFacts DEF QueueTypes
  <2>3. NothingBeforeTheFetch'
    BY <1>0, <1>2 DEF Inserted, running, flags, FetchInv, NothingBeforeTheFetch
  <2>4. InsertsKnowTheFetch'
    BY <1>0, <1>2 DEF Inserted, FetchInv, InsertsKnowTheFetch, StateTypes
  <2>5. FetchSeesTheTable'
    BY <1>0, <1>2, <2>1
       DEF Inserted, ghosts, FetchInv, FetchSeesTheTable, StateTypes
  <2>6. NothingForgotten'
    <3>1. CASE fetch = "done"
      <4>1. /\ stream' = Append(stream, j) /\ rows' = rows \cup {j}
            /\ UNCHANGED <<held, lane, ending, overlooked, shuttingDown>>
        BY <1>2, <3>1 DEF Inserted, running, flags, ghosts
      <4>. QED
        BY <2>2, <3>1, <4>1 DEF FetchInv, NothingForgotten, InMemory, Deleting
    <3>2. CASE fetch # "done"
      BY <1>2, <3>2 DEF Inserted, NothingForgotten
    <3>. QED
      BY <3>1, <3>2
  <2>. QED
    BY <2>3, <2>4, <2>5, <2>6
<1>3. ASSUME NEW j \in Jobs, Persisted(j) PROVE Goal
  <2>1. ToSet(Append(stream, j)) = ToSet(stream) \cup {j}
    BY <1>0, AppendFacts DEF QueueTypes
  <2>2. adding[j] = "persisting" => fetch = "done"
    BY DEF FetchInv, InsertsKnowTheFetch
  <2>3. NothingBeforeTheFetch'
    BY <1>0, <1>3, <2>2
       DEF Persisted, running, flags, FetchInv, NothingBeforeTheFetch
  <2>4. InsertsKnowTheFetch'
    BY <1>0, <1>3 DEF Persisted, FetchInv, InsertsKnowTheFetch, StateTypes
  <2>5. FetchSeesTheTable'
    BY <1>0, <1>3, <2>2 DEF Persisted, FetchInv, FetchSeesTheTable, StateTypes
  <2>6. NothingForgotten'
    <3>1. /\ rows' = rows \cup {j}
          /\ UNCHANGED <<fetch, held, lane, ending, shuttingDown>>
      BY <1>3 DEF Persisted, running, flags
    <3>2. CASE adding[j] = "persisting"
      <4>1. stream' = Append(stream, j) /\ overlooked' = overlooked
        BY <1>3, <3>2 DEF Persisted
      <4>. QED
        BY <2>1, <3>1, <4>1 DEF FetchInv, NothingForgotten, InMemory, Deleting
    <3>3. CASE adding[j] # "persisting" /\ fetch = "done"
      <4>1. stream' = stream /\ overlooked' = overlooked \cup {j}
        BY <1>3, <3>3 DEF Persisted
      <4>. QED
        BY <3>1, <4>1 DEF FetchInv, NothingForgotten, InMemory, Deleting
    <3>. QED
      BY <3>1, <3>2, <3>3 DEF NothingForgotten
  <2>. QED
    BY <2>3, <2>4, <2>5, <2>6
<1>4. ASSUME NEW j \in Jobs, Refused(j) PROVE Goal
  <2>1. InsertsKnowTheFetch'
    BY <1>0, <1>4
       DEF Refused, streaming, FetchInv, InsertsKnowTheFetch, StateTypes
  <2>2. FetchSeesTheTable'
    BY <1>0, <1>4
       DEF Refused, streaming, ghosts, FetchInv, FetchSeesTheTable, StateTypes
  <2>3. NothingBeforeTheFetch' /\ NothingForgotten'
    BY <1>4
       DEF Refused, streaming, running, flags, ghosts, FetchInv,
           NothingBeforeTheFetch, NothingForgotten, InMemory, Deleting
  <2>. QED
    BY <2>1, <2>2, <2>3
<1>5. CASE StreamJobs
  BY <1>0, <1>5
     DEF StreamJobs, running, flags, ghosts, FetchInv, NothingBeforeTheFetch,
         InsertsKnowTheFetch, FetchSeesTheTable, NothingForgotten
<1>6. CASE GetJobsInQueue
  <2>1. ToSet(ByTimestamp(rows)) = rows
    BY <1>0, ByTimestampFacts DEF StateTypes
  <2>2. FetchSeesTheTable'
    BY <1>6, <2>1 DEF GetJobsInQueue, FetchSeesTheTable
  <2>3. NothingBeforeTheFetch' /\ InsertsKnowTheFetch' /\ NothingForgotten'
    BY <1>6
       DEF GetJobsInQueue, running, flags, FetchInv, NothingBeforeTheFetch,
           InsertsKnowTheFetch, NothingForgotten
  <2>. QED
    BY <2>2, <2>3
<1>7. CASE FetchReturns
  <2>. DEFINE waiting == {j \in Jobs : adding[j] = "waiting"}
              told == ByTimestamp(waiting \cap Own)
  <2>1. told \in Seq(Jobs) /\ ToSet(told) = waiting \cap Own
    BY ByTimestampFacts
  <2>2. fetched \in Seq(Jobs) /\ stream \in Seq(Jobs)
    BY <1>0 DEF QueueTypes
  <2>. HIDE DEF told
  <2>3. stream' = fetched \o stream \o told
    BY <1>7 DEF FetchReturns, told
  <2>4. ToSet(stream') = ToSet(fetched) \cup ToSet(stream) \cup (waiting \cap Own)
    <3>. DEFINE first == fetched \o stream
    <3>1. /\ first \in Seq(Jobs)
          /\ ToSet(first) = ToSet(fetched) \cup ToSet(stream)
          /\ stream' = first \o told
      BY <2>2, <2>3, ConcatFacts
    <3>. HIDE DEF first
    <3>2. ToSet(first \o told) = ToSet(first) \cup ToSet(told)
      BY <2>1, <3>1, ConcatFacts
    <3>. QED
      BY <2>1, <3>1, <3>2
  <2>5. NothingForgotten'
    <3>1. rows \subseteq ToSet(fetched) \cup overlooked \cup (waiting \cap Own)
      BY <1>0, <1>7 DEF FetchReturns, FetchInv, FetchSeesTheTable, StateTypes
    <3>. QED
      BY <1>7, <2>4, <3>1 DEF FetchReturns, ghosts, NothingForgotten, InMemory
  <2>6. InsertsKnowTheFetch'
    BY <1>0, <1>7 DEF FetchReturns, FetchInv, InsertsKnowTheFetch, StateTypes
  <2>7. NothingBeforeTheFetch' /\ FetchSeesTheTable'
    BY <1>7
       DEF FetchReturns, flags, FetchInv, NothingBeforeTheFetch,
           FetchSeesTheTable
  <2>. QED
    BY <2>5, <2>6, <2>7
<1>8. CASE Take
  <2>1. Head(stream) \in Jobs /\ ToSet(stream) = {Head(stream)} \cup ToSet(Tail(stream))
    BY <1>0, <1>8, TailFacts DEF Take, QueueTypes
  <2>2. fetch = "done"
    BY <1>8 DEF Take, FetchInv, NothingBeforeTheFetch
  <2>3. NothingBeforeTheFetch' /\ InsertsKnowTheFetch' /\ FetchSeesTheTable'
    BY <1>8, <2>2
       DEF Take, flags, FetchInv, NothingBeforeTheFetch, InsertsKnowTheFetch,
           FetchSeesTheTable
  <2>4. NothingForgotten'
    <3>1. CASE shuttingDown
      BY <1>8, <3>1 DEF Take, flags, NothingForgotten
    <3>2. CASE ~shuttingDown /\ paused
      BY <1>8, <2>1, <3>2
         DEF Take, flags, FetchInv, NothingForgotten, InMemory, Deleting
    <3>3. CASE ~shuttingDown /\ ~paused
      <4>1. InLanes' \cup Deleting' = InLanes \cup Deleting \cup {Head(stream)}
        BY <1>0, <1>8, <2>1, <3>3, EnqueueKeeps DEF Take
      <4>. QED
        BY <1>8, <2>1, <3>3, <4>1
           DEF Take, flags, FetchInv, NothingForgotten, InMemory, InLanes
    <3>. QED
      BY <1>0, <3>1, <3>2, <3>3
  <2>. QED
    BY <2>3, <2>4
<1>9. CASE Release
  <2>1. PICK j \in held : Enqueue(j)
    BY <1>9 DEF Release
  <2>2. j \in Jobs /\ held = {j}
    <3>1. IsFiniteSet(held) /\ Cardinality(held) <= 1 /\ held # {}
      BY <1>0, <2>1, JobQueueAssumption, FS_Subset DEF QueueTypes
    <3>2. Cardinality(held) = 1
      BY <3>1, FS_EmptySet, FS_CardinalityType
    <3>. QED
      BY <1>0, <2>1, <3>1, <3>2, FS_Singleton DEF QueueTypes
  <2>3. InLanes' \cup Deleting' = InLanes \cup Deleting \cup {j}
    BY <1>0, <2>1, <2>2, EnqueueKeeps
  <2>4. fetch = "done"
    BY <2>1 DEF FetchInv, NothingBeforeTheFetch
  <2>5. NothingBeforeTheFetch' /\ InsertsKnowTheFetch' /\ FetchSeesTheTable'
    BY <1>9, <2>4
       DEF Release, flags, FetchInv, NothingBeforeTheFetch,
           InsertsKnowTheFetch, FetchSeesTheTable
  <2>6. NothingForgotten'
    BY <1>9, <2>2, <2>3
       DEF Release, flags, FetchInv, NothingForgotten, InMemory, InLanes
  <2>. QED
    BY <2>5, <2>6
<1>10. ASSUME NEW k \in Keys, NEW j \in Jobs,
              Begin(k, j) \/ RunReturns(k, j) \/ RunThrows(k, j)
       PROVE  Goal
  <2>1. /\ Runs(k, j)
        /\ UNCHANGED <<streaming, adding, paused, shuttingDown, rows,
                       overlooked, before, spent>>
        /\ \/ \E result \in Results :
                 /\ End(k, j, result)
                 /\ result = "shutdown" => shuttingDown
           \/ UNCHANGED <<lane, ending, completion, draining, ended>>
    BY <1>10, RunFacts
  <2>2. CASE UNCHANGED <<lane, ending, completion, draining, ended>>
    BY <2>1, <2>2, FetchInvKept DEF streaming
  <2>3. ASSUME NEW result \in Results, End(k, j, result),
               result = "shutdown" => shuttingDown
        PROVE  Goal
    <3>1. /\ InLanes \subseteq InLanes' \cup {j}
          /\ Deletes(result) => Deleting' = Deleting \cup {j}
          /\ \A q \in Keys \ {k} : lane'[q] = lane[q]
      BY <1>0, <2>1, <2>3, EndKeeps, EndFacts
    <3>2. fetch = "done"
      BY <2>1 DEF Runs, FetchInv, NothingBeforeTheFetch
    <3>3. NothingForgotten'
      BY <2>1, <2>3, <3>1
         DEF streaming, FetchInv, NothingForgotten, Deletes, InMemory, InLanes
    <3>4. NothingBeforeTheFetch' /\ InsertsKnowTheFetch' /\ FetchSeesTheTable'
      BY <2>1, <3>2
         DEF streaming, FetchInv, NothingBeforeTheFetch, InsertsKnowTheFetch,
             FetchSeesTheTable
    <3>. QED
      BY <3>3, <3>4
  <2>. QED
    BY <2>1, <2>2, <2>3
<1>11. CASE DeleteReturns
  <2>1. Deleting = Deleting' \cup {Head(ending).job}
    BY <1>0, <1>11, DeletingFacts DEF DeleteReturns, QueueTypes
  <2>. QED
    BY <1>11, <2>1
       DEF DeleteReturns, streaming, flags, ghosts, FetchInv,
           NothingBeforeTheFetch, InsertsKnowTheFetch, FetchSeesTheTable,
           NothingForgotten, InMemory
<1>12. CASE Pause \/ Resume
  BY <1>12, FetchInvKept DEF Pause, Resume, streaming, running, ghosts
<1>13. CASE Shutdown
  BY <1>13
     DEF Shutdown, streaming, running, FetchInv, NothingBeforeTheFetch,
         InsertsKnowTheFetch, FetchSeesTheTable, NothingForgotten
<1>14. CASE Quit \/ Crash
  <2>1. EndProcess
    BY <1>14 DEF Quit, Crash
  <2>2. InsertsKnowTheFetch'
    BY <1>0, <2>1 DEF EndProcess, InsertsKnowTheFetch, StateTypes
  <2>. QED
    BY <2>1, <2>2
       DEF EndProcess, NothingBeforeTheFetch, FetchSeesTheTable,
           NothingForgotten
<1>15. CASE UNCHANGED vars
  BY <1>15, FetchInvKept DEF vars, streaming, running, flags, ghosts
<1>. QED
  BY <1>1, <1>2, <1>3, <1>4, <1>5, <1>6, <1>7, <1>8, <1>9, <1>10, <1>11, <1>12,
     <1>13, <1>14, <1>15 DEF Next, Steps, Work

-----------------------------------------------------------------------------
\* What is held is one job at most.
LEMMA HeldIsOne ==
    ASSUME TypeOK, NEW j \in held
    PROVE  j \in Jobs /\ held = {j}
<1>0. QueueTypes
  BY TypeParts
<1>1. IsFiniteSet(held) /\ Cardinality(held) <= 1 /\ held # {}
  BY <1>0, JobQueueAssumption, FS_Subset DEF QueueTypes
<1>2. Cardinality(held) = 1
  BY <1>1, FS_EmptySet, FS_CardinalityType
<1>. QED
  BY <1>0, <1>1, <1>2, FS_Singleton DEF QueueTypes

\* An element that is nowhere in a sequence is there at most once.
LEMMA AbsentOnce ==
    ASSUME NEW s, NEW j, j \notin ToSet(s) PROVE Once(s, j)
BY DEF Once, ToSet

\* A job taken out of the stream or out of streamJobs' hands goes to its queue.
LEMMA EnqueueOnce ==
    ASSUME OnceInv, NEW j \in Jobs, Enqueue(j), NEW i \in Jobs \ Own,
           i = j => i \notin ToSet(lane[KeyOf[i]])
    PROVE  /\ Once(lane'[KeyOf[i]], i)
           /\ ToSet(lane'[KeyOf[i]]) \subseteq ToSet(lane[KeyOf[i]]) \cup {j}
<1>1. /\ \A k \in Keys \ {KeyOf[j]} : lane'[k] = lane[k]
      /\ j \notin Bad => lane'[KeyOf[j]] = Append(lane[KeyOf[j]], j)
      /\ j \in Bad => lane' = lane
  BY EnqueueFacts DEF OnceInv, FetchInv, RunInv
<1>2. KeyOf[i] \in Keys /\ lane[KeyOf[i]] \in Seq(Jobs)
  BY JobQueueAssumption, TypeParts DEF QueueTypes, OnceInv, FetchInv, RunInv
<1>3. Once(lane[KeyOf[i]], i)
  BY DEF OnceInv, OnePlace
<1>4. CASE lane'[KeyOf[i]] = lane[KeyOf[i]]
  BY <1>3, <1>4
<1>5. CASE lane'[KeyOf[i]] = Append(lane[KeyOf[i]], j)
  BY <1>2, <1>3, <1>5, OnceAppend, AppendFacts
<1>. QED
  BY <1>1, <1>2, <1>4, <1>5

\* A step that puts no job anywhere.
LEMMA OnceInvKept ==
    ASSUME OnceInv, rows' \subseteq rows,
           UNCHANGED <<fetched, stream, held, adding, lane>>
    PROVE  UnwrittenIsNowhere' /\ OnePlace'
BY DEF OnceInv, UnwrittenIsNowhere, Unwritten, OnePlace, InMemory

\* Every job that store.insert persists keeps to one place.
LEMMA OnceStep == OnceInv /\ [Next]_vars => OnceInv'
<1>. SUFFICES ASSUME OnceInv, [Next]_vars PROVE UnwrittenIsNowhere' /\ OnePlace'
  BY FetchStep DEF OnceInv
<1>0. TypeOK /\ QueueTypes /\ FlagTypes /\ StateTypes
  BY TypeParts DEF OnceInv, FetchInv, RunInv
<1>1. ASSUME NEW j \in Jobs, Add(j) PROVE UnwrittenIsNowhere' /\ OnePlace'
  <2>1. UnwrittenIsNowhere'
    <3>1. ASSUME NEW i \in Jobs, Unwritten(i)' PROVE Unwritten(i)
      BY <1>0, <1>1, <3>1 DEF Add, Unwritten, StateTypes
    <3>. QED
      BY <1>1, <3>1 DEF Add, streaming, OnceInv, UnwrittenIsNowhere, InMemory
  <2>. QED
    BY <1>1, <2>1 DEF Add, streaming, OnceInv, OnePlace
<1>2. ASSUME NEW j \in Jobs, Inserted(j) \/ Persisted(j)
      PROVE  UnwrittenIsNowhere' /\ OnePlace'
  <2>1. /\ rows' = rows \cup {j}
        /\ stream' = stream \/ stream' = Append(stream, j)
        /\ UNCHANGED <<fetched, held, lane>>
    BY <1>2 DEF Inserted, Persisted, running
  <2>2. ToSet(Append(stream, j)) = ToSet(stream) \cup {j}
    BY <1>0, AppendFacts DEF QueueTypes
  <2>3. Unwritten(j)
    <3>1. adding[j] \in {"persisting", "detached"} => j \notin Own
      BY DEF OnceInv, FetchInv, InsertsKnowTheFetch
    <3>. QED
      BY <1>2, <3>1 DEF Inserted, Persisted, Unwritten
  <2>4. ~Unwritten(j)'
    <3>1. adding[j] = "inserting" => j \in Own
      BY DEF OnceInv, FetchInv, InsertsKnowTheFetch
    <3>. QED
      BY <1>0, <1>2, <3>1 DEF Inserted, Persisted, Unwritten, StateTypes
  <2>5. ASSUME NEW i \in Jobs \ {j}, Unwritten(i)' PROVE Unwritten(i)
    BY <1>0, <1>2, <2>5 DEF Inserted, Persisted, Unwritten, StateTypes
  <2>6. UnwrittenIsNowhere'
    BY <2>1, <2>2, <2>4, <2>5 DEF OnceInv, UnwrittenIsNowhere, InMemory
  <2>7. OnePlace'
    <3>1. j \notin ToSet(stream) \cup held \cup InLanes
      BY <2>3 DEF OnceInv, UnwrittenIsNowhere, InMemory, InLanes
    <3>2. ASSUME NEW i \in Jobs \ Own PROVE Once(stream', i)
      <4>1. Once(stream, i) /\ stream \in Seq(Jobs)
        BY <1>0 DEF OnceInv, OnePlace, QueueTypes
      <4>2. Once(Append(stream, j), i)
        BY <3>1, <4>1, OnceAppend
      <4>. QED
        BY <2>1, <4>1, <4>2
    <3>3. ASSUME NEW i \in Jobs \ Own, i = j
          PROVE  i \notin held /\ i \notin ToSet(lane[KeyOf[i]])
      BY <3>1, <3>3, JobQueueAssumption DEF InLanes
    <3>. QED
      BY <2>1, <2>2, <3>2, <3>3 DEF OnceInv, OnePlace
  <2>. QED
    BY <2>6, <2>7
<1>3. ASSUME NEW j \in Jobs, Refused(j) PROVE UnwrittenIsNowhere' /\ OnePlace'
  <2>1. ASSUME NEW i \in Jobs, Unwritten(i)' PROVE Unwritten(i)
    BY <1>0, <1>3, <2>1 DEF Refused, Unwritten, StateTypes
  <2>. QED
    BY <1>3, <2>1
       DEF Refused, streaming, running, OnceInv, UnwrittenIsNowhere, InMemory,
           OnePlace
<1>4. CASE StreamJobs \/ Pause \/ Resume \/ Shutdown \/ UNCHANGED vars
  BY <1>4, OnceInvKept
     DEF StreamJobs, Pause, Resume, Shutdown, vars, streaming, running
<1>5. CASE GetJobsInQueue
  <2>1. ToSet(ByTimestamp(rows)) = rows /\ \A j : Once(ByTimestamp(rows), j)
    BY <1>0, ByTimestampFacts DEF StateTypes
  <2>. QED
    BY <1>5, <2>1
       DEF GetJobsInQueue, running, OnceInv, UnwrittenIsNowhere, Unwritten,
           InMemory, OnePlace
<1>6. CASE FetchReturns
  <2>. DEFINE waiting == {j \in Jobs : adding[j] = "waiting"}
              told == ByTimestamp(waiting \cap Own)
  <2>1. told \in Seq(Jobs) /\ ToSet(told) = waiting \cap Own
    BY ByTimestampFacts
  <2>2. fetched \in Seq(Jobs) /\ stream = <<>> /\ held = {}
        /\ \A k \in Keys : lane[k] = <<>>
    BY <1>0, <1>6
       DEF FetchReturns, QueueTypes, OnceInv, FetchInv, NothingBeforeTheFetch
  <2>. HIDE DEF told
  <2>3. stream' = fetched \o told
    <3>1. stream' = fetched \o stream \o told
      BY <1>6 DEF FetchReturns, told
    <3>. QED
      BY <2>2, <3>1, ConcatEmptySeq
  <2>4. ToSet(stream') = ToSet(fetched) \cup (waiting \cap Own)
    BY <2>1, <2>2, <2>3, ConcatFacts
  <2>5. UnwrittenIsNowhere'
    <3>1. ASSUME NEW i \in Jobs, Unwritten(i)'
          PROVE  Unwritten(i) /\ i \notin waiting \cap Own
      BY <1>0, <1>6, <3>1 DEF FetchReturns, Unwritten, StateTypes
    <3>2. /\ rows' = rows /\ fetched' = <<>>
          /\ InMemory' = ToSet(fetched) \cup (waiting \cap Own)
      BY <1>6, <2>2, <2>4, EmptyFacts DEF FetchReturns, running, InMemory
    <3>. QED
      BY <3>1, <3>2, EmptyFacts DEF OnceInv, UnwrittenIsNowhere
  <2>6. OnePlace'
    <3>1. ASSUME NEW i \in Jobs \ Own PROVE Once(stream', i)
      <4>1. Once(fetched, i) /\ i \notin ToSet(told)
        BY <2>1 DEF OnceInv, OnePlace
      <4>2. Once(told, i)
        BY <4>1, AbsentOnce
      <4>3. Once(fetched \o told, i)
        BY <2>1, <2>2, <4>1, <4>2, OnceConcat
      <4>. QED
        BY <2>3, <4>3
    <3>2. ASSUME NEW i \in Jobs \ Own PROVE lane'[KeyOf[i]] = <<>>
      BY <1>6, <2>2, JobQueueAssumption DEF FetchReturns, running
    <3>. QED
      BY <1>6, <2>2, <3>1, <3>2, EmptyFacts DEF FetchReturns, OnePlace
  <2>. QED
    BY <2>5, <2>6
<1>7. CASE Take
  <2>1. /\ Head(stream) \in Jobs /\ stream \in Seq(Jobs) /\ stream # <<>>
        /\ ToSet(stream) = {Head(stream)} \cup ToSet(Tail(stream))
    BY <1>0, <1>7, TailFacts DEF Take, QueueTypes
  <2>2. ASSUME NEW i \in Jobs \ Own
        PROVE  /\ Once(Tail(stream), i)
               /\ Head(stream) = i => i \notin ToSet(Tail(stream))
               /\ Head(stream) = i => i \notin ToSet(lane[KeyOf[i]])
    <3>1. Once(stream, i) /\ (i \in ToSet(stream) => i \notin ToSet(lane[KeyOf[i]]))
      BY DEF OnceInv, OnePlace
    <3>. QED
      BY <2>1, <3>1, OnceTail
  <2>3. CASE shuttingDown
    BY <1>7, <2>1, <2>2, <2>3
       DEF Take, OnceInv, UnwrittenIsNowhere, Unwritten, InMemory, OnePlace
  <2>4. CASE ~shuttingDown /\ paused
    BY <1>7, <2>1, <2>2, <2>4
       DEF Take, OnceInv, UnwrittenIsNowhere, Unwritten, InMemory, OnePlace
  <2>5. CASE ~shuttingDown /\ ~paused
    <3>1. Enqueue(Head(stream)) /\ held = {} /\ held' = held
      BY <1>7, <2>5 DEF Take
    <3>3. ASSUME NEW i \in Jobs \ Own
          PROVE  /\ Once(lane'[KeyOf[i]], i)
                 /\ ToSet(lane'[KeyOf[i]]) \subseteq ToSet(lane[KeyOf[i]]) \cup {Head(stream)}
      BY <2>1, <2>2, <3>1, EnqueueOnce
    <3>4. OnePlace'
      BY <1>7, <2>1, <2>2, <3>1, <3>3 DEF Take, OnceInv, OnePlace
    <3>5. InLanes' \subseteq InLanes \cup {Head(stream)}
      BY <1>0, <2>1, <3>1, EnqueueKeeps
    <3>6. UnwrittenIsNowhere'
      BY <1>7, <2>1, <3>1, <3>5
         DEF Take, OnceInv, UnwrittenIsNowhere, Unwritten, InMemory, InLanes
    <3>. QED
      BY <3>4, <3>6
  <2>. QED
    BY <1>0, <2>3, <2>4, <2>5
<1>8. CASE Release
  <2>1. PICK j \in held : Enqueue(j)
    BY <1>8 DEF Release
  <2>2. j \in Jobs /\ held = {j}
    BY <1>0, <2>1, HeldIsOne
  <2>3. ASSUME NEW i \in Jobs \ Own
        PROVE  /\ Once(lane'[KeyOf[i]], i)
               /\ ToSet(lane'[KeyOf[i]]) \subseteq ToSet(lane[KeyOf[i]]) \cup {j}
    <3>1. i = j => i \notin ToSet(lane[KeyOf[i]])
      BY <2>1 DEF OnceInv, OnePlace
    <3>. QED
      BY <2>1, <2>2, <3>1, EnqueueOnce
  <2>4. OnePlace'
    BY <1>8, <2>1, <2>3 DEF Release, OnceInv, OnePlace
  <2>5. InLanes' \subseteq InLanes \cup {j}
    BY <1>0, <2>1, <2>2, EnqueueKeeps
  <2>6. UnwrittenIsNowhere'
    BY <1>8, <2>1, <2>5
       DEF Release, OnceInv, UnwrittenIsNowhere, Unwritten, InMemory, InLanes
  <2>. QED
    BY <2>4, <2>6
<1>9. ASSUME NEW k \in Keys, NEW j \in Jobs,
             Begin(k, j) \/ RunReturns(k, j) \/ RunThrows(k, j)
      PROVE  UnwrittenIsNowhere' /\ OnePlace'
  <2>1. /\ Runs(k, j)
        /\ UNCHANGED <<streaming, adding, paused, shuttingDown, rows,
                       overlooked, before, spent>>
        /\ (\E result \in Results : End(k, j, result)) \/ lane' = lane
    BY <1>9, RunFacts
  <2>2. CASE lane' = lane
    BY <2>1, <2>2, OnceInvKept DEF streaming
  <2>3. ASSUME NEW result \in Results, End(k, j, result)
        PROVE  UnwrittenIsNowhere' /\ OnePlace'
    <3>1. /\ \A q \in Keys \ {k} : lane'[q] = lane[q]
          /\ lane'[k] = Tail(lane[k])
      BY <1>0, <2>1, <2>3, EndFacts
    <3>2. lane[k] \in Seq(Jobs) /\ lane[k] # <<>>
      BY <1>0, <2>1 DEF Runs, QueueTypes
    <3>3. ToSet(Tail(lane[k])) \subseteq ToSet(lane[k])
      BY <3>2, TailFacts
    <3>4. ASSUME NEW i \in Jobs \ Own
          PROVE  /\ Once(lane'[KeyOf[i]], i)
                 /\ ToSet(lane'[KeyOf[i]]) \subseteq ToSet(lane[KeyOf[i]])
      <4>1. KeyOf[i] \in Keys /\ Once(lane[KeyOf[i]], i)
        BY JobQueueAssumption DEF OnceInv, OnePlace
      <4>. QED
        BY <3>1, <3>2, <3>3, <4>1, OnceTail
    <3>5. OnePlace'
      BY <2>1, <3>4 DEF streaming, OnceInv, OnePlace
    <3>6. InMemory' \subseteq InMemory
      BY <2>1, <3>1, <3>3 DEF streaming, InMemory
    <3>7. UnwrittenIsNowhere'
      BY <2>1, <3>6 DEF streaming, OnceInv, UnwrittenIsNowhere, Unwritten
    <3>. QED
      BY <3>5, <3>7
  <2>. QED
    BY <2>1, <2>2, <2>3
<1>10. CASE DeleteReturns
  BY <1>10, OnceInvKept DEF DeleteReturns, streaming
<1>11. CASE Quit \/ Crash
  <2>1. EndProcess
    BY <1>11 DEF Quit, Crash
  <2>2. OnePlace'
    BY <2>1, EmptyFacts, JobQueueAssumption DEF EndProcess, OnePlace
  <2>3. UnwrittenIsNowhere'
    <3>1. ASSUME NEW i \in Jobs, Unwritten(i)' PROVE adding[i] = "none"
      BY <1>0, <2>1, <3>1 DEF EndProcess, Unwritten, StateTypes
    <3>2. rows' \subseteq rows \cup Inserting
      BY <2>1 DEF EndProcess, Served
    <3>3. InMemory' = {} /\ ToSet(fetched') = {}
      BY <2>1, EmptyFacts DEF EndProcess, InMemory
    <3>. QED
      BY <3>1, <3>2, <3>3 DEF OnceInv, UnwrittenIsNowhere, Unwritten, Inserting
  <2>. QED
    BY <2>2, <2>3
<1>. QED
  BY <1>1, <1>2, <1>3, <1>4, <1>5, <1>6, <1>7, <1>8, <1>9, <1>10, <1>11
     DEF Next, Steps, Work

-----------------------------------------------------------------------------
\* What is nowhere in a sequence follows everything there.
LEMMA AbsentFollows ==
    ASSUME NEW s, NEW j, NEW i, j \notin ToSet(s) PROVE Follows(s, j, i)
BY DEF Follows, ToSet

\* A job that waits for another has not begun.
LEMMA WaitingRests ==
    ASSUME IInv, NEW j \in Jobs, NEW i \in Waited(j)
    PROVE  /\ attempt[j] = 0 /\ i \in Jobs /\ i # j
           /\ KeyOf[j] \in Keys /\ KeyOf[i] = KeyOf[j]
           /\ adding[i] = "done" /\ i \in rows /\ i \notin overlooked \cup Deleting
<1>1. StateTypes /\ QueueTypes
  BY TypeParts DEF IInv, OnceInv, FetchInv, RunInv
<1>2. i \in before[j] /\ i \in rows /\ i \notin overlooked \cup Deleting
  BY DEF Waited
<1>3. i \in Jobs /\ i < j /\ KeyOf[i] = KeyOf[j] /\ adding[i] = "done"
  BY <1>1, <1>2 DEF IInv, BeforeIsEarlier, StateTypes
<1>4. KeyOf[j] \in Keys /\ i # j
  BY <1>3, JobQueueAssumption
<1>5. attempt[j] = 0
  <2>1. SUFFICES ASSUME attempt[j] # 0 PROVE FALSE
    OBVIOUS
  <2>2. Runs(KeyOf[j], j)
    BY <1>1, <2>1 DEF IInv, OnceInv, FetchInv, RunInv, HeadsRun, StateTypes
  <2>3. Follows(lane[KeyOf[j]], j, i)
    BY <2>1 DEF IInv, OrderKept, Ordered
  <2>. QED
    BY <1>1, <1>4, <2>2, <2>3, FollowsTail DEF Runs, QueueTypes
<1>. QED
  BY <1>2, <1>3, <1>4, <1>5

\* Jobs that must have begun before another are no more after a step which
\* writes rows of unfinished inserts only and deletes what it was asked to.
LEMMA WaitedShrinks ==
    ASSUME IInv, before' = before, overlooked \subseteq overlooked',
           \A i \in rows' \ rows : i \in Jobs /\ adding[i] # "done",
           rows' \cap Deleting \subseteq Deleting'
    PROVE  \A j \in Jobs : Waited(j)' \subseteq Waited(j)
<1>1. \A j \in Jobs : \A i \in before[j] : adding[i] = "done"
  BY DEF IInv, BeforeIsEarlier
<1>. QED
  BY <1>1 DEF Waited

\* The order is kept by a step that moves no job.
LEMMA OrderInvKept ==
    ASSUME IInv, before' = before, overlooked \subseteq overlooked',
           \A i \in rows' \ rows : i \in Jobs /\ adding[i] # "done",
           rows' \cap Deleting \subseteq Deleting',
           shuttingDown => shuttingDown',
           UNCHANGED <<fetched, stream, held, lane, attempt>>
    PROVE  OrderKept'
<1>1. \A j \in Jobs : Waited(j)' \subseteq Waited(j)
  BY WaitedShrinks
<1>2. ASSUME NEW j \in Jobs, NEW i \in Waited(j) PROVE Ordered(j, i)'
  <2>1. Ordered(j, i)
    BY <1>2 DEF IInv, OrderKept
  <2>. QED
    BY <2>1 DEF Ordered
<1>. QED
  BY <1>1, <1>2 DEF OrderKept

\* Who was there before a job does not change once it has been added.
LEMMA BeforeKept ==
    ASSUME IInv, before' = before,
           \A j \in Jobs : /\ adding[j] # "none" <=> adding'[j] # "none"
                           /\ adding[j] = "done" => adding'[j] = "done"
    PROVE  BeforeIsEarlier'
<1>1. \A j \in Jobs : before[j] \subseteq Jobs
  BY TypeParts DEF IInv, OnceInv, FetchInv, RunInv, StateTypes
<1>. QED
  BY <1>1 DEF IInv, BeforeIsEarlier

\* The jobs before a job stay those of its queue that are earlier.
LEMMA BeforeStep == IInv /\ [Next]_vars => BeforeIsEarlier'
<1>. SUFFICES ASSUME IInv, [Next]_vars PROVE BeforeIsEarlier'
  OBVIOUS
<1>0. StateTypes
  BY TypeParts DEF IInv, OnceInv, FetchInv, RunInv
<1>1. ASSUME NEW j \in Jobs, Add(j) PROVE BeforeIsEarlier'
  <2>1. /\ adding[j] = "none" /\ adding'[j] \notin {"none", "done"}
        /\ \A i \in Jobs \ {j} : adding'[i] = adding[i]
        /\ \A i \in Jobs : i < j => adding[i] # "none"
        /\ before'[j] = Returned(KeyOf[j])
        /\ \A i \in Jobs \ {j} : before'[i] = before[i]
    BY <1>0, <1>1 DEF Add, Awaited, StateTypes
  <2>2. ASSUME NEW i \in before'[j]
        PROVE  i < j /\ KeyOf[i] = KeyOf[j] /\ i \in Jobs /\ adding[i] = "done"
    <3>1. i \in Jobs /\ adding[i] = "done" /\ KeyOf[i] = KeyOf[j]
      BY <2>1, <2>2 DEF Returned
    <3>2. ~(j < i) /\ i # j
      BY <2>1, <3>1 DEF IInv, BeforeIsEarlier
    <3>3. i \in Nat /\ j \in Nat
      BY <3>1, JobQueueAssumption
    <3>. QED
      BY <3>1, <3>2, <3>3
  <2>3. \A i \in Jobs : before[i] \subseteq Jobs
    BY <1>0 DEF StateTypes
  <2>. QED
    BY <2>1, <2>2, <2>3 DEF IInv, BeforeIsEarlier
<1>2. ASSUME NEW j \in Jobs, Inserted(j) \/ Persisted(j) \/ Refused(j)
      PROVE  BeforeIsEarlier'
  BY <1>0, <1>2, BeforeKept DEF Inserted, Persisted, Refused, ghosts, StateTypes
<1>3. CASE FetchReturns
  BY <1>0, <1>3, BeforeKept DEF FetchReturns, ghosts, StateTypes
<1>4. ASSUME NEW k \in Keys, NEW j \in Jobs,
             Begin(k, j) \/ RunReturns(k, j) \/ RunThrows(k, j)
      PROVE  BeforeIsEarlier'
  BY <1>4, RunFacts, BeforeKept
<1>5. CASE Quit \/ Crash
  BY <1>0, <1>5, BeforeKept DEF Quit, Crash, EndProcess, StateTypes
<1>6. CASE UNCHANGED <<adding, before>>
  BY <1>6, BeforeKept
<1>. QED
  BY <1>1, <1>2, <1>3, <1>4, <1>5, <1>6 DEF Next, Steps, Work, StreamJobs,
     GetJobsInQueue, Take, Release, DeleteReturns, Pause, Resume, Shutdown,
     vars, ghosts

\* A row that is in memory, in the right queue.
LEMMA WaitedInMemory ==
    ASSUME IInv, NEW j \in Jobs, NEW i \in Waited(j), fetch = "done", ~shuttingDown
    PROVE  i \in ToSet(stream) \cup held \cup ToSet(lane[KeyOf[j]])
<1>1. i \in InMemory /\ KeyOf[i] = KeyOf[j]
  BY WaitingRests DEF IInv, OnceInv, FetchInv, NothingForgotten
<1>2. ASSUME NEW k \in Keys, i \in ToSet(lane[k]) PROVE k = KeyOf[j]
  BY <1>1, <1>2 DEF IInv, OnceInv, FetchInv, RunInv, LanesByKey
<1>. QED
  BY <1>1, <1>2 DEF InMemory

\* enqueueStoredJob keeps the order of the queue of a job that is behind i.
LEMMA EnqueueOrdered ==
    ASSUME IInv, NEW e \in Jobs, Enqueue(e), attempt' = attempt,
           shuttingDown' = shuttingDown,
           NEW j \in Jobs, NEW i \in Waited(j), i \notin Deleting',
           e = j => shuttingDown \/ i \in ToSet(lane[KeyOf[j]])
    PROVE  /\ \/ Follows(lane'[KeyOf[j]], j, i)
              \/ shuttingDown' /\ attempt'[j] = 0
           /\ ToSet(lane[KeyOf[j]]) \subseteq ToSet(lane'[KeyOf[j]])
           /\ e = i => i \in ToSet(lane'[KeyOf[j]])
<1>0. TypeOK /\ QueueTypes
  BY TypeParts DEF IInv, OnceInv, FetchInv, RunInv
<1>1. /\ \A k \in Keys \ {KeyOf[e]} : lane'[k] = lane[k]
      /\ e \notin Bad => lane'[KeyOf[e]] = Append(lane[KeyOf[e]], e)
      /\ e \in Bad => lane' = lane /\ Deleting' = Deleting \cup {e}
  BY <1>0, EnqueueFacts
<1>2. attempt[j] = 0 /\ KeyOf[j] \in Keys /\ KeyOf[i] = KeyOf[j]
  BY WaitingRests
<1>3. \/ Follows(lane[KeyOf[j]], j, i)
      \/ shuttingDown
  BY DEF IInv, OrderKept, Ordered
<1>4. lane[KeyOf[j]] \in Seq(Jobs)
  BY <1>0, <1>2 DEF QueueTypes
<1>5. CASE lane'[KeyOf[j]] = lane[KeyOf[j]]
  BY <1>1, <1>2, <1>3, <1>5, AppendFacts, <1>4
<1>6. CASE lane'[KeyOf[j]] = Append(lane[KeyOf[j]], e)
  <2>1. ToSet(lane'[KeyOf[j]]) = ToSet(lane[KeyOf[j]]) \cup {e}
    BY <1>4, <1>6, AppendFacts
  <2>2. shuttingDown \/ Follows(lane'[KeyOf[j]], j, i)
    BY <1>3, <1>4, <1>6, FollowsAppend
  <2>. QED
    BY <1>2, <2>1, <2>2
<1>. QED
  BY <1>1, <1>2, <1>5, <1>6

\* The jobs of a queue begin in the order in which they were added.
LEMMA OrderStep == IInv /\ [Next]_vars => OrderKept'
<1>. SUFFICES ASSUME IInv, [Next]_vars PROVE OrderKept'
  OBVIOUS
<1>0. TypeOK /\ QueueTypes /\ FlagTypes /\ StateTypes
  BY TypeParts DEF IInv, OnceInv, FetchInv, RunInv
<1>1. ASSUME NEW j \in Jobs, Add(j) PROVE OrderKept'
  <2>1. j \notin ToSet(fetched) \cup InMemory
    BY <1>1 DEF Add, IInv, OnceInv, UnwrittenIsNowhere, Unwritten
  <2>2. /\ UNCHANGED <<fetched, stream, held, lane, attempt, shuttingDown, rows,
                       overlooked, Deleting>>
        /\ \A i \in Jobs \ {j} : before'[i] = before[i]
    BY <1>0, <1>1 DEF Add, streaming, flags, Deleting, StateTypes
  <2>3. ASSUME NEW i \in Jobs \ {j}, NEW h \in Waited(i)' PROVE Ordered(i, h)'
    <3>1. Ordered(i, h)
      BY <2>2, <2>3 DEF IInv, OrderKept, Waited
    <3>. QED
      BY <2>2, <3>1 DEF Ordered
  <2>4. ASSUME NEW h \in Waited(j)' PROVE Ordered(j, h)'
    <3>1. /\ j \notin ToSet(fetched) /\ j \notin ToSet(stream) /\ j \notin held
          /\ j \notin ToSet(lane[KeyOf[j]])
      BY <2>1, JobQueueAssumption DEF InMemory
    <3>. QED
      BY <2>2, <3>1, AbsentFollows DEF Ordered
  <2>. QED
    BY <2>3, <2>4 DEF OrderKept
<1>2. ASSUME NEW e \in Jobs, Inserted(e) \/ Persisted(e) PROVE OrderKept'
  <2>1. /\ rows' = rows \cup {e} /\ adding[e] # "done"
        /\ overlooked \subseteq overlooked'
        /\ UNCHANGED <<fetched, held, lane, attempt, shuttingDown, before, Deleting>>
        /\ stream' = stream \/ (stream' = Append(stream, e) /\ fetch = "done")
    BY <1>0, <1>2 DEF Inserted, Persisted, running, flags, ghosts, Deleting,
       IInv, OnceInv, FetchInv, InsertsKnowTheFetch
  <2>2. CASE stream' = stream
    BY <2>1, <2>2, OrderInvKept
  <2>3. CASE stream' = Append(stream, e) /\ fetch = "done"
    <3>1. \A j \in Jobs : Waited(j)' \subseteq Waited(j)
      BY <2>1, WaitedShrinks
    <3>2. ASSUME NEW j \in Jobs, NEW i \in Waited(j) PROVE Ordered(j, i)'
      <4>1. Ordered(j, i)
        BY <3>2 DEF IInv, OrderKept
      <4>2. CASE shuttingDown \/ i \in held \cup ToSet(lane[KeyOf[j]])
        BY <2>1, <4>1, <4>2 DEF Ordered
      <4>3. CASE ~shuttingDown /\ i \in ToSet(stream) /\ Follows(stream, j, i)
        <5>1. Follows(stream', j, i)
          BY <1>0, <2>3, <4>3, FollowsAppend DEF QueueTypes
        <5>. QED
          BY <2>1, <4>1, <5>1 DEF Ordered
      <4>. QED
        BY <2>3, <3>2, <4>1, <4>2, <4>3, WaitedInMemory DEF Ordered
    <3>. QED
      BY <3>1, <3>2 DEF OrderKept
  <2>. QED
    BY <2>1, <2>2, <2>3
<1>3. ASSUME NEW j \in Jobs, Refused(j) PROVE OrderKept'
  BY <1>3, OrderInvKept DEF Refused, streaming, running, flags, ghosts, Deleting
<1>4. CASE StreamJobs \/ Pause \/ Resume \/ Shutdown \/ UNCHANGED vars
  BY <1>4, OrderInvKept
     DEF StreamJobs, Pause, Resume, Shutdown, vars, streaming,
     running, flags, ghosts, Deleting
<1>5. CASE GetJobsInQueue
  <2>1. UNCHANGED <<stream, held, lane, attempt, shuttingDown, rows, overlooked,
                    before, Deleting>>
    BY <1>5 DEF GetJobsInQueue, running, flags, ghosts, Deleting
  <2>2. \A j \in Jobs : Waited(j)' \subseteq Waited(j)
    BY <2>1, WaitedShrinks
  <2>3. ASSUME NEW j \in Jobs, NEW i \in Waited(j) PROVE Ordered(j, i)'
    <3>1. Ordered(j, i) /\ i \in rows /\ i < j
      BY <1>0, <2>3, WaitingRests DEF IInv, OrderKept, BeforeIsEarlier, Waited
    <3>2. rows \in SUBSET Jobs /\ fetched' = ByTimestamp(rows)
      BY <1>0, <1>5 DEF GetJobsInQueue, StateTypes
    <3>3. Follows(fetched', j, i)
      <4>1. CASE j \in rows
        BY <3>1, <3>2, <4>1, ByTimestampFacts
      <4>2. CASE j \notin rows
        BY <3>2, <4>2, ByTimestampFacts, AbsentFollows
      <4>. QED
        BY <4>1, <4>2
    <3>. QED
      BY <2>1, <3>1, <3>3 DEF Ordered
  <2>. QED
    BY <2>2, <2>3 DEF OrderKept
<1>6. CASE FetchReturns
  <2>. DEFINE waiting == {j \in Jobs : adding[j] = "waiting"}
              told == ByTimestamp(waiting \cap Own)
  <2>1. told \in Seq(Jobs) /\ ToSet(told) = waiting \cap Own
    BY ByTimestampFacts
  <2>2. fetched \in Seq(Jobs) /\ stream = <<>> /\ held = {}
    BY <1>0, <1>6
       DEF FetchReturns, QueueTypes, IInv, OnceInv, FetchInv,
           NothingBeforeTheFetch
  <2>. HIDE DEF told
  <2>3. stream' = fetched \o told /\ fetched' = <<>>
    <3>1. stream' = fetched \o stream \o told /\ fetched' = <<>>
      BY <1>6 DEF FetchReturns, told
    <3>. QED
      BY <2>2, <3>1, ConcatEmptySeq
  <2>4. UNCHANGED <<held, lane, attempt, shuttingDown, rows, overlooked, before, Deleting>>
    BY <1>6 DEF FetchReturns, running, flags, ghosts, Deleting
  <2>5. \A j \in Jobs : Waited(j)' \subseteq Waited(j)
    BY <2>4, WaitedShrinks
  <2>6. ASSUME NEW j \in Jobs, NEW i \in Waited(j) PROVE Ordered(j, i)'
    <3>1. Ordered(j, i)
      BY <2>6 DEF IInv, OrderKept
    <3>2. i \in rows /\ i \notin overlooked /\ adding[i] = "done" /\ i \in Jobs
      BY <2>6, WaitingRests
    <3>3. i \in ToSet(fetched)
      BY <1>6, <3>2 DEF FetchReturns, IInv, OnceInv, FetchInv, FetchSeesTheTable
    <3>4. Follows(fetched \o told, j, i)
      BY <2>1, <2>2, <3>1, <3>3, FollowsConcat DEF Ordered
    <3>. QED
      BY <2>2, <2>3, <2>4, <3>1, <3>4, EmptyFacts DEF Ordered
  <2>. QED
    BY <2>5, <2>6 DEF OrderKept
<1>7. CASE Take
  <2>. DEFINE e == Head(stream)
  <2>1. /\ e \in Jobs /\ stream \in Seq(Jobs) /\ stream # <<>>
        /\ ToSet(stream) = {e} \cup ToSet(Tail(stream))
    BY <1>0, <1>7, TailFacts DEF Take, QueueTypes
  <2>2. /\ stream' = Tail(stream) /\ held = {}
        /\ UNCHANGED <<fetched, attempt, shuttingDown, rows, overlooked, before>>
    BY <1>7 DEF Take, flags
  <2>3. Deleting \subseteq Deleting'
    <3>1. CASE shuttingDown \/ paused
      BY <1>7, <3>1 DEF Take, Deleting
    <3>2. CASE ~shuttingDown /\ ~paused
      BY <1>0, <1>7, <2>1, <3>2, EnqueueFacts DEF Take
    <3>. QED
      BY <3>1, <3>2
  <2>4. \A j \in Jobs : Waited(j)' \subseteq Waited(j)
    BY <2>2, <2>3, WaitedShrinks
  <2>5. ASSUME NEW j \in Jobs, NEW i \in Waited(j), i \notin Deleting'
        PROVE  Ordered(j, i)'
    <3>1. Ordered(j, i)
      BY <2>5 DEF IInv, OrderKept
    <3>2. ASSUME Follows(stream, j, i)
          PROVE  e # j /\ (e # i => Follows(Tail(stream), j, i))
      BY <2>1, <3>2, FollowsTail
    <3>3. CASE shuttingDown
      BY <1>7, <2>2, <3>1, <3>3 DEF Take, Ordered
    <3>4. CASE ~shuttingDown /\ paused
      <4>1. held' = {e} /\ lane' = lane
        BY <1>7, <3>4 DEF Take
      <4>. QED
        BY <2>2, <3>1, <3>2, <3>4, <4>1 DEF Ordered
    <3>5. CASE ~shuttingDown /\ ~paused
      <4>1. Enqueue(e) /\ held' = {}
        BY <1>7, <2>2, <3>5 DEF Take
      <4>2. e = j => i \in ToSet(lane[KeyOf[j]])
        BY <2>2, <3>1, <3>2, <3>5 DEF Ordered
      <4>3. /\ \/ Follows(lane'[KeyOf[j]], j, i)
               \/ shuttingDown' /\ attempt'[j] = 0
            /\ ToSet(lane[KeyOf[j]]) \subseteq ToSet(lane'[KeyOf[j]])
            /\ e = i => i \in ToSet(lane'[KeyOf[j]])
        BY <2>1, <2>2, <2>5, <4>1, <4>2, EnqueueOrdered
      <4>. QED
        BY <2>2, <3>1, <3>2, <3>5, <4>1, <4>3 DEF Ordered
    <3>. QED
      BY <1>0, <3>3, <3>4, <3>5 DEF FlagTypes
  <2>. QED
    BY <2>4, <2>5 DEF OrderKept, Waited
<1>8. CASE Release
  <2>1. PICK e \in held : Enqueue(e)
    BY <1>8 DEF Release
  <2>2. e \in Jobs /\ held = {e}
    BY <1>0, <2>1, HeldIsOne
  <2>3. /\ held' = {}
        /\ UNCHANGED <<fetched, stream, attempt, shuttingDown, rows, overlooked, before>>
    BY <1>8 DEF Release, flags
  <2>4. Deleting \subseteq Deleting'
    BY <1>0, <2>1, <2>2, EnqueueFacts
  <2>5. \A j \in Jobs : Waited(j)' \subseteq Waited(j)
    BY <2>3, <2>4, WaitedShrinks
  <2>6. ASSUME NEW j \in Jobs, NEW i \in Waited(j), i \notin Deleting'
        PROVE  Ordered(j, i)'
    <3>1. Ordered(j, i)
      BY <2>6 DEF IInv, OrderKept
    <3>2. e = j => shuttingDown \/ i \in ToSet(lane[KeyOf[j]])
      BY <2>1, <3>1 DEF Ordered
    <3>3. /\ \/ Follows(lane'[KeyOf[j]], j, i)
             \/ shuttingDown' /\ attempt'[j] = 0
          /\ ToSet(lane[KeyOf[j]]) \subseteq ToSet(lane'[KeyOf[j]])
          /\ e = i => i \in ToSet(lane'[KeyOf[j]])
      BY <2>1, <2>2, <2>3, <2>6, <3>2, EnqueueOrdered
    <3>. QED
      BY <2>2, <2>3, <3>1, <3>3 DEF Ordered
  <2>. QED
    BY <2>5, <2>6 DEF OrderKept, Waited
<1>9. ASSUME NEW k \in Keys, NEW e \in Jobs,
             Begin(k, e) \/ RunReturns(k, e) \/ RunThrows(k, e)
      PROVE  OrderKept'
  <2>1. /\ Runs(k, e)
        /\ UNCHANGED <<streaming, adding, paused, shuttingDown, rows,
                       overlooked, before, spent>>
        /\ \/ \E result \in Results :
                 /\ End(k, e, result)
                 /\ result = "shutdown" => shuttingDown
           \/ /\ ~shuttingDown
              /\ attempt' = [attempt EXCEPT ![e] = @ + 1]
              /\ UNCHANGED <<lane, ending, completion, draining, ended>>
    BY <1>9, RunFacts
  <2>2. CASE /\ ~shuttingDown
             /\ attempt' = [attempt EXCEPT ![e] = @ + 1]
             /\ UNCHANGED <<lane, ending, completion, draining, ended>>
    <3>1. \A j \in Jobs : Waited(j)' \subseteq Waited(j)
      BY <2>1, <2>2, WaitedShrinks DEF Deleting
    <3>2. ASSUME NEW j \in Jobs, NEW i \in Waited(j) PROVE Ordered(j, i)'
      <4>1. Ordered(j, i)
        BY <3>2 DEF IInv, OrderKept
      <4>. QED
        BY <2>1, <2>2, <4>1 DEF Ordered, streaming
    <3>. QED
      BY <3>1, <3>2 DEF OrderKept
  <2>3. ASSUME NEW result \in Results, End(k, e, result),
               result = "shutdown" => shuttingDown
        PROVE  OrderKept'
    <3>1. /\ \A q \in Keys \ {k} : lane'[q] = lane[q]
          /\ lane'[k] = Tail(lane[k])
          /\ attempt'[e] = 0 /\ \A i \in Jobs \ {e} : attempt'[i] = attempt[i]
          /\ Deletes(result) => Deleting' = Deleting \cup {e}
          /\ ~Deletes(result) => Deleting' = Deleting
      BY <1>0, <2>1, <2>3, EndFacts
    <3>2. /\ lane[k] \in Seq(Jobs) /\ lane[k] # <<>> /\ Head(lane[k]) = e
          /\ ToSet(lane[k]) = {e} \cup ToSet(Tail(lane[k]))
      BY <1>0, <2>1, TailFacts DEF Runs, QueueTypes
    <3>3. \A j \in Jobs : Waited(j)' \subseteq Waited(j)
      BY <2>1, <3>1, WaitedShrinks
    <3>4. ASSUME NEW j \in Jobs, NEW i \in Waited(j), i \notin Deleting'
          PROVE  Ordered(j, i)'
      <4>1. Ordered(j, i) /\ attempt[j] = 0 /\ KeyOf[j] \in Keys
        BY <3>4, WaitingRests DEF IInv, OrderKept
      <4>2. attempt'[j] = 0
        BY <3>1, <4>1
      <4>3. CASE shuttingDown
        BY <2>1, <4>1, <4>2, <4>3 DEF Ordered, streaming
      <4>4. CASE ~shuttingDown
        <5>1. i # e
          BY <2>3, <3>1, <3>4, <4>4 DEF Deletes
        <5>2. Follows(lane[KeyOf[j]], j, i)
          BY <4>1, <4>4 DEF Ordered
        <5>3. Follows(lane'[KeyOf[j]], j, i)
          BY <3>1, <3>2, <4>1, <5>1, <5>2, FollowsTail
        <5>4. i \in ToSet(lane[KeyOf[j]]) => i \in ToSet(lane'[KeyOf[j]])
          BY <3>1, <3>2, <4>1, <5>1
        <5>. QED
          BY <2>1, <4>1, <4>4, <5>3, <5>4 DEF Ordered, streaming
      <4>. QED
        BY <4>3, <4>4
    <3>. QED
      BY <3>3, <3>4 DEF OrderKept, Waited
  <2>. QED
    BY <2>1, <2>2, <2>3
<1>10. CASE DeleteReturns
  <2>1. Deleting = Deleting' \cup {Head(ending).job}
    BY <1>0, <1>10, DeletingFacts DEF DeleteReturns, QueueTypes
  <2>. QED
    BY <1>10, <2>1, OrderInvKept DEF DeleteReturns, streaming, flags, ghosts
<1>11. CASE Quit \/ Crash
  <2>1. EndProcess
    BY <1>11 DEF Quit, Crash
  <2>2. ASSUME NEW j \in Jobs PROVE KeyOf[j] \in Keys
    BY JobQueueAssumption
  <2>. QED
    BY <2>1, <2>2, EmptyFacts DEF EndProcess, OrderKept, Ordered
<1>. QED
  BY <1>1, <1>2, <1>3, <1>4, <1>5, <1>6, <1>7, <1>8, <1>9, <1>10, <1>11
     DEF Next, Steps, Work

-----------------------------------------------------------------------------
\* The first state of the first process.
LEMMA Initially == Init => IInv
<1>. SUFFICES ASSUME Init PROVE IInv
  OBVIOUS
<1>1. /\ \A k \in Keys : lane[k] = <<>>
      /\ \A j \in Jobs : /\ KeyOf[j] \in Keys /\ attempt[j] = 0
                         /\ adding[j] = "none" /\ before[j] = {}
      /\ Deleting = {} /\ stream = <<>> /\ fetched = <<>> /\ held = {}
      /\ rows = {} /\ fetch = "none" /\ ~broken /\ ~shuttingDown
  BY JobQueueAssumption DEF Init, InitProcess, Deleting
<1>2. TypeOK
  <2>1. QueueTypes
    BY EmptySeq, SmallSets DEF Init, InitProcess, QueueTypes
  <2>2. FlagTypes
    BY DEF Init, InitProcess, FlagTypes
  <2>3. StateTypes
    BY JobQueueAssumption DEF Init, InitProcess, StateTypes
  <2>. QED
    BY <2>1, <2>2, <2>3, TypeParts
<1>3. RunInv
  BY <1>1, <1>2, EmptyFacts
     DEF RunInv, LanesByKey, HeadsRun, ShutdownWaits, DeletesFollowResults
<1>4. FetchInv
  BY <1>1, <1>3 DEF FetchInv, NothingBeforeTheFetch, InsertsKnowTheFetch,
     FetchSeesTheTable, NothingForgotten
<1>5. UnwrittenIsNowhere /\ OnePlace
  BY <1>1, EmptyFacts DEF UnwrittenIsNowhere, OnePlace, InMemory
<1>. QED
  BY <1>1, <1>4, <1>5 DEF IInv, OnceInv, BeforeIsEarlier, OrderKept, Waited

\* Every step keeps it.
LEMMA Inductive == IInv /\ [Next]_vars => IInv'
BY OnceStep, BeforeStep, OrderStep DEF IInv

\* The inductive invariant: where the jobs are, once, and in which order.
THEOREM Invariance == Spec => []IInv
BY Initially, Inductive, PTL DEF Spec

\* Every variable keeps its type.
THEOREM TypeCorrect == Spec => []TypeOK
<1>1. IInv => TypeOK
  BY DEF IInv, OnceInv, FetchInv, RunInv
<1>. QED
  BY Invariance, <1>1, PTL

\* Once the table has been fetched, no row is lost until the next start
\* (streamJobs, JobQueueDatabaseStore.insert).
THEOREM NoRowForgotten == Spec => []NothingForgotten
<1>1. IInv => NothingForgotten
  BY DEF IInv, OnceInv, FetchInv
<1>. QED
  BY Invariance, <1>1, PTL

\* A job that store.insert has persisted is in memory once, whether the fetch
\* saw its row or not (JobQueueDatabaseStore.insert, stream).
THEOREM OneCopy == Spec => []OncePerInsert
<1>1. ASSUME IInv, NEW j \in Jobs \ Own
      PROVE  Copies(stream, j) + Copies(lane[KeyOf[j]], j)
                 + Cardinality(held \cap {j}) <= 1
  <2>1. /\ Once(stream, j) /\ Once(lane[KeyOf[j]], j)
        /\ j \in held => j \notin ToSet(stream) \cup ToSet(lane[KeyOf[j]])
        /\ j \in ToSet(stream) => j \notin ToSet(lane[KeyOf[j]])
    BY <1>1 DEF IInv, OnceInv, OnePlace
  <2>2. Copies(stream, j) = IF j \in ToSet(stream) THEN 1 ELSE 0
    BY <2>1, OnceIsOnePlace DEF Copies
  <2>3. Copies(lane[KeyOf[j]], j) = IF j \in ToSet(lane[KeyOf[j]]) THEN 1 ELSE 0
    BY <2>1, OnceIsOnePlace DEF Copies
  <2>4. CASE j \in held
    <3>1. held \cap {j} = {j}
      BY <2>4
    <3>2. Cardinality(held \cap {j}) = 1
      BY <3>1, FS_Singleton
    <3>. QED
      BY <2>1, <2>2, <2>3, <2>4, <3>2
  <2>5. CASE j \notin held
    <3>1. held \cap {j} = {}
      BY <2>5
    <3>2. Cardinality(held \cap {j}) = 0
      BY <3>1, FS_EmptySet
    <3>. QED
      BY <2>1, <2>2, <2>3, <3>2
  <2>. QED
    BY <2>4, <2>5
<1>2. IInv => OncePerInsert
  BY <1>1 DEF OncePerInsert
<1>. QED
  BY Invariance, <1>2, PTL

\* A job of a conversation does not run before one whose add() had returned
\* when it was added: the order of the timestamps, that of the stream and that
\* of the queue in memory agree (getJobsInQueue, streamJobs).
THEOREM InOrder == Spec => []StartsInOrder
<1>1. ASSUME IInv, NEW j \in Jobs, Executing(j) PROVE Waited(j) = {}
  <2>1. attempt[j] \in Nat /\ attempt[j] > 0
    BY <1>1, TypeParts, JobQueueAssumption
       DEF Executing, IInv, OnceInv, FetchInv, RunInv, StateTypes
  <2>2. ASSUME NEW i \in Waited(j) PROVE FALSE
    BY <1>1, <2>1, <2>2, WaitingRests
  <2>. QED
    BY <2>2
<1>2. IInv => StartsInOrder
  BY <1>1 DEF StartsInOrder, Waited
<1>. QED
  BY Invariance, <1>2, PTL

\* When shutdown() has resolved no job runs, nor one that was held by a pause
\* (shutdown, enqueueStoredJob).
THEOREM Quiet == Spec => []QuietAfterShutdown
<1>1. IInv => QuietAfterShutdown
  BY DEF IInv, OnceInv, FetchInv, RunInv, ShutdownWaits, QuietAfterShutdown,
     Drained, Executing
<1>. QED
  BY Invariance, <1>1, PTL

\* Rows leave the table for a result only, at a delete or at the end of a
\* process (enqueueStoredJob).
THEOREM RowsLeaveForResults == Spec => RowKept
<1>1. ASSUME IInv, [Next]_vars PROVE rows \ rows' \subseteq ended
  <2>0. Deleting \subseteq ended /\ QueueTypes
    BY <1>1, TypeParts
       DEF IInv, OnceInv, FetchInv, RunInv, DeletesFollowResults
  <2>1. CASE DeleteReturns
    <3>1. Deleting = Deleting' \cup {Head(ending).job}
      BY <2>0, <2>1, DeletingFacts DEF DeleteReturns, QueueTypes
    <3>. QED
      BY <2>0, <2>1, <3>1 DEF DeleteReturns
  <2>2. CASE Quit \/ Crash
    BY <2>0, <2>2 DEF Quit, Crash, EndProcess, Served
  <2>3. ASSUME NEW j \in Jobs, Inserted(j) \/ Persisted(j)
        PROVE  rows \subseteq rows'
    BY <2>3 DEF Inserted, Persisted
  <2>4. CASE rows' = rows
    BY <2>4
  <2>. QED
    BY <1>1, <2>1, <2>2, <2>3, <2>4 DEF Next, Steps, Work, StreamJobs,
       GetJobsInQueue, FetchReturns, Take, Release, Refused, Add, Begin,
       RunReturns, RunThrows, Pause, Resume, Shutdown, vars
<1>2. IInv /\ [Next]_vars => [rows \ rows' \subseteq ended]_vars
  BY <1>1
<1>. QED
  BY Invariance, <1>2, PTL DEF RowKept, Spec
=============================================================================
