------------------------------- MODULE JobQueue -------------------------------
(***************************************************************************)
(* JobQueue: jobs that are rows of a table, streamed into queues in memory *)
(* that run one job at a time.  Over JobQueueDatabaseStore, whose stream   *)
(* is a first fetch of the table, then whatever is inserted; the queue of  *)
(* a job is InMemoryQueues', by its key (a conversation).                  *)
(*                                                                         *)
(* A fetch is read and answered in two steps: it has a connection of its   *)
(* own, and inserts may be served between.  A write takes effect when it   *)
(* is answered, and a crash may find it served or not.                     *)
(***************************************************************************)
EXTENDS Naturals, SequencesExt

CONSTANTS
    Jobs,         \* numbered in the order of their timestamps
    Keys, KeyOf,  \* the queues in memory, and the one of each job
    Own,          \* the jobs added with an insert of their own
    Bad,          \* the jobs whose data cannot be parsed
    MaxAttempts,  \* #maxAttempts
    MaxCrashes, MaxPauses, MaxShutdowns  \* bounds

ASSUME JobQueueAssumption ==
    /\ Jobs \subseteq Nat /\ IsFiniteSet(Jobs)
    /\ KeyOf \in [Jobs -> Keys]
    /\ Own \subseteq Jobs /\ Bad \subseteq Jobs
    /\ MaxAttempts \in Nat \ {0}
    /\ {MaxCrashes, MaxPauses, MaxShutdowns} \subseteq Nat

VARIABLES
    fetch,        \* the first fetch; "none" while not #started
    fetched,      \* what it has read
    stream,       \* what is left of the fetch, and the AsyncQueue after it
    held,         \* the jobs that streamJobs holds while paused: one at most
    broken,       \* has streamJobs left its loop?
    adding,       \* where add() of each job stands
    lane,         \* the queues in memory; the head of one runs
    attempt,      \* the attempt of a job that runs, 0 before the first
    ending,       \* the deletes asked of the database, with what follows them
    completion,   \* what has become of job.completion
    paused,       \* #paused
    shuttingDown, \* #shuttingDown
    draining,     \* the queues whose onIdle() shutdown() waits for
    rows,         \* the table
    \* for the properties
    ended,        \* the jobs that have had a result for good
    overlooked,   \* rows written after the fetch that nobody was told of
    before,       \* the jobs whose add() had returned when a job was added
    spent         \* what the bounds have allowed so far

streaming == <<fetch, fetched, stream, held, broken>>
running == <<lane, attempt, ending, completion>>
flags == <<paused, shuttingDown, draining>>
ghosts == <<ended, overlooked, before, spent>>
vars == <<streaming, adding, running, flags, rows, ghosts>>

InitProcess ==
    /\ fetch = "none" /\ fetched = <<>> /\ stream = <<>> /\ held = {}
    /\ broken = FALSE
    /\ lane = [k \in Keys |-> <<>>] /\ attempt = [j \in Jobs |-> 0]
    /\ ending = <<>> /\ completion = [j \in Jobs |-> "none"]
    /\ paused = FALSE /\ shuttingDown = FALSE /\ draining = {}
    /\ overlooked = {}

Init ==
    /\ InitProcess
    /\ adding = [j \in Jobs |-> "none"] /\ rows = {}
    /\ ended = {} /\ before = [j \in Jobs |-> {}]
    /\ spent = [crashes |-> 0, pauses |-> 0, shutdowns |-> 0]

-----------------------------------------------------------------------------
\* add() and JobQueueDatabaseStore.insert.

\* Mutant of Awaited: insert does not wait for the first fetch.
NotAwaited == IF fetch = "none" THEN "detached" ELSE "persisting"

\* What insert does with a job that it is to persist: there is no fetch to wait
\* for before streaming has started, and then the stream is not told either.
Awaited ==
    CASE fetch = "none" -> "detached"
      [] fetch = "done" -> "persisting"
      [] OTHER -> "waiting"

Returned(k) == {i \in Jobs : adding[i] = "done" /\ KeyOf[i] = k}

Add(j) ==
    /\ adding[j] = "none"
    /\ \A i \in Jobs : i < j => adding[i] # "none"
    /\ adding' = [adding EXCEPT ![j] = IF j \in Own THEN "inserting" ELSE Awaited]
    /\ completion' = [completion EXCEPT ![j] = "open"]
    /\ before' = [before EXCEPT ![j] = Returned(KeyOf[j])]
    /\ UNCHANGED <<streaming, lane, attempt, ending, flags, rows, ended,
                   overlooked, spent>>

\* The insert of the caller is done; store.insert follows, which persists
\* nothing more.
Inserted(j) ==
    /\ adding[j] = "inserting"
    /\ rows' = rows \cup {j}
    /\ CASE fetch = "none" -> /\ adding' = [adding EXCEPT ![j] = "done"]
                              /\ UNCHANGED stream
         [] fetch = "done" -> /\ adding' = [adding EXCEPT ![j] = "done"]
                              /\ stream' = Append(stream, j)
         [] OTHER -> /\ adding' = [adding EXCEPT ![j] = "waiting"]
                     /\ UNCHANGED stream
    /\ UNCHANGED <<fetch, fetched, held, broken, running, flags, ghosts>>

\* insertJob is answered, and the job joins the stream that there was when
\* store.insert was called.
Persisted(j) ==
    /\ adding[j] \in {"persisting", "detached"}
    /\ rows' = rows \cup {j}
    /\ adding' = [adding EXCEPT ![j] = "done"]
    /\ IF adding[j] = "persisting"
       THEN stream' = Append(stream, j) /\ UNCHANGED overlooked
       ELSE /\ overlooked' = IF fetch \in {"read", "done"}
                             THEN overlooked \cup {j} ELSE overlooked
            /\ UNCHANGED stream
    /\ UNCHANGED <<fetch, fetched, held, broken, running, flags, ended,
                   before, spent>>

\* The database refuses the insert: add() throws.
Refused(j) ==
    /\ adding[j] \in {"inserting", "persisting", "detached"}
    /\ adding' = [adding EXCEPT ![j] = "gone"]
    /\ UNCHANGED <<streaming, running, flags, rows, ghosts>>

-----------------------------------------------------------------------------
\* streamJobs, and the stream of JobQueueDatabaseStore.

\* ORDER BY timestamp.
ByTimestamp(S) ==
    CHOOSE s \in [1..Cardinality(S) -> S] :
        \A m, n \in DOMAIN s : m < n => s[m] < s[n]

\* streamJobs begins: fetchJobsAtStart makes its request.
StreamJobs ==
    /\ fetch = "none" /\ fetch' = "asked"
    /\ UNCHANGED <<fetched, stream, held, broken, adding, running, flags, rows,
                   ghosts>>

\* Mutant of GetJobsInQueue: no ORDER BY.
GetJobsUnordered ==
    /\ fetch = "asked" /\ fetch' = "read"
    /\ fetched' = Reverse(ByTimestamp(rows))
    /\ UNCHANGED <<stream, held, broken, adding, running, flags, rows, ghosts>>

\* getJobsInQueue reads the table.
GetJobsInQueue ==
    /\ fetch = "asked" /\ fetch' = "read"
    /\ fetched' = ByTimestamp(rows)
    /\ UNCHANGED <<stream, held, broken, adding, running, flags, rows, ghosts>>

\* The fetch is answered, and the inserts that waited for it go on: a job whose
\* caller has inserted it joins the stream, another is persisted first.
FetchReturns ==
    LET waiting == {j \in Jobs : adding[j] = "waiting"} IN
    /\ fetch = "read" /\ fetch' = "done"
    /\ fetched' = <<>>
    /\ stream' = fetched \o stream \o ByTimestamp(waiting \cap Own)
    /\ adding' = [j \in Jobs |-> IF j \notin waiting THEN adding[j]
                                 ELSE IF j \in Own THEN "done" ELSE "persisting"]
    /\ UNCHANGED <<held, broken, running, flags, rows, ghosts>>

\* enqueueStoredJob up to its first await.
Enqueue(j) ==
    IF j \in Bad
    THEN /\ ending' = Append(ending, [job |-> j, result |-> "unparsed"])
         /\ ended' = ended \cup {j}
         /\ UNCHANGED lane
    ELSE /\ lane' = [lane EXCEPT ![KeyOf[j]] = Append(@, j)]
         /\ UNCHANGED <<ending, ended>>

\* Mutant of Take: a paused queue passes over the job.
TakeNothing ==
    /\ stream # <<>> /\ held = {} /\ ~broken
    /\ stream' = Tail(stream)
    /\ IF shuttingDown
       THEN broken' = TRUE /\ UNCHANGED <<lane, ending, ended>>
       ELSE IF paused
       THEN UNCHANGED <<broken, lane, ending, ended>>
       ELSE Enqueue(Head(stream)) /\ UNCHANGED broken
    /\ UNCHANGED <<fetch, fetched, held, adding, attempt, completion, flags,
                   rows, overlooked, before, spent>>

\* The loop of streamJobs takes the next job.
Take ==
    /\ stream # <<>> /\ held = {} /\ ~broken
    /\ stream' = Tail(stream)
    /\ IF shuttingDown
       THEN broken' = TRUE /\ UNCHANGED <<held, lane, ending, ended>>
       ELSE IF paused
       THEN held' = {Head(stream)} /\ UNCHANGED <<broken, lane, ending, ended>>
       ELSE Enqueue(Head(stream)) /\ UNCHANGED <<held, broken>>
    /\ UNCHANGED <<fetch, fetched, adding, attempt, completion, flags, rows,
                   overlooked, before, spent>>

\* Mutant of Release: the job is passed over.
ReleaseNothing ==
    /\ ~paused /\ held # {} /\ held' = {}
    /\ UNCHANGED <<fetch, fetched, stream, broken, adding, running, flags, rows,
                   ghosts>>

\* Its sleep finds that the queue has been resumed.
Release ==
    /\ ~paused
    /\ \E j \in held : Enqueue(j)
    /\ held' = {}
    /\ UNCHANGED <<fetch, fetched, stream, broken, adding, attempt, completion,
                   flags, rows, overlooked, before, spent>>

-----------------------------------------------------------------------------
\* The run of a job, in its queue.

Runs(k, j) == lane[k] # <<>> /\ Head(lane[k]) = j

\* Mutant of Deletes: isShuttingDown is not looked at.
DeletesAlways(result) == TRUE

\* Is the job deleted after this result?  NEEDS_RETRY is dropped by the base
\* class, whose retryJobOnQueueIdle is false at once.
Deletes(result) == result \in {"success", "retry"} \/ ~shuttingDown

\* How completion is settled.
Settled(j, result) ==
    [completion EXCEPT ![j] = IF @ # "open" THEN @
        ELSE IF result \in {"success", "retry"} THEN "resolved" ELSE "rejected"]

\* The function given to the p-queue has returned, which goes on with the next.
End(k, j, result) ==
    /\ lane' = [lane EXCEPT ![k] = Tail(@)]
    /\ attempt' = [attempt EXCEPT ![j] = 0]
    /\ draining' = IF Len(lane[k]) = 1 THEN draining \ {k} ELSE draining
    /\ ended' = IF result = "shutdown" THEN ended ELSE ended \cup {j}
    /\ IF Deletes(result)
       THEN /\ ending' = Append(ending, [job |-> j, result |-> result])
            /\ UNCHANGED completion
       ELSE completion' = Settled(j, result) /\ UNCHANGED ending

\* Mutant of Attempt: isShuttingDown is not looked at.
AttemptRegardless(k, j) ==
    /\ attempt' = [attempt EXCEPT ![j] = @ + 1]
    /\ UNCHANGED <<lane, ending, completion, draining, ended>>

\* The head of the loop over the attempts.
Attempt(k, j) ==
    IF shuttingDown THEN End(k, j, "shutdown")
    ELSE /\ attempt' = [attempt EXCEPT ![j] = @ + 1]
         /\ UNCHANGED <<lane, ending, completion, draining, ended>>

Begin(k, j) ==
    /\ Runs(k, j) /\ attempt[j] = 0
    /\ Attempt(k, j)
    /\ UNCHANGED <<streaming, adding, paused, shuttingDown, rows, overlooked,
                   before, spent>>

\* run() resolves, with NEEDS_RETRY or without.
RunReturns(k, j) ==
    /\ Runs(k, j) /\ attempt[j] > 0
    /\ \E result \in {"success", "retry"} : End(k, j, result)
    /\ UNCHANGED <<streaming, adding, paused, shuttingDown, rows, overlooked,
                   before, spent>>

\* run() throws.
RunThrows(k, j) ==
    /\ Runs(k, j) /\ attempt[j] > 0
    /\ IF attempt[j] = MaxAttempts THEN End(k, j, "failed") ELSE Attempt(k, j)
    /\ UNCHANGED <<streaming, adding, paused, shuttingDown, rows, overlooked,
                   before, spent>>

\* The next deleteJob is answered.
DeleteReturns ==
    /\ ending # <<>>
    /\ ending' = Tail(ending)
    /\ rows' = rows \ {Head(ending).job}
    /\ completion' = Settled(Head(ending).job, Head(ending).result)
    /\ UNCHANGED <<streaming, adding, lane, attempt, flags, ghosts>>

-----------------------------------------------------------------------------
\* pause, resume, shutdown and the process.

Pause ==
    /\ ~paused /\ spent.pauses < MaxPauses
    /\ paused' = TRUE
    /\ spent' = [spent EXCEPT !.pauses = @ + 1]
    /\ UNCHANGED <<streaming, adding, running, shuttingDown, draining, rows,
                   ended, overlooked, before>>

Resume ==
    /\ paused /\ paused' = FALSE
    /\ UNCHANGED <<streaming, adding, running, shuttingDown, draining, rows,
                   ghosts>>

Shutdown ==
    /\ ~shuttingDown /\ spent.shutdowns < MaxShutdowns
    /\ shuttingDown' = TRUE
    /\ draining' = {k \in Keys : lane[k] # <<>>}
    /\ spent' = [spent EXCEPT !.shutdowns = @ + 1]
    /\ UNCHANGED <<streaming, adding, running, paused, rows, ended,
                   overlooked, before>>

Drained == shuttingDown /\ draining = {}

\* The writes in flight, and what the table is when some of them were served.
Inserting == {j \in Jobs : adding[j] \in {"inserting", "persisting", "detached"}}
Deleting == {ending[i].job : i \in DOMAIN ending}
Served(inserts, deletes) == (rows \cup inserts) \ deletes

\* The process ends, and another begins.
EndProcess ==
    /\ fetch' = "none" /\ fetched' = <<>> /\ stream' = <<>> /\ held' = {}
    /\ broken' = FALSE
    /\ lane' = [k \in Keys |-> <<>>] /\ attempt' = [j \in Jobs |-> 0]
    /\ ending' = <<>> /\ completion' = [j \in Jobs |-> "none"]
    /\ paused' = FALSE /\ shuttingDown' = FALSE /\ draining' = {}
    /\ overlooked' = {}
    /\ adding' = [j \in Jobs |-> IF adding[j] \in {"none", "done"} THEN adding[j]
                                 ELSE "gone"]
    /\ \E inserts \in SUBSET Inserting, deletes \in SUBSET Deleting :
         rows' = Served(inserts, deletes)
    /\ UNCHANGED <<ended, before>>

\* After shutdown() has resolved.
Quit == Drained /\ EndProcess /\ UNCHANGED spent

Crash ==
    /\ spent.crashes < MaxCrashes
    /\ spent' = [spent EXCEPT !.crashes = @ + 1]
    /\ EndProcess

Steps ==
    \/ StreamJobs \/ GetJobsInQueue \/ FetchReturns \/ Take \/ Release
    \/ DeleteReturns
    \/ \E j \in Jobs : Inserted(j) \/ Persisted(j) \/ Refused(j)

Work(k) == \E j \in Jobs : Begin(k, j) \/ RunReturns(k, j) \/ RunThrows(k, j)

Next ==
    \/ Steps \/ Pause \/ Resume \/ Shutdown \/ Quit \/ Crash
    \/ \E k \in Keys : Work(k)
    \/ \E j \in Jobs : Add(j)

\* The application streams, the database answers, runs end, whoever pauses
\* resumes, and the application that has been shut down is started again.
Fairness ==
    /\ WF_vars(Steps) /\ WF_vars(Resume) /\ WF_vars(Quit)
    /\ \A k \in Keys : WF_vars(Work(k))

Spec == Init /\ [][Next]_vars /\ Fairness
-----------------------------------------------------------------------------
Results == {"success", "retry", "unparsed", "failed", "shutdown"}
JobSeqs == Seq(Jobs)

TypeOK ==
    /\ fetch \in {"none", "asked", "read", "done"}
    /\ fetched \in JobSeqs /\ stream \in JobSeqs
    /\ held \subseteq Jobs /\ Cardinality(held) <= 1
    /\ broken \in BOOLEAN /\ paused \in BOOLEAN /\ shuttingDown \in BOOLEAN
    /\ adding \in [Jobs -> {"none", "inserting", "detached", "waiting",
                            "persisting", "done", "gone"}]
    /\ lane \in [Keys -> JobSeqs] /\ attempt \in [Jobs -> 0..MaxAttempts]
    /\ ending \in Seq([job : Jobs, result : Results])
    /\ completion \in [Jobs -> {"none", "open", "resolved", "rejected"}]
    /\ draining \subseteq Keys
    /\ rows \subseteq Jobs /\ overlooked \subseteq Jobs /\ ended \subseteq Jobs
    /\ before \in [Jobs -> SUBSET Jobs]

InMemory == ToSet(stream) \cup held \cup UNION {ToSet(lane[k]) : k \in Keys}
Copies(s, j) == Cardinality({i \in DOMAIN s : s[i] = j})
Executing(j) == \E k \in Keys : Runs(k, j) /\ attempt[j] > 0

\* Once the table has been fetched, a row is on its way to a run or behind it:
\* neither a pause, nor an insert that waited for the fetch, nor data that do
\* not parse lose a job until the next start (streamJobs).  Rows that were
\* written after the fetch by an add() called before it are the exception.
NothingForgotten ==
    fetch = "done" /\ ~shuttingDown =>
        rows \subseteq InMemory \cup Deleting \cup overlooked

\* One copy of a job in memory for one insert ("it should produce one job per
\* `insert`", JobQueueStore.stream), though the fetch may see its row as well.
OncePerInsert ==
    \A j \in Jobs \ Own :
        Copies(stream, j) + Copies(lane[KeyOf[j]], j)
            + Cardinality(held \cap {j}) <= 1

\* A job whose add() had returned before another of its conversation was added
\* does not run after it has begun: not across the fetch, and not across a
\* restart, which fetches the rows in the order of their timestamps.
StartsInOrder ==
    \A j \in Jobs : Executing(j) =>
        before[j] \cap rows \subseteq overlooked \cup Deleting

\* When shutdown() has resolved, nothing runs and nothing starts to, not even a
\* job that streamJobs held while the queue was paused.
QuietAfterShutdown == Drained => \A j \in Jobs : ~Executing(j)

\* A row leaves the table only when its job has ended for good: a shutdown or a
\* crash during an attempt keeps it (enqueueStoredJob, "Shutting down").
RowKept ==
    [][rows \ rows' \subseteq ended]_vars

\* Every row that the stream has been told of is run and deleted in the end,
\* after pauses, shutdowns and crashes.
EveryJobEnds == \A j \in Jobs : j \in rows ~> j \notin rows \/ j \in overlooked
===============================================================================
