------------------------------ MODULE JobManager ------------------------------
(***************************************************************************)
(* JobManager: jobs in a table of the database, a few of which run at a    *)
(* time; a job that fails is retried later, up to a number of attempts.    *)
(* Attachment downloads, attachment backups and the deletion of call links *)
(* run under it.                                                           *)
(*                                                                         *)
(* A call of the manager continues after the database has answered, and a  *)
(* lot may happen meanwhile.  The one connection that writes serves its    *)
(* requests in order: a request takes effect when it is made and joins     *)
(* `asked`, and the answers come in that order.                            *)
(***************************************************************************)
EXTENDS Naturals, SequencesExt

CONSTANTS
    Jobs,               \* job ids
    MaxConcurrentJobs,  \* maxConcurrentJobs
    MaxAttempts,        \* getRetryConfig().maxAttempts
    Updates,            \* may a run ask for a retry with an updated job?
    Forces,             \* may a job be added with forceStart?
    Batches,            \* does saveJob batch what it is allowed to?
    ReAdds,             \* may a known job be added again?
    Cancels,            \* may cancelJobs be called?
    Holds,              \* may shouldHoldOffOnStartingQueuedJobs say yes?
    Idles,              \* may waitForIdle be called?
    MaxAdds, MaxStops, MaxStarts, MaxCrashes, MaxRateLimits  \* bounds

ASSUME JobManagerAssumption ==
    /\ IsFiniteSet(Jobs)
    /\ {MaxConcurrentJobs, MaxAttempts} \subseteq Nat \ {0}
    /\ {Updates, Forces, Batches, ReAdds, Cancels, Holds,
        Idles} \subseteq BOOLEAN
    /\ {MaxAdds, MaxStops, MaxStarts, MaxCrashes, MaxRateLimits} \subseteq Nat

VARIABLES
    enabled,    \* #enabled
    timer,      \* #tickTimeout: none, tick or resume
    run,        \* #activeJobs
    asked,      \* requests that the database has not answered
    awaited,    \* the jobs whose run stop() waits for
    cancelling, \* the jobs whose run cancelJobs waits for
    batched,    \* #saveJobsBatcher
    waiting,    \* has waitForIdle() callers?
    rows,       \* the table of jobs
    \* for the properties
    fate,       \* what became of a job since it was last added
    tries,      \* runs of a job since it was last added
    paused,     \* has a rate limit paused the manager?
    spent       \* what the bounds have allowed so far

manager == <<enabled, timer, awaited, cancelling, batched, waiting>>
vars == <<manager, run, asked, rows, fate, tries, paused, spent>>

NoRow == [here |-> FALSE, active |-> FALSE, attempts |-> 0, due |-> FALSE]
Row(active, attempts, due) ==
    [here |-> TRUE, active |-> active, attempts |-> attempts, due |-> due]
NoRun == [phase |-> "none", attempts |-> 0, first |-> FALSE, last |-> FALSE]
Running == {j \in Jobs : run[j].phase # "none"}

\* A request: of a start() that waits for it, or of an add with forceStart, if
\* flag; about jobs, whose attempts were read or are to be written.
Request(kind, flag, jobs) == [kind |-> kind, flag |-> flag, jobs |-> jobs]
Of(j, attempts) == [x \in {j} |-> attempts]
Nothing == [x \in {} |-> 0]
Answered(kind) == asked # <<>> /\ Head(asked).kind = kind
Answer == Head(asked)

InitProcess ==
    /\ enabled = FALSE /\ timer = "none" /\ asked = <<>>
    /\ run = [j \in Jobs |-> NoRun] /\ awaited = {} /\ cancelling = {}
    /\ batched = {} /\ waiting = FALSE /\ paused = FALSE

Init ==
    /\ InitProcess
    /\ rows = [j \in Jobs |-> NoRow]
    /\ fate = [j \in Jobs |-> "none"] /\ tries = [j \in Jobs |-> 0]
    /\ spent = [adds |-> 0, stops |-> 0, starts |-> 0, crashes |-> 0,
                limits |-> 0]

-----------------------------------------------------------------------------
\* maybeStartJobs and startJob.

\* Mutant of FreeSlots: the running jobs are not counted.
AllSlots(running) == MaxConcurrentJobs

\* getMaximumNumberOfJobsToStart.
FreeSlots(running) ==
    IF Cardinality(running) >= MaxConcurrentJobs THEN 0
    ELSE MaxConcurrentJobs - Cardinality(running)

\* getNextJobs returns the inactive rows that are due, up to a limit.
Ready(table) == {j \in Jobs : table[j].here /\ ~table[j].active /\ table[j].due}

\* #_inMaybeStartJobs.
Scanning(queue) == \E i \in DOMAIN queue : queue[i].kind = "scan"
Scans(queue, on, running) ==
    ~Scanning(queue) /\ on /\ FreeSlots(running) > 0

\* maybeStartJobs up to the request of getNextJobs; flag when start() waits.
MaybeStartJobs(flag, queue, on, running, table) ==
    IF Scans(queue, on, running)
    THEN \E S \in SUBSET Ready(table) :
           /\ Cardinality(S) <= FreeSlots(running)
           /\ S = Ready(table) \/ Cardinality(S) = FreeSlots(running)
           /\ asked' = Append(queue, Request("scan", flag,
                                     [j \in S |-> table[j].attempts]))
    ELSE asked' = queue

\* #tick, whose timer replaces any other.
Tick(queue, on, running, table) ==
    timer' = "tick" /\ MaybeStartJobs(FALSE, queue, on, running, table)

\* The run of a job that addRunningJob adds to the active ones.
NewRun(attempts) == [phase |-> "saving", attempts |-> attempts,
                     first |-> attempts = 0, last |-> attempts + 1 >= MaxAttempts]

\* Mutant of StartJobs: the row leaves the table when its run begins.
StartJobsTaken(jobs) ==
    LET begun == DOMAIN jobs \ Running IN
    /\ run' = [j \in Jobs |-> IF j \in begun THEN NewRun(jobs[j]) ELSE run[j]]
    /\ rows' = [j \in Jobs |-> IF j \in begun THEN NoRow ELSE rows[j]]
    /\ tries' = [j \in Jobs |-> tries[j] + IF j \in begun THEN 1 ELSE 0]

\* startJob, for the jobs that are not running: addRunningJob, and saveJob with
\* active: true.
StartJobs(jobs) ==
    LET begun == DOMAIN jobs \ Running IN
    /\ run' = [j \in Jobs |-> IF j \in begun THEN NewRun(jobs[j]) ELSE run[j]]
    /\ rows' = [j \in Jobs |-> IF j \in begun THEN Row(TRUE, jobs[j], TRUE)
                                               ELSE rows[j]]
    /\ tries' = [j \in Jobs |-> tries[j] + IF j \in begun THEN 1 ELSE 0]

\* The requests that StartJobs makes.
Saves(jobs) == LET begun == SetToSeq(DOMAIN jobs \ Running) IN
    [i \in DOMAIN begun |-> Request("save", FALSE, Of(begun[i], jobs[begun[i]]))]

\* getNextJobs has answered.  A start() that waited for it goes on to #tick.
ScanReturns ==
    /\ Answered("scan")
    /\ \E hold \in {FALSE, Holds} :
         LET jobs == IF hold THEN Nothing ELSE Answer.jobs IN
         /\ StartJobs(jobs)
         /\ IF Answer.flag
            THEN Tick(Tail(asked) \o Saves(jobs), enabled, Running', rows')
            ELSE asked' = Tail(asked) \o Saves(jobs) /\ UNCHANGED timer
    /\ waiting' = (waiting /\ (DOMAIN Answer.jobs # {} \/ Running # {}))
    /\ UNCHANGED <<enabled, awaited, cancelling, batched, fate, paused, spent>>

-----------------------------------------------------------------------------
\* start, stop, waitForIdle and the timer.

\* Mutant of MarkedInactive: start() does not call markAllJobsInactive.
NothingMarked(table) == table

\* markAllJobsInactive.
MarkedInactive(table) == [j \in Jobs |-> [table[j] EXCEPT !.active = FALSE]]

\* await maybeStartJobs(), which returns at once unless it makes a request, and
\* #tick.
StartScans(queue) ==
    /\ MaybeStartJobs(TRUE, queue, enabled, Running, rows)
    /\ timer' = IF Scans(queue, enabled, Running) THEN timer ELSE "tick"

StartEnabled ==
    /\ enabled /\ spent.starts < MaxStarts
    /\ spent' = [spent EXCEPT !.starts = @ + 1]
    /\ StartScans(asked)
    /\ UNCHANGED <<enabled, awaited, cancelling, batched, waiting, run, rows,
                   fate, tries, paused>>

StartDisabled ==
    /\ ~enabled
    /\ enabled' = TRUE /\ paused' = FALSE
    /\ rows' = MarkedInactive(rows)
    /\ asked' = Append(asked, Request("mark", TRUE, Nothing))
    /\ UNCHANGED <<timer, awaited, cancelling, batched, waiting, run, fate,
                   tries, spent>>

\* markAllJobsInactive has answered.
StartMarked ==
    /\ Answered("mark")
    /\ StartScans(Tail(asked))
    /\ UNCHANGED <<enabled, awaited, cancelling, batched, waiting, run, rows,
                   fate, tries, paused, spent>>

\* stop() aborts what runs, which a run may ignore, and waits for it.
Stop ==
    /\ spent.stops < MaxStops
    /\ spent' = [spent EXCEPT !.stops = @ + 1]
    /\ enabled' = FALSE /\ timer' = "none" /\ paused' = FALSE
    /\ awaited' = awaited \cup Running
    /\ UNCHANGED <<cancelling, batched, waiting, run, asked, rows, fate, tries>>

WaitForIdle ==
    /\ Idles /\ ~waiting
    /\ waiting' = TRUE
    /\ Tick(asked, enabled, Running, rows)
    /\ UNCHANGED <<enabled, awaited, cancelling, batched, run, rows, fate, tries,
                   paused, spent>>

TickFires ==
    /\ timer = "tick"
    /\ Tick(asked, enabled, Running, rows)
    /\ UNCHANGED <<enabled, awaited, cancelling, batched, waiting, run, rows,
                   fate, tries, paused, spent>>

\* Mutant of PauseEnds: the callback returns early, as maybeStartJobs does, for
\* the manager is not enabled.
PauseEndsIfEnabled ==
    /\ timer = "resume" /\ timer' = "none"
    /\ UNCHANGED <<enabled, awaited, cancelling, batched, waiting, run, asked,
                   rows, fate, tries, paused, spent>>

\* The timer of #pauseForDuration.
PauseEnds ==
    /\ timer = "resume"
    /\ enabled' = TRUE /\ paused' = FALSE
    /\ Tick(asked, TRUE, Running, rows)
    /\ UNCHANGED <<awaited, cancelling, batched, waiting, run, rows, fate, tries,
                   spent>>

\* The retryAfter of a row passes.
BackoffEnds(j) ==
    /\ rows[j].here /\ ~rows[j].due
    /\ rows' = [rows EXCEPT ![j].due = TRUE]
    /\ UNCHANGED <<manager, run, asked, fate, tries, paused, spent>>

-----------------------------------------------------------------------------
\* A run.

\* saveJob has answered: runJob.
RunJob(j) ==
    /\ Answered("save") /\ j \in DOMAIN Answer.jobs
    /\ asked' = Tail(asked)
    /\ run' = [run EXCEPT ![j].phase = "running"]
    /\ UNCHANGED <<manager, rows, fate, tries, paused, spent>>

\* Mutant of Settle: the run gives up its place before its row is written.
SettleOutside(j, row, end) ==
    /\ run[j].phase = "running"
    /\ run' = [run EXCEPT ![j] = NoRun]
    /\ rows' = [rows EXCEPT ![j] = row]
    /\ asked' = Append(asked, Request("settle", FALSE, Of(j, 0)))
    /\ fate' = [fate EXCEPT ![j] = IF @ = "wanted" THEN end ELSE @]
    /\ UNCHANGED <<awaited, cancelling, batched, waiting, tries>>

\* The run has ended; removeJob or saveJob with its new row.
Settle(j, row, end) ==
    /\ run[j].phase = "running"
    /\ run' = [run EXCEPT ![j].phase = "settling"]
    /\ rows' = [rows EXCEPT ![j] = row]
    /\ asked' = Append(asked, Request("settle", FALSE, Of(j, 0)))
    /\ fate' = [fate EXCEPT ![j] = IF @ = "wanted" THEN end ELSE @]
    /\ UNCHANGED <<awaited, cancelling, batched, waiting, tries>>

\* The row that #retryJobLater and #retryJobWithoutDelay save.
Retry(j, due) == Row(FALSE, run[j].attempts + 1, due)

\* status 'finished'.
Finish(j) ==
    /\ Settle(j, NoRow, "finished")
    /\ UNCHANGED <<enabled, timer, paused, spent>>

\* Mutant of Fail: the last attempt is one too early.
FailTooEarly(j) ==
    /\ IF run[j].attempts + 2 >= MaxAttempts
       THEN Settle(j, NoRow, "given up")
       ELSE Settle(j, Retry(j, FALSE), "wanted")
    /\ UNCHANGED <<enabled, timer, paused, spent>>

\* runJob throws, or its status is 'retry'.
Fail(j) ==
    /\ IF run[j].last THEN Settle(j, NoRow, "given up")
                      ELSE Settle(j, Retry(j, FALSE), "wanted")
    /\ UNCHANGED <<enabled, timer, paused, spent>>

\* status 'retry' with an updated job: at once after the first attempt.
Update(j) ==
    /\ Updates /\ ~run[j].last
    /\ Settle(j, Retry(j, run[j].first), "wanted")
    /\ UNCHANGED <<enabled, timer, paused, spent>>

\* status 'rate-limited': #pauseForDuration and #retryJobLater.
RateLimit(j) ==
    /\ spent.limits < MaxRateLimits
    /\ spent' = [spent EXCEPT !.limits = @ + 1]
    /\ enabled' = FALSE /\ timer' = "resume" /\ paused' = TRUE
    /\ Settle(j, Retry(j, FALSE), "wanted")

\* Mutant of Close: nobody who waits for the run is told.
CloseQuietly(j) ==
    /\ Answered("settle") /\ j \in DOMAIN Answer.jobs
    /\ run' = [run EXCEPT ![j] = NoRun]
    /\ MaybeStartJobs(FALSE, Tail(asked), enabled, Running \ {j}, rows)
    /\ UNCHANGED <<enabled, timer, awaited, cancelling, batched, waiting, rows,
                   fate, tries, paused, spent>>

\* removeRunningJob and maybeStartJobs; then a cancelJobs that has waited for
\* the run makes its request to remove the row.
Close(j) ==
    /\ Answered("settle") /\ j \in DOMAIN Answer.jobs
    /\ run' = [run EXCEPT ![j] = NoRun]
    /\ awaited' = awaited \ {j} /\ cancelling' = cancelling \ {j}
    /\ MaybeStartJobs(FALSE, Tail(asked), enabled, Running \ {j}, rows)
    /\ IF j \in cancelling
       THEN /\ rows' = [rows EXCEPT ![j] = NoRow]
            /\ fate' = [fate EXCEPT ![j] = "cancelled"]
       ELSE UNCHANGED <<rows, fate>>
    /\ UNCHANGED <<enabled, timer, batched, waiting, tries, paused, spent>>

-----------------------------------------------------------------------------
\* addJob and cancelJobs.

\* Is the job in the table, or somewhere between the table and its run?
Known(j) ==
    \/ rows[j].here \/ j \in Running \cup batched
    \/ \E i \in DOMAIN asked : j \in DOMAIN asked[i].jobs

Asks(j) ==
    /\ spent.adds < MaxAdds
    /\ ReAdds \/ ~Known(j)
    /\ spent' = [spent EXCEPT !.adds = @ + 1]
    /\ fate' = [fate EXCEPT ![j] = "wanted"]
    /\ tries' = [tries EXCEPT ![j] = IF j \in Running THEN 1 ELSE 0]
    /\ UNCHANGED <<enabled, timer, awaited, cancelling, waiting, paused>>

\* _addJob, "already running; resetting attempts".
AddRunning(j) ==
    /\ j \in Running /\ Asks(j)
    /\ run' = [run EXCEPT ![j].attempts = 0]
    /\ UNCHANGED <<rows, asked, batched>>

\* _addJob when saveJob batches, which answers at once.
AddBatched(j) ==
    /\ Batches /\ j \notin Running /\ Asks(j)
    /\ batched' = batched \cup {j}
    /\ MaybeStartJobs(FALSE, asked, enabled, Running, rows)
    /\ UNCHANGED <<rows, run>>

\* _addJob up to saveJob.
AddJob(j) ==
    /\ j \notin Running /\ Asks(j)
    /\ \E force \in {FALSE, Forces} :
         /\ force \/ ~Batches
         /\ asked' = Append(asked, Request("add", force, Of(j, 0)))
    /\ rows' = [rows EXCEPT ![j] = Row(FALSE, 0, TRUE)]
    /\ UNCHANGED <<run, batched>>

\* _addJob after saveJob.
AddReturns ==
    /\ Answered("add")
    /\ IF Answer.flag /\ enabled
       THEN /\ StartJobs(Answer.jobs)
            /\ asked' = Tail(asked) \o Saves(Answer.jobs)
       ELSE /\ MaybeStartJobs(FALSE, Tail(asked), enabled /\ ~Answer.flag,
                              Running, rows)
            /\ UNCHANGED <<run, rows, tries>>
    /\ UNCHANGED <<manager, fate, paused, spent>>

\* saveJobsBatcher: saveAttachmentDownloadJobs, and then maybeStartJobs.
Flush ==
    /\ batched # {}
    /\ batched' = {}
    /\ rows' = [j \in Jobs |-> IF j \in batched THEN Row(FALSE, 0, TRUE)
                                                ELSE rows[j]]
    /\ asked' = Append(asked, Request("flush", FALSE, Nothing))
    /\ UNCHANGED <<enabled, timer, awaited, cancelling, waiting, run, fate,
                   tries, paused, spent>>

FlushReturns ==
    /\ Answered("flush")
    /\ MaybeStartJobs(FALSE, Tail(asked), enabled, Running, rows)
    /\ UNCHANGED <<manager, run, rows, fate, tries, paused, spent>>

\* cancelJobs aborts the run, which the run may ignore.
Cancel(j) ==
    /\ Cancels /\ j \in Running \ cancelling
    /\ cancelling' = cancelling \cup {j}
    /\ UNCHANGED <<enabled, timer, awaited, batched, waiting, run, asked, rows,
                   fate, tries, paused, spent>>

\* It waits for a second at most.  A run that has not ended by then keeps its
\* place, for `hasCompleted` is true of it, and its row is removed.
CancelGivesUp(j) ==
    /\ j \in cancelling
    /\ cancelling' = cancelling \ {j}
    /\ rows' = [rows EXCEPT ![j] = NoRow]
    /\ fate' = [fate EXCEPT ![j] = "cancelled"]
    /\ UNCHANGED <<enabled, timer, awaited, batched, waiting, run, asked, tries,
                   paused, spent>>

-----------------------------------------------------------------------------
\* The process dies: the table remains.
Crash ==
    /\ spent.crashes < MaxCrashes
    /\ spent' = [spent EXCEPT !.crashes = @ + 1]
    /\ enabled' = FALSE /\ timer' = "none" /\ asked' = <<>>
    /\ run' = [j \in Jobs |-> NoRun] /\ awaited' = {} /\ cancelling' = {}
    /\ batched' = {} /\ waiting' = FALSE /\ paused' = FALSE
    /\ UNCHANGED <<rows, fate, tries>>

Answers ==
    \/ ScanReturns \/ StartMarked \/ AddReturns \/ FlushReturns
    \/ \E j \in Jobs : RunJob(j) \/ Close(j)

RunEnds(j) == Finish(j) \/ Fail(j) \/ Update(j) \/ RateLimit(j)
Add(j) == AddRunning(j) \/ AddBatched(j) \/ AddJob(j)

Next ==
    \/ Answers
    \/ StartEnabled \/ StartDisabled \/ Stop \/ WaitForIdle
    \/ TickFires \/ PauseEnds
    \/ \E j \in Jobs : BackoffEnds(j) \/ RunEnds(j) \/ Add(j)
                     \/ Cancel(j) \/ CancelGivesUp(j)
    \/ Flush \/ Crash

\* The database answers, timers fire, runs end and somebody starts a manager
\* that was stopped.  Nobody has to start one that a rate limit has paused: that
\* is left to its timer.  Nobody has to add, cancel or stop.
Fairness ==
    /\ WF_vars(Answers) /\ WF_vars(TickFires) /\ WF_vars(PauseEnds)
    /\ WF_vars(Flush) /\ WF_vars(StartDisabled /\ ~paused)
    /\ \A j \in Jobs : WF_vars(BackoffEnds(j)) /\ WF_vars(RunEnds(j))

Spec == Init /\ [][Next]_vars
FairSpec == Spec /\ Fairness
-----------------------------------------------------------------------------
Requests == {"scan", "mark", "save", "settle", "add", "flush"}

TypeOK ==
    /\ {enabled, waiting, paused} \subseteq BOOLEAN
    /\ timer \in {"none", "tick", "resume"}
    /\ \A i \in 1..Len(asked) :
         /\ asked[i].kind \in Requests /\ asked[i].flag \in BOOLEAN
         /\ DOMAIN asked[i].jobs \subseteq Jobs
         /\ \A j \in DOMAIN asked[i].jobs : asked[i].jobs[j] \in Nat
    /\ run \in [Jobs -> [phase : {"none", "saving", "running", "settling"},
                         attempts : Nat, first : BOOLEAN, last : BOOLEAN]]
    /\ awaited \cup cancelling \subseteq Running /\ batched \subseteq Jobs
    /\ rows \in [Jobs -> [here : BOOLEAN, active : BOOLEAN, attempts : Nat,
                          due : BOOLEAN]]
    /\ fate \in [Jobs -> {"none", "wanted", "finished", "given up",
                          "cancelled"}]
    /\ tries \in [Jobs -> Nat]

\* A scan reads the number of free slots before it waits for the database and
\* starts its jobs after: still no more than maxConcurrentJobs run at a time
\* (maybeStartJobs: "ensure we don't try to start too many jobs").
NotTooMany == Cardinality(Running) <= MaxConcurrentJobs

\* A row that the scans pass over as active has a run that will settle it: no
\* job is stuck, not even one whose run a crash has ended (start).
ActiveRowIsRunning ==
    enabled => \A j \in Jobs : rows[j].active => j \in Running

\* From its addition until it has finished or is given up, a job is in the
\* table: a crash between any two steps of its run loses nothing (startJob).
WantedIsKept == \A j \in Jobs : fate[j] = "wanted" => rows[j].here

\* A job is given up for its failures only after maxAttempts runs (startJob,
\* isLastAttempt).
GivenUpAfterAllAttempts ==
    [][\A j \in Jobs : fate[j] = "wanted" /\ fate'[j] = "given up"
                       => tries[j] >= MaxAttempts]_vars

Begins(j) == run[j].phase = "none" /\ run'[j].phase # "none"

\* A job that has finished is not run again: no scan that has read its row, no
\* restart that has marked the row inactive and no crash brings it back
\* (AttachmentDownloadManager_test: "Ensure it's been removed after completed").
FinishedStaysFinished ==
    [][\A j \in Jobs : Begins(j) => fate[j] # "finished"]_vars

\* The tick of a start() that was waiting when a rate limit paused the manager, or
\* of waitForIdle(), has taken the place of the timer that ends the pause.
PauseForgotten == paused /\ timer = "tick"

\* Every job that is added ends, in the table and out of it, through stops, rate
\* limits and their pauses, unless the end of a pause is forgotten for good.
EveryJobEnds ==
    \/ <>[](\A j \in Jobs : ~rows[j].here /\ j \notin Running)
    \/ <>[]PauseForgotten
===============================================================================
