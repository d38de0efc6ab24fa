------------------------- MODULE ConversationJobQueue -------------------------
(***************************************************************************)
(* ConversationJobQueue: the sends of a conversation, one at a time.  The  *)
(* server may answer one with a challenge (428).  A job that may show a    *)
(* captcha then waits for it in its queue; any other is put aside until    *)
(* the time that the server named, or until the challenge is over.         *)
(*                                                                         *)
(* Composes the queue with ChallengeHandler, which starts the queue of a   *)
(* conversation again.  The table under the queue is in JobQueue.          *)
(***************************************************************************)
EXTENDS ChallengeHandler, SequencesExt

CONSTANTS
    Jobs, ConvOf,   \* the jobs and their conversations
    Silent,         \* the jobs whose type does not show a captcha
    Offers,         \* what the server may send with a challenge
    Stored,         \* the challenges that the last process has left
    MaxAttempts,    \* MAX_ATTEMPTS
    MaxBusy,        \* bounds: conversations with jobs
    MaxChallenges

ASSUME ConversationJobQueueAssumption ==
    /\ IsFiniteSet(Convs) /\ IsFiniteSet(Jobs) /\ Silent \subseteq Jobs
    /\ ConvOf \in [Jobs -> Convs]
    /\ Offers \subseteq [retryAt : {"none", "future"}, token : BOOLEAN]
    /\ Stored \subseteq Challenges /\ MaxAttempts \in Nat \ {0}
    /\ {MaxEvents, MaxBusy, MaxChallenges} \subseteq Nat

VARIABLES
    added,     \* the jobs that have been added
    ended,     \* and those that have ended
    lane,      \* the queue in memory of a conversation
    run,       \* where run() of its head stands
    deferred,  \* NEEDS_RETRY, before retryJobOnQueueIdle
    data,      \* #perConversationData
    idle,      \* the conversations whose retry waits for queue.onIdle()
    timeouts,  \* their retryAtTimeout: "kept", or "lost" when nothing holds it
    waiter,    \* #verificationWaitMap
    challenged \* challenges so far, for the bound

vars == <<handler, added, ended, lane, run, deferred, data, idle, timeouts,
          waiter, challenged>>

\* A head that has not begun; stale is what it has read before its first await.
NotBegun == [step |-> "queued", attempt |-> 0, stale |-> FALSE]

NoData == [status |-> "none", retryAt |-> "none", held |-> <<>>]
Data(status, retryAt, held) == [status |-> status, retryAt |-> retryAt,
                                held |-> held]
Retrying == Data("running", "none", <<>>)

Init ==
    /\ handler = Loaded(Stored)
    /\ added = {} /\ ended = {} /\ deferred = {}
    /\ lane = [c \in Convs |-> <<>>] /\ run = [c \in Convs |-> NotBegun]
    /\ data = [c \in Convs |-> NoData]
    /\ idle = {} /\ timeouts = [c \in Convs |-> {}] /\ waiter = {}
    /\ challenged = 0

-----------------------------------------------------------------------------
\* The callback of createRetryCallback, and what calls it.  A step may call it
\* when it has changed the handler to h and the queue of c to q.

\* Mutant of Retry: the jobs stay among those that need a retry.
RetryTwice(c, h, q) ==
    /\ handler' = Unregister(h, c)
    /\ data' = [data EXCEPT ![c] = Data("running", "none", data[c].held)]
    /\ lane' = [lane EXCEPT ![c] = q \o data[c].held]

\* The jobs that were put aside join the queue again.
Retry(c, h, q) ==
    /\ handler' = Unregister(h, c)
    /\ data' = [data EXCEPT ![c] = Retrying]
    /\ lane' = [lane EXCEPT ![c] = q \o data[c].held]

\* Mutant of RetryCallback: it goes away when it comes too early.
RetryCallbackOnce(c, pending) ==
    IF data[c].status = "blocked with jobs" /\ data[c].retryAt # "future"
    THEN /\ timeouts' = [timeouts EXCEPT ![c] = pending \ {"kept"}]
         /\ Retry(c, handler, lane[c])
    ELSE /\ timeouts' = [timeouts EXCEPT ![c] = pending]
         /\ UNCHANGED <<handler, data, lane>>

\* The callback, when the timeouts that may call it again are pending.
RetryCallback(c, pending) ==
    IF data[c].status = "blocked with jobs" /\ data[c].retryAt # "future"
    THEN /\ timeouts' = [timeouts EXCEPT ![c] = pending \ {"kept"}]
         /\ Retry(c, handler, lane[c])
    ELSE /\ timeouts' = [timeouts EXCEPT ![c] =
                IF data[c].status = "blocked with jobs" THEN pending \cup {"kept"}
                ELSE pending]
         /\ UNCHANGED <<handler, data, lane>>

QueueIsIdle(c) ==
    /\ c \in idle /\ lane[c] = <<>>
    /\ idle' = idle \ {c}
    /\ RetryCallback(c, timeouts[c])
    /\ UNCHANGED <<added, ended, run, deferred, waiter, challenged>>

RetryTimeout(c) ==
    /\ \E t \in timeouts[c] : RetryCallback(c, timeouts[c] \ {t})
    /\ UNCHANGED <<added, ended, run, deferred, idle, waiter, challenged>>

\* The retryAt of a conversation comes.
RetryAtComes(c) ==
    /\ data[c].retryAt = "future"
    /\ data' = [data EXCEPT ![c].retryAt = "past"]
    /\ UNCHANGED <<handler, added, ended, lane, run, deferred, idle,
                   timeouts, waiter, challenged>>

\* #unblockConversationRetries.  UNBLOCKED lasts until the callback, which is
\* called at once and drops the timeout that is kept.
Unblock(c, h, q) ==
    CASE data[c].status = "blocked" ->
           /\ data' = [data EXCEPT ![c] = Retrying]
           /\ handler' = h /\ lane' = [lane EXCEPT ![c] = q]
           /\ UNCHANGED timeouts
      [] data[c].status = "blocked with jobs" ->
           /\ timeouts' = [timeouts EXCEPT ![c] = @ \ {"kept"}]
           /\ Retry(c, h, q)
      [] OTHER ->
           /\ handler' = h /\ lane' = [lane EXCEPT ![c] = q]
           /\ UNCHANGED <<data, timeouts>>

\* The handler starts the queue of c: resolveVerificationWaiter.
QueueStarts(c) ==
    LET h == [handler EXCEPT !.starting = @ \ {c}] IN
    /\ c \in handler.starting
    /\ IF c \in waiter
       THEN /\ waiter' = waiter \ {c}
            /\ run' = [run EXCEPT ![c].step = IF @ = "waiting" THEN "checking"
                                              ELSE @]
            /\ handler' = h /\ UNCHANGED <<lane, data, timeouts>>
       ELSE Unblock(c, h, lane[c]) /\ UNCHANGED <<waiter, run>>
    /\ UNCHANGED <<added, ended, deferred, idle, challenged>>

-----------------------------------------------------------------------------
\* run(): its head reads the data of its conversation before the first await.

Add(j) ==
    LET c == ConvOf[j] IN
    /\ j \notin added /\ added' = added \cup {j}
    /\ Cardinality({ConvOf[k] : k \in added'}) <= MaxBusy
    /\ handler' = IF j \in Silent THEN handler ELSE MaybeSolve(handler, c)
    /\ lane' = [lane EXCEPT ![c] = Append(@, j)]
    /\ UNCHANGED <<ended, run, deferred, data, idle, timeouts, waiter,
                   challenged>>

At(c, step) == lane[c] # <<>> /\ run[c].step = step

\* An attempt begins.
Attempt(c) ==
    run' = [run EXCEPT ![c] = [step |-> "loading", attempt |-> @.attempt + 1,
                               stale |-> data[c].retryAt # "none"]]

Begin(c) ==
    /\ At(c, "queued") /\ Attempt(c)
    /\ UNCHANGED <<handler, added, ended, lane, deferred, data, idle,
                   timeouts, waiter, challenged>>

\* run() has returned: the queue goes on to the next job.
GoOn(c) == run' = [run EXCEPT ![c] = NotBegun]

\* ConversationController.load() has returned.  A job that shows no captcha
\* needs a retry if its conversation had a retryAt.
Load(c) ==
    /\ At(c, "loading")
    /\ IF run[c].stale /\ Head(lane[c]) \in Silent
       THEN /\ deferred' = deferred \cup {Head(lane[c])}
            /\ lane' = [lane EXCEPT ![c] = Tail(@)]
            /\ GoOn(c)
       ELSE /\ run' = [run EXCEPT ![c].step = "checking", ![c].stale = FALSE]
            /\ UNCHANGED <<lane, deferred>>
    /\ UNCHANGED <<handler, added, ended, data, idle, timeouts, waiter,
                   challenged>>

\* The time of the job is over, and commonShouldJobContinue says no: the job
\* cleans up and ends.
GiveUp(c) ==
    /\ At(c, "checking")
    /\ ended' = ended \cup {Head(lane[c])}
    /\ lane' = [lane EXCEPT ![c] = Tail(@)]
    /\ GoOn(c)
    /\ UNCHANGED <<handler, added, deferred, data, idle, timeouts, waiter,
                   challenged>>

\* It says yes: the loop waits for a captcha, or leaves for the send.
Continue(c) ==
    LET j == Head(lane[c]) IN
    /\ At(c, "checking")
    /\ IF c \notin handler.registered
       THEN /\ Unblock(c, handler, lane[c])
            /\ run' = [run EXCEPT ![c].step = "sending"]
            /\ UNCHANGED waiter
       ELSE /\ IF j \in Silent
               THEN /\ run' = [run EXCEPT ![c].step = "sending"]
                    /\ UNCHANGED <<handler, waiter>>
               ELSE /\ run' = [run EXCEPT ![c].step = "waiting"]
                    /\ waiter' = waiter \cup {c}
                    /\ handler' = MaybeSolve(handler, c)
            /\ UNCHANGED <<lane, data, timeouts>>
    /\ UNCHANGED <<added, ended, deferred, idle, challenged>>

\* The sleep of five minutes ends the wait; the waiter remains.
WaitEnds(c) ==
    /\ At(c, "waiting")
    /\ run' = [run EXCEPT ![c].step = "checking"]
    /\ UNCHANGED <<handler, added, ended, lane, deferred, data, idle,
                   timeouts, waiter, challenged>>

\* The send succeeds: #recordSuccessfulSend.
Succeed(c) ==
    /\ At(c, "sending")
    /\ ended' = ended \cup {Head(lane[c])}
    /\ GoOn(c)
    /\ IF data[c].status = "blocked with jobs"
       THEN Unblock(c, handler, Tail(lane[c]))
       ELSE /\ data' = [data EXCEPT ![c] = NoData]
            /\ lane' = [lane EXCEPT ![c] = Tail(@)]
            /\ UNCHANGED <<handler, timeouts>>
    /\ UNCHANGED <<added, deferred, idle, waiter, challenged>>

\* run() throws: another attempt, or the job is deleted.
Throw(c) ==
    IF run[c].attempt < MaxAttempts
    THEN Attempt(c) /\ UNCHANGED <<ended, lane>>
    ELSE /\ ended' = ended \cup {Head(lane[c])}
         /\ lane' = [lane EXCEPT ![c] = Tail(@)]
         /\ GoOn(c)

Fail(c) ==
    /\ At(c, "sending") /\ Throw(c)
    /\ UNCHANGED <<handler, added, deferred, data, idle, timeouts, waiter,
                   challenged>>

\* #captureRetryAt: a time of now and a backoff, if that is not before the one
\* there is.
CaptureRetryAt(c) ==
    \E keep \in {FALSE, data[c].retryAt # "none"} :
        data' = IF keep THEN data
                ELSE [data EXCEPT ![c] = Data(
                       IF data[c].status = "blocked with jobs" THEN @.status
                       ELSE "blocked", "future", data[c].held)]

\* The server answers the send with a challenge.
Challenge(c) ==
    LET j == Head(lane[c]) IN
    /\ At(c, "sending") /\ challenged < MaxChallenges
    /\ challenged' = challenged + 1
    /\ \E offer \in Offers :
         handler' = Register(handler, [conv |-> c, silent |-> j \in Silent,
                       retryAt |-> offer.retryAt, token |-> offer.token])
    /\ IF j \in Silent
       THEN /\ CaptureRetryAt(c)
            /\ deferred' = deferred \cup {j}
            /\ lane' = [lane EXCEPT ![c] = Tail(@)]
            /\ GoOn(c)
            /\ UNCHANGED ended
       ELSE Throw(c) /\ UNCHANGED <<deferred, data>>
    /\ UNCHANGED <<added, idle, timeouts, waiter>>

\* Mutant of RetryJobOnQueueIdle: the queue is not waited for.
RetryJobOnRetryAt(j) ==
    LET c == ConvOf[j] IN
    /\ j \in deferred /\ deferred' = deferred \ {j}
    /\ data' = [data EXCEPT ![c] = Data("blocked with jobs",
                    IF @.status \in {"none", "running"} THEN "future"
                    ELSE @.retryAt, Append(@.held, j))]
    /\ timeouts' = [timeouts EXCEPT ![c] = IF "kept" \in @ THEN {"lost"} ELSE @]
    /\ UNCHANGED <<handler, added, ended, lane, run, idle, waiter,
                   challenged>>

\* retryJobOnQueueIdle.  It keeps the callback that there is, but not the handle
\* of its timeout; a new callback waits for the queue to be idle.
RetryJobOnQueueIdle(j) ==
    LET c == ConvOf[j] IN
    /\ j \in deferred /\ deferred' = deferred \ {j}
    /\ data' = [data EXCEPT ![c] = Data("blocked with jobs",
                    IF @.status \in {"none", "running"} THEN "future"
                    ELSE @.retryAt, Append(@.held, j))]
    /\ timeouts' = [timeouts EXCEPT ![c] = IF "kept" \in @ THEN {"lost"} ELSE @]
    /\ idle' = IF data[c].status = "blocked with jobs" THEN idle ELSE idle \cup {c}
    /\ UNCHANGED <<handler, added, ended, lane, run, waiter, challenged>>

-----------------------------------------------------------------------------
queue == <<added, ended, lane, run, deferred, data, idle, timeouts, waiter,
           challenged>>

RunSteps(c) == Begin(c) \/ Load(c) \/ GiveUp(c) \/ Continue(c) \/ WaitEnds(c)
                        \/ Succeed(c) \/ Fail(c) \/ Challenge(c)

\* What the queue of a conversation does by itself.
Work(c) ==
    \/ RunSteps(c) \/ QueueIsIdle(c)
    \/ \E j \in Jobs : ConvOf[j] = c /\ RetryJobOnQueueIdle(j)

\* A time comes.
Comes(c) == RetryAtComes(c) \/ (Matures(c) /\ UNCHANGED queue)

Next ==
    \/ HandlerSteps /\ UNCHANGED queue
    \/ \E c \in Convs : Work(c) \/ QueueStarts(c) \/ RetryTimeout(c) \/ Comes(c)
    \/ \E j \in Jobs : Add(j)

\* What waits in memory goes on, timers fire, the network comes back and requests
\* are answered; a job that looks at its time again and again finds it over
\* (strong fairness of GiveUp).  Nobody has to add a job or to solve a captcha.
Fairness ==
    /\ WF_vars(~handler.online /\ OnOnline /\ UNCHANGED queue)
    /\ WF_vars((Registers \/ SolveEnds) /\ UNCHANGED queue)
    /\ \A c \in Convs :
         /\ WF_vars(Work(c)) /\ WF_vars(Comes(c)) /\ WF_vars(RetryTimeout(c))
         /\ WF_vars(QueueStarts(c) \/ (TimerFires(c) /\ UNCHANGED queue))
         /\ SF_vars(GiveUp(c))

Spec == Init /\ [][Next]_vars /\ Fairness
-----------------------------------------------------------------------------
Statuses == {"none", "blocked", "blocked with jobs", "running"}
Steps == {"queued", "loading", "checking", "waiting", "sending"}

TypeOK ==
    /\ HandlerTypeOK
    /\ added \cup ended \cup deferred \subseteq Jobs
    /\ lane \in [Convs -> Seq(Jobs)]
    /\ run \in [Convs -> [step : Steps, attempt : 0..MaxAttempts, stale : BOOLEAN]]
    /\ data \in [Convs -> [status : Statuses, retryAt : {"none", "future", "past"},
                           held : Seq(Jobs)]]
    /\ idle \cup waiter \subseteq Convs
    /\ timeouts \in [Convs -> SUBSET {"kept", "lost"}]
    /\ challenged \in 0..MaxChallenges

\* Jobs that were put aside have something that will try them again: a wait for
\* the idle queue or a timeout, though the handle of a timeout may be lost, the
\* retryAt moved, and a callback may find the conversation in any state
\* (retryJobOnQueueIdle, createRetryCallback).
HeldJobsHaveATrigger ==
    \A c \in Convs : data[c].held # <<>> => c \in idle \/ timeouts[c] # {}

Copies(s, j) == Cardinality({i \in DOMAIN s : s[i] = j})

\* A job that has not ended is in memory once: in its queue, put aside or between
\* the two.  No pair of callback, timeout and unblocking queues it twice.
EveryJobOnce ==
    \A j \in Jobs :
        Copies(lane[ConvOf[j]], j) + Copies(data[ConvOf[j]].held, j)
            + Cardinality(deferred \cap {j})
          = IF j \in added \ ended THEN 1 ELSE 0

\* A conversation that has a time to retry is retried, through periods offline
\* and failed captchas, unless onOnline has forgotten it.
RetriedInTime ==
    \A c \in Convs : handler.retryAt[c] # "none"
                     ~> handler.retryAt[c] = "none" \/ c \in handler.dropped

\* A retryAt has come while a job that has read it is on its way to be put aside.
JustMissed == \E j \in deferred : data[ConvOf[j]].retryAt = "past"

\* Every job that is added ends, sent or given up, though no captcha is ever
\* solved; unless two jobs just miss the retryAt of each other again and again.
EveryJobEnds == []<>JustMissed \/ <>[](added = ended)
===============================================================================
