--------------------------- MODULE ChallengeHandler ---------------------------
(***************************************************************************)
(* ChallengeHandler: conversations whose sends the server has refused      *)
(* until a captcha is solved or a time has come, with the timers, periods  *)
(* offline and captchas that start them again.                             *)
(*                                                                         *)
(* The state is a record, and an operation a function of it: the queue of  *)
(* a conversation calls some of them in the middle of its own steps.  A    *)
(* time is "none", "future" or "past", and the future may become past at   *)
(* any moment.                                                             *)
(***************************************************************************)
EXTENDS Naturals, FiniteSets

CONSTANTS
    Convs,     \* conversation ids
    MaxEvents  \* bound: captchas and periods offline

VARIABLE handler

Challenges == [conv : Convs, retryAt : {"none", "future"}, token : BOOLEAN,
               silent : BOOLEAN]

\* The handler after load(): offline, with the challenges of the last process,
\* whose register() has yet to persist them.
Loaded(challenges) ==
    [registered |-> {x.conv : x \in challenges},
     retryAt    |-> [c \in Convs |->
                       IF \E x \in challenges : x.conv = c /\ x.retryAt = "future"
                       THEN "future" ELSE "none"],
     tokens     |-> {x.conv : x \in {y \in challenges : y.token}},
     timer      |-> [c \in Convs |-> "none"], \* "own" or "limit": what it waits for
     pending    |-> {},            \* #pendingStarts
     registering |-> challenges,   \* register() that waits for #persist
     starting   |-> {},            \* #startQueue that waits for unregister
     online     |-> FALSE,
     limited    |-> FALSE,         \* #challengeRateLimitRetryAt
     token      |-> FALSE,         \* #challengeToken
     asked      |-> 0,             \* #solve that waits for a captcha
     sending    |-> 0,             \* #solve that waits for the server
     events     |-> 0,             \* captchas and periods offline, for the bound
     dropped    |-> {}]            \* forgotten by onOnline, for the properties

-----------------------------------------------------------------------------
\* The operations.

\* unregister up to its await.
Unregister(h, c) ==
    [h EXCEPT !.registered = @ \ {c}, !.pending = @ \ {c}, !.dropped = @ \ {c},
              !.timer[c] = "none", !.retryAt[c] = "none", !.tokens = @ \ {c}]

\* #startQueue of some conversations, up to its await.
StartQueues(h, convs) ==
    IF ~h.online THEN [h EXCEPT !.pending = @ \cup convs]
    ELSE [h EXCEPT !.registered = @ \ convs, !.pending = @ \ convs,
                   !.dropped = @ \ convs, !.tokens = @ \ convs,
                   !.timer = [c \in Convs |-> IF c \in convs THEN "none" ELSE @[c]],
                   !.retryAt = [c \in Convs |-> IF c \in convs THEN "none"
                                                ELSE @[c]],
                   !.starting = @ \cup convs]

\* #solve up to its await.
Solve(h) ==
    IF h.events < MaxEvents
    THEN [h EXCEPT !.asked = @ + 1, !.token = TRUE, !.events = @ + 1]
    ELSE h

MaybeSolve(h, c) ==
    IF c \in h.tokens /\ h.asked + h.sending = 0 /\ ~h.limited THEN Solve(h) ELSE h

\* register up to its await.
Register(h, x) ==
    IF x.conv \in h.registered THEN h
    ELSE [h EXCEPT !.registered = @ \cup {x.conv}, !.retryAt[x.conv] = x.retryAt,
                   !.tokens = IF x.token THEN @ \cup {x.conv} ELSE @ \ {x.conv},
                   !.registering = @ \cup {x}]

\* register after its await, when the challenge is not due.
Track(h, x) ==
    LET tracked == CASE h.limited -> [h EXCEPT !.timer[x.conv] = "limit"]
                     [] ~h.limited /\ x.retryAt = "future"
                          -> [h EXCEPT !.timer[x.conv] = "own"]
                     [] OTHER -> h IN
    IF x.token /\ ~x.silent THEN Solve(tracked) ELSE tracked

\* Its time may have come meanwhile.
Registered(x) ==
    /\ x \in handler.registering
    /\ LET h == [handler EXCEPT !.registering = @ \ {x}] IN
       \/ handler' = Track(h, x)
       \/ /\ x.retryAt = "future"
          /\ handler' = StartQueues([h EXCEPT !.retryAt[x.conv] =
                 IF x.conv \in h.registered THEN "past" ELSE @], {x.conv})

\* The time of a challenge comes.
Matures(c) ==
    /\ handler.retryAt[c] = "future"
    /\ handler' = [handler EXCEPT !.retryAt[c] = "past"]

\* The timer of scheduleRetry.
TimerFires(c) ==
    /\ handler.timer[c] # "none"
    /\ handler.timer[c] = "own" => handler.retryAt[c] # "future"
    /\ handler' = StartQueues([handler EXCEPT !.timer[c] = "none",
                                              !.limited = FALSE], {c})

OnOffline ==
    /\ handler.online /\ handler.events < MaxEvents
    /\ handler' = [handler EXCEPT !.online = FALSE, !.events = @ + 1]

\* Mutant of OnOnline: it does not start what is due.
OnOnlineWithoutStarts ==
    LET due == {c \in handler.registered : handler.retryAt[c] = "past"}
        forgotten == (handler.pending \cap handler.registered) \ due IN
    handler' = [handler EXCEPT !.online = TRUE, !.pending = {},
                               !.dropped = @ \cup forgotten]

\* onOnline, on every connection: it forgets the queues that are to start, and
\* starts what is due.
OnOnline ==
    LET due == {c \in handler.registered : handler.retryAt[c] = "past"}
        forgotten == (handler.pending \cap handler.registered) \ due IN
    handler' = StartQueues([handler EXCEPT !.online = TRUE, !.pending = {},
                                           !.dropped = @ \cup forgotten], due)

\* The user has solved the captcha of a #solve, or of one that another has
\* overtaken.
Solved ==
    /\ handler.asked > 0
    /\ handler' = IF handler.token
                  THEN [handler EXCEPT !.asked = @ - 1, !.token = FALSE,
                                       !.sending = @ + 1]
                  ELSE [handler EXCEPT !.asked = @ - 1]

\* The server takes the captcha: startAllQueues with force.
SolveSucceeds ==
    /\ handler.sending > 0
    /\ handler' = StartQueues([handler EXCEPT !.sending = @ - 1],
                              handler.registered)

\* The server does not: forceWaitOnAll.
SolveFails ==
    /\ handler.sending > 0
    /\ handler' = [handler EXCEPT
           !.sending = @ - 1, !.limited = TRUE,
           !.retryAt = [c \in Convs |-> IF c \in handler.registered THEN "future"
                                        ELSE @[c]],
           !.timer = [c \in Convs |-> IF c \in handler.registered THEN "own"
                                      ELSE @[c]]]

Registers == \E x \in handler.registering : Registered(x)
SolveEnds == SolveSucceeds \/ SolveFails

\* What the handler does, except to start queues and to let a time come.
HandlerSteps ==
    \/ \E c \in Convs : TimerFires(c)
    \/ Registers \/ OnOnline \/ OnOffline \/ Solved \/ SolveEnds

HandlerTypeOK ==
    /\ handler.registered \cup handler.tokens \cup handler.pending
         \cup handler.starting \cup handler.dropped \subseteq Convs
    /\ handler.retryAt \in [Convs -> {"none", "future", "past"}]
    /\ handler.timer \in [Convs -> {"none", "own", "limit"}]
    /\ handler.registering \subseteq Challenges
    /\ {handler.online, handler.limited, handler.token} \subseteq BOOLEAN
    /\ {handler.asked, handler.sending} \subseteq 0..MaxEvents
===============================================================================
