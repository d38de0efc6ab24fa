----------------------------- MODULE SocketManager -----------------------------
(***************************************************************************)
(* SocketManager: the authenticated socket, which reconnects after a       *)
(* backoff when it is closed, and the unauthenticated one, which is        *)
(* connected for a request and closed five minutes later.                  *)
(*                                                                         *)
(* A connection attempt is an AbortableProcess: when it has been aborted   *)
(* its rejection comes later, and finds that the process is no longer      *)
(* #authenticated.  Closing an open socket calls its listener at once.     *)
(***************************************************************************)
EXTENDS Naturals

CONSTANTS
    Accounts,  \* the credentials there may be
    MaxCalls   \* bound on what others ask of the manager

ASSUME SocketManagerAssumption == MaxCalls \in Nat

VARIABLES
    credentials, \* #credentials, a set of one at most
    expired,     \* #expirationReason
    auth,        \* #authenticated: "none", "connecting" or "open"
    owner,       \* whose the attempt is: a "loop" of reconnect(), or a "caller"
    stale,       \* aborted attempts whose rejection has not come
    status,      \* #authenticatedStatus
    online,      \* #privIsOnline
    held,        \* does the sleep of #reconnectController go on?
    loops,       \* how many other loops of reconnect() sleep
    unauth,      \* #unauthenticated
    wanted,      \* does a fetch wait for it, to start its timer?
    timer,       \* #unauthenticatedExpirationTimer
    reason,      \* for the properties: why nobody is to reconnect,
    loggedOut,   \* and has nobody logged in since the last logout?
    calls        \* for the bound

socket == <<auth, owner, stale, status, online, reason>>
reconnects == <<held, loops>>
unauthenticated == <<unauth, wanted, timer>>
account == <<credentials, expired, loggedOut>>
vars == <<socket, reconnects, unauthenticated, account, calls>>

Init ==
    /\ credentials = {} /\ expired = FALSE
    /\ auth = "none" /\ owner = "caller" /\ stale = 0 /\ status = "CLOSED"
    /\ online = "unknown" /\ held = FALSE /\ loops = 0
    /\ unauth = "none" /\ wanted = FALSE /\ timer = FALSE
    /\ reason = "none" /\ loggedOut = TRUE /\ calls = 0

Call == calls < MaxCalls /\ calls' = calls + 1

-----------------------------------------------------------------------------
\* Parts of the steps.

\* An attempt that is aborted is rejected later.
Aborted == stale' = IF auth = "connecting" THEN stale + 1 ELSE stale

\* A new attempt for #authenticated, from the status that is left by what was
\* there before.
Connecting(who, left) ==
    /\ auth' = "connecting" /\ owner' = who /\ status' = left
    /\ reason' = "none"

\* authenticate() with an attempt of its own, unless the version has expired,
\* when it throws.  The listener of an open socket, which is closed after the
\* status has been set, sets it to CLOSED.
Authenticate(who) ==
    IF expired THEN UNCHANGED socket
    ELSE /\ Connecting(who, IF auth = "open" THEN "CLOSED" ELSE "CONNECTING")
         /\ Aborted /\ UNCHANGED online

\* #dropAuthenticated
DropAuthenticated == auth' = "none" /\ status' = "CLOSED"

\* reconnect() up to its sleep: its controller takes the place of another.
Reconnect ==
    IF expired THEN UNCHANGED reconnects
    ELSE /\ held' = TRUE
         /\ loops' = IF held THEN loops + 1 ELSE loops

\* Mutant of DropUnauthenticated: the timer goes on.
DropUnauthenticatedOnly ==
    unauth' = "none" /\ wanted' = FALSE /\ UNCHANGED timer

\* #dropUnauthenticated: who waits for the socket is rejected.
DropUnauthenticated == unauth' = "none" /\ wanted' = FALSE /\ timer' = FALSE

-----------------------------------------------------------------------------
\* Attempts and sockets.

ConnectionOpens ==
    /\ auth = "connecting" /\ auth' = "open"
    /\ status' = "OPEN" /\ online' = "online"
    /\ UNCHANGED <<owner, stale, reason, reconnects, unauthenticated, account,
                   calls>>

\* Mutant of Follow: the status is set before it is asked whose rejection it is.
FollowTooEarly(mine, outcome) ==
    /\ ~mine /\ status' = "CLOSED"
    /\ UNCHANGED <<auth, owner, online, reason, reconnects, unauthenticated,
                   account, calls>>

\* The rejection of an attempt, of #authenticated or of a process that has been
\* aborted.  Errors of credentials, of the version and of most other statuses
\* stop; a rate limit is thrown to the caller of authenticate(), and a loop of
\* reconnect() goes on.
Follow(mine, outcome) ==
    IF ~mine THEN UNCHANGED <<auth, owner, status, online, reason, reconnects,
                              unauthenticated, account, calls>>
    ELSE /\ DropAuthenticated
         /\ CASE outcome = "stop" -> reason' = "stop" /\ UNCHANGED reconnects
              [] outcome = "429" /\ owner = "caller"
                   -> reason' = "429" /\ UNCHANGED reconnects
              [] OTHER -> Reconnect /\ UNCHANGED reason
         /\ online' = IF outcome = "offline" THEN "offline" ELSE online
         /\ UNCHANGED <<owner, unauthenticated, account, calls>>

ConnectionFails ==
    /\ auth = "connecting"
    /\ \E outcome \in {"retry", "offline", "stop", "429"} : Follow(TRUE, outcome)
    /\ UNCHANGED stale

AbortRejects ==
    /\ stale > 0 /\ stale' = stale - 1
    /\ Follow(FALSE, "retry")

\* Mutant of Closes: a closed socket is not followed by a reconnect.
ClosesOnly ==
    /\ auth = "open" /\ DropAuthenticated
    /\ UNCHANGED <<owner, stale, online, reason, reconnects, unauthenticated,
                   account, calls>>

\* The listener of "close": a normal end and "connected elsewhere" stop.
Closes ==
    /\ auth = "open" /\ DropAuthenticated
    /\ \/ reason' = "stop" /\ UNCHANGED reconnects
       \/ Reconnect /\ UNCHANGED reason
    /\ UNCHANGED <<owner, stale, online, unauthenticated, account, calls>>

\* Mutant of Woken: a loop connects with the credentials it was called with, not
\* with those there are.
WokenWithOldCredentials ==
    IF auth = "none" THEN Authenticate("loop") ELSE UNCHANGED socket

\* Mutant of Woken: a loop wakes and does nothing.
WokenInVain == UNCHANGED socket

\* A loop of reconnect() after its sleep.  Without credentials it fails on its
\* assertion.
Woken ==
    IF auth = "none" /\ credentials # {} THEN Authenticate("loop")
    ELSE UNCHANGED socket

Wakes ==
    /\ \/ held /\ held' = FALSE /\ UNCHANGED loops
       \/ loops > 0 /\ loops' = loops - 1 /\ UNCHANGED held
    /\ Woken
    /\ UNCHANGED <<unauthenticated, account, calls>>

-----------------------------------------------------------------------------
\* What others ask.

\* authenticate(): the same credentials wait for what is there.
Login(a) ==
    /\ Call /\ ~expired
    /\ ~(credentials = {a} /\ auth # "none")
    /\ credentials' = {a} /\ loggedOut' = FALSE
    /\ Authenticate("caller")
    /\ UNCHANGED <<reconnects, unauthenticated, expired>>

\* getAuthenticatedResource(), for a request.
GetAuthenticatedResource ==
    /\ Call /\ auth = "none" /\ credentials # {}
    /\ Authenticate("caller")
    /\ UNCHANGED <<reconnects, unauthenticated, account>>

OnNavigatorOnline ==
    /\ Call /\ credentials # {}
    /\ held' = FALSE
    /\ IF auth = "none" THEN Authenticate("caller") ELSE UNCHANGED socket
    /\ UNCHANGED <<loops, unauthenticated, account>>

\* reconnect(), for a change of the remote configuration or of the stories.
ReconnectNow ==
    /\ Call /\ Aborted
    /\ DropUnauthenticated
    /\ held' = (held /\ credentials = {})
    /\ IF credentials # {} /\ ~expired
       THEN Connecting("caller", "CONNECTING")
       ELSE DropAuthenticated /\ UNCHANGED <<owner, reason>>
    /\ UNCHANGED <<online, loops, account>>

\* logout()
LogOut ==
    /\ DropAuthenticated /\ Aborted
    /\ online' = "offline" /\ loggedOut' = TRUE /\ credentials' = {}
    /\ UNCHANGED <<owner, reason, loops, unauthenticated>>

Logout == Call /\ LogOut /\ UNCHANGED <<held, expired>>
OnExpiration == Call /\ expired' = TRUE /\ held' = FALSE /\ LogOut

-----------------------------------------------------------------------------
\* The unauthenticated socket.

\* fetch() and getUnauthenticatedApi(), of which the first starts the timer.
GetUnauthenticatedResource ==
    /\ ~expired
    /\ unauth' = IF unauth = "none" THEN "connecting" ELSE unauth
    /\ \E fetch \in BOOLEAN :
         /\ wanted' = (wanted \/ (fetch /\ unauth # "open"))
         /\ timer' = (timer \/ (fetch /\ unauth = "open"))
    /\ UNCHANGED <<socket, reconnects, account, calls>>

UnauthenticatedOpens ==
    /\ unauth = "connecting" /\ unauth' = "open"
    /\ wanted' = FALSE /\ timer' = (timer \/ wanted)
    /\ UNCHANGED <<socket, reconnects, account, calls>>

\* It fails, or is closed.
UnauthenticatedEnds ==
    /\ unauth # "none" /\ DropUnauthenticated
    /\ UNCHANGED <<socket, reconnects, account, calls>>

\* The five minutes are over: the socket is shut down.  Its listener drops it at
\* once, so what follows for a socket that is still there is never reached.
TimerFires ==
    /\ timer /\ DropUnauthenticated
    /\ UNCHANGED <<socket, reconnects, account, calls>>

-----------------------------------------------------------------------------
Next ==
    \/ ConnectionOpens \/ ConnectionFails \/ AbortRejects \/ Closes \/ Wakes
    \/ (\E a \in Accounts : Login(a))
    \/ GetAuthenticatedResource \/ OnNavigatorOnline \/ ReconnectNow \/ Logout
    \/ OnExpiration
    \/ GetUnauthenticatedResource \/ UnauthenticatedOpens \/ UnauthenticatedEnds
    \/ TimerFires

\* Sleeps end, attempts end, and the network is not down for ever.
Fairness == WF_vars(Wakes) /\ SF_vars(ConnectionOpens) /\ WF_vars(TimerFires)

Spec == Init /\ [][Next]_vars /\ Fairness
-----------------------------------------------------------------------------
Sleeping == held \/ loops > 0

TypeOK ==
    /\ credentials \subseteq Accounts
    /\ expired \in BOOLEAN /\ loggedOut \in BOOLEAN
    /\ auth \in {"none", "connecting", "open"} /\ owner \in {"loop", "caller"}
    /\ stale \in Nat /\ loops \in Nat
    /\ status \in {"CLOSED", "CONNECTING", "OPEN"}
    /\ online \in {"unknown", "online", "offline"}
    /\ held \in BOOLEAN /\ wanted \in BOOLEAN /\ timer \in BOOLEAN
    /\ unauth \in {"none", "connecting", "open"}
    /\ reason \in {"none", "stop", "429"}

\* The status that the application sees is that of #authenticated, whatever late
\* rejections, closed sockets and new attempts follow each other; only an
\* attempt that takes the place of an open socket is CLOSED until it opens.  An
\* open socket is online.
StatusIsTrue ==
    /\ status = "OPEN" <=> auth = "open"
    /\ status = "CONNECTING" => auth = "connecting"
    /\ status = "OPEN" => online = "online"

\* "Automatically reconnects on closed socket": a manager that has credentials
\* is connected, connecting or about to, unless the server has told it to stop
\* or a rate limit has been thrown to a caller.  No abort of the last sleep,
\* early wake-up or replaced attempt leaves it silent.
NeverSilent == credentials # {} /\ auth = "none" => Sleeping \/ reason # "none"

\* After a logout nothing connects until somebody logs in: a loop that outlives
\* it, for logout() aborts no sleep and one whose controller was replaced cannot
\* be aborted, stays quiet when it wakes (reconnect).  After an expiration nothing
\* connects again.
QuietWithoutAccount == auth # "none" => ~loggedOut /\ ~expired

\* The timer is that of the socket there is: it never shuts down a later one.
TimerIsCurrent == timer => unauth = "open"

\* Whoever has an account is connected in the end.
OpensInTheEnd ==
    credentials # {} /\ reason = "none"
        ~> status = "OPEN" \/ credentials = {} \/ reason # "none"
===============================================================================
