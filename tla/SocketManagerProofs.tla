-------------------------- MODULE SocketManagerProofs --------------------------
(***************************************************************************)
(* The safety of SocketManager, for any credentials, any number of calls,  *)
(* of sleeping loops and of aborted attempts.                              *)
(***************************************************************************)
EXTENDS SocketManager, TLAPS

\* Whoever is logged out has no credentials, and after an expiration everybody is.
LoggedOutHasNoAccount ==
    (loggedOut <=> credentials = {}) /\ (expired => loggedOut)

\* The strengthening: a loop that wakes needs an account, which is not there after
\* a logout or an expiration.
IInv ==
    /\ TypeOK /\ StatusIsTrue /\ NeverSilent /\ QuietWithoutAccount
    /\ TimerIsCurrent /\ LoggedOutHasNoAccount

\* The part of the type invariant without counters and the flags of reconnect()
\* and of the unauthenticated socket.
ValuesOK ==
    /\ credentials \subseteq Accounts
    /\ expired \in BOOLEAN /\ loggedOut \in BOOLEAN
    /\ auth \in {"none", "connecting", "open"} /\ owner \in {"loop", "caller"}
    /\ status \in {"CLOSED", "CONNECTING", "OPEN"}
    /\ online \in {"unknown", "online", "offline"}
    /\ unauth \in {"none", "connecting", "open"}
    /\ reason \in {"none", "stop", "429"}

-----------------------------------------------------------------------------
\* The strengthening holds at the start.
LEMMA Initially == Init => IInv
<1>. SUFFICES ASSUME Init PROVE IInv
  OBVIOUS
<1>1. TypeOK
  BY DEF Init, TypeOK
<1>2. StatusIsTrue /\ NeverSilent /\ QuietWithoutAccount
  BY DEF Init, StatusIsTrue, NeverSilent, QuietWithoutAccount
<1>3. TimerIsCurrent /\ LoggedOutHasNoAccount
  BY DEF Init, TimerIsCurrent, LoggedOutHasNoAccount
<1>. QED
  BY <1>1, <1>2, <1>3 DEF IInv

\* The strengthening is inductive: an action by an action.
LEMMA Step == IInv /\ [Next]_vars => IInv'
<1>. SUFFICES ASSUME IInv, [Next]_vars PROVE IInv'
  OBVIOUS
<1>. USE DEF IInv
<1>1. CASE ConnectionOpens
  BY <1>1 DEF ConnectionOpens, reconnects, unauthenticated, account, TypeOK,
     StatusIsTrue, NeverSilent, Sleeping, QuietWithoutAccount, TimerIsCurrent,
     LoggedOutHasNoAccount
<1>2. CASE ConnectionFails
  <2>1. TypeOK'
    <3>1. held' \in BOOLEAN /\ wanted' \in BOOLEAN /\ timer' \in BOOLEAN
      BY <1>2 DEF ConnectionFails, Follow, DropAuthenticated, Reconnect,
         reconnects, unauthenticated, account, TypeOK
    <3>2. stale' \in Nat /\ loops' \in Nat
      BY <1>2 DEF ConnectionFails, Follow, DropAuthenticated, Reconnect,
         reconnects, unauthenticated, account, TypeOK
    <3>3. ValuesOK'
      BY <1>2 DEF ConnectionFails, Follow, DropAuthenticated, Reconnect,
         reconnects, unauthenticated, account, TypeOK, ValuesOK
    <3>. QED
      BY <3>1, <3>2, <3>3 DEF TypeOK, ValuesOK
  <2>2. StatusIsTrue'
    BY <1>2 DEF ConnectionFails, Follow, DropAuthenticated, Reconnect,
       reconnects, unauthenticated, account, TypeOK, StatusIsTrue
  <2>3. NeverSilent'
    BY <1>2 DEF ConnectionFails, Follow, DropAuthenticated, Reconnect,
       reconnects, unauthenticated, account, TypeOK, NeverSilent, Sleeping,
       LoggedOutHasNoAccount
  <2>4. QuietWithoutAccount'
    BY <1>2 DEF ConnectionFails, Follow, DropAuthenticated, Reconnect,
       reconnects, unauthenticated, account, QuietWithoutAccount,
       LoggedOutHasNoAccount
  <2>5. TimerIsCurrent'
    BY <1>2 DEF ConnectionFails, Follow, DropAuthenticated, Reconnect,
       reconnects, unauthenticated, account, TimerIsCurrent
  <2>6. LoggedOutHasNoAccount'
    BY <1>2 DEF ConnectionFails, Follow, DropAuthenticated, Reconnect,
       reconnects, unauthenticated, account, LoggedOutHasNoAccount
  <2>. QED
    BY <2>1, <2>2, <2>3, <2>4, <2>5, <2>6
<1>3. CASE AbortRejects
  BY <1>3 DEF AbortRejects, Follow, reconnects, unauthenticated, account,
     TypeOK, StatusIsTrue, NeverSilent, Sleeping, QuietWithoutAccount,
     TimerIsCurrent, LoggedOutHasNoAccount
<1>4. CASE Closes
  <2>1. TypeOK'
    <3>1. held' \in BOOLEAN /\ wanted' \in BOOLEAN /\ timer' \in BOOLEAN
      BY <1>4 DEF Closes, DropAuthenticated, Reconnect, reconnects,
         unauthenticated, account, TypeOK
    <3>2. stale' \in Nat /\ loops' \in Nat
      BY <1>4 DEF Closes, DropAuthenticated, Reconnect, reconnects,
         unauthenticated, account, TypeOK
    <3>3. ValuesOK'
      BY <1>4 DEF Closes, DropAuthenticated, Reconnect, reconnects,
         unauthenticated, account, TypeOK, ValuesOK
    <3>. QED
      BY <3>1, <3>2, <3>3 DEF TypeOK, ValuesOK
  <2>2. StatusIsTrue'
    BY <1>4 DEF Closes, DropAuthenticated, Reconnect, reconnects,
       unauthenticated, account, TypeOK, StatusIsTrue
  <2>3. NeverSilent'
    BY <1>4 DEF Closes, DropAuthenticated, Reconnect, reconnects,
       unauthenticated, account, TypeOK, NeverSilent, Sleeping,
       LoggedOutHasNoAccount
  <2>4. QuietWithoutAccount'
    BY <1>4 DEF Closes, DropAuthenticated, Reconnect, reconnects,
       unauthenticated, account, QuietWithoutAccount, LoggedOutHasNoAccount
  <2>5. TimerIsCurrent'
    BY <1>4 DEF Closes, DropAuthenticated, Reconnect, reconnects,
       unauthenticated, account, TimerIsCurrent
  <2>6. LoggedOutHasNoAccount'
    BY <1>4 DEF Closes, DropAuthenticated, Reconnect, reconnects,
       unauthenticated, account, LoggedOutHasNoAccount
  <2>. QED
    BY <2>1, <2>2, <2>3, <2>4, <2>5, <2>6
<1>5. CASE Wakes
  <2>1. TypeOK'
    <3>1. held' \in BOOLEAN /\ wanted' \in BOOLEAN /\ timer' \in BOOLEAN
      BY <1>5 DEF Wakes, Woken, Authenticate, Connecting, Aborted, socket,
         unauthenticated, account, TypeOK
    <3>2. stale' \in Nat /\ loops' \in Nat
      BY <1>5 DEF Wakes, Woken, Authenticate, Connecting, Aborted, socket,
         unauthenticated, account, TypeOK
    <3>3. ValuesOK'
      BY <1>5 DEF Wakes, Woken, Authenticate, Connecting, Aborted, socket,
         unauthenticated, account, TypeOK, ValuesOK
    <3>. QED
      BY <3>1, <3>2, <3>3 DEF TypeOK, ValuesOK
  <2>2. StatusIsTrue'
    BY <1>5 DEF Wakes, Woken, Authenticate, Connecting, Aborted, socket,
       unauthenticated, account, TypeOK, StatusIsTrue
  <2>3. NeverSilent'
    BY <1>5 DEF Wakes, Woken, Authenticate, Connecting, Aborted, socket,
       unauthenticated, account, TypeOK, NeverSilent, Sleeping,
       LoggedOutHasNoAccount
  <2>4. QuietWithoutAccount'
    BY <1>5 DEF Wakes, Woken, Authenticate, Connecting, Aborted, socket,
       unauthenticated, account, QuietWithoutAccount, LoggedOutHasNoAccount
  <2>5. TimerIsCurrent'
    BY <1>5 DEF Wakes, Woken, Authenticate, Connecting, Aborted, socket,
       unauthenticated, account, TimerIsCurrent
  <2>6. LoggedOutHasNoAccount'
    BY <1>5 DEF Wakes, Woken, Authenticate, Connecting, Aborted, socket,
       unauthenticated, account, LoggedOutHasNoAccount
  <2>. QED
    BY <2>1, <2>2, <2>3, <2>4, <2>5, <2>6
<1>6. ASSUME NEW a \in Accounts, Login(a) PROVE IInv'
  <2>1. TypeOK'
    <3>1. held' \in BOOLEAN /\ wanted' \in BOOLEAN /\ timer' \in BOOLEAN
      BY <1>6 DEF Login, reconnects, unauthenticated, TypeOK
    <3>2. stale' \in Nat /\ loops' \in Nat
      BY <1>6 DEF Login, Authenticate, Aborted, reconnects, TypeOK
    <3>3. ValuesOK'
      BY <1>6 DEF Login, Authenticate, Connecting, reconnects, unauthenticated,
         TypeOK, ValuesOK
    <3>. QED
      BY <3>1, <3>2, <3>3 DEF TypeOK, ValuesOK
  <2>2. StatusIsTrue' /\ NeverSilent'
    BY <1>6 DEF Login, Authenticate, Connecting, Aborted, reconnects, TypeOK,
       StatusIsTrue, NeverSilent, Sleeping
  <2>3. QuietWithoutAccount' /\ TimerIsCurrent'
    BY <1>6 DEF Login, Authenticate, Connecting, Aborted, unauthenticated,
       QuietWithoutAccount, TimerIsCurrent
  <2>4. LoggedOutHasNoAccount'
    BY <1>6 DEF Login, LoggedOutHasNoAccount
  <2>. QED
    BY <2>1, <2>2, <2>3, <2>4
<1>7. CASE GetAuthenticatedResource
  BY <1>7 DEF GetAuthenticatedResource, Authenticate, Connecting, Aborted, socket,
     reconnects, unauthenticated, account, TypeOK, StatusIsTrue, NeverSilent,
     Sleeping, QuietWithoutAccount, TimerIsCurrent, LoggedOutHasNoAccount
<1>8. CASE OnNavigatorOnline
  BY <1>8 DEF OnNavigatorOnline, Authenticate, Connecting, Aborted, socket,
     unauthenticated, account, TypeOK, StatusIsTrue, NeverSilent, Sleeping,
     QuietWithoutAccount, TimerIsCurrent, LoggedOutHasNoAccount
<1>9. CASE ReconnectNow
  <2>1. TypeOK'
    <3>1. held' \in BOOLEAN /\ wanted' \in BOOLEAN /\ timer' \in BOOLEAN
      BY <1>9 DEF ReconnectNow, Aborted, DropUnauthenticated, Connecting,
         DropAuthenticated, account, TypeOK
    <3>2. stale' \in Nat /\ loops' \in Nat
      BY <1>9 DEF ReconnectNow, Aborted, DropUnauthenticated, Connecting,
         DropAuthenticated, account, TypeOK
    <3>3. ValuesOK'
      BY <1>9 DEF ReconnectNow, Aborted, DropUnauthenticated, Connecting,
         DropAuthenticated, account, TypeOK, ValuesOK
    <3>. QED
      BY <3>1, <3>2, <3>3 DEF TypeOK, ValuesOK
  <2>2. StatusIsTrue'
    BY <1>9 DEF ReconnectNow, Aborted, DropUnauthenticated, Connecting,
       DropAuthenticated, account, TypeOK, StatusIsTrue
  <2>3. NeverSilent'
    BY <1>9 DEF ReconnectNow, Aborted, DropUnauthenticated, Connecting,
       DropAuthenticated, account, TypeOK, NeverSilent, Sleeping,
       LoggedOutHasNoAccount
  <2>4. QuietWithoutAccount'
    BY <1>9 DEF ReconnectNow, Aborted, DropUnauthenticated, Connecting,
       DropAuthenticated, account, QuietWithoutAccount, LoggedOutHasNoAccount
  <2>5. TimerIsCurrent'
    BY <1>9 DEF ReconnectNow, Aborted, DropUnauthenticated, Connecting,
       DropAuthenticated, account, TimerIsCurrent
  <2>6. LoggedOutHasNoAccount'
    BY <1>9 DEF ReconnectNow, Aborted, DropUnauthenticated, Connecting,
       DropAuthenticated, account, LoggedOutHasNoAccount
  <2>. QED
    BY <2>1, <2>2, <2>3, <2>4, <2>5, <2>6
<1>10. CASE Logout
  BY <1>10 DEF Logout, LogOut, DropAuthenticated, Aborted, unauthenticated,
     TypeOK, StatusIsTrue, NeverSilent, Sleeping, QuietWithoutAccount,
     TimerIsCurrent, LoggedOutHasNoAccount
<1>11. CASE OnExpiration
  <2>1. TypeOK'
    <3>1. held' \in BOOLEAN /\ wanted' \in BOOLEAN /\ timer' \in BOOLEAN
      BY <1>11 DEF OnExpiration, LogOut, DropAuthenticated, Aborted,
         unauthenticated, TypeOK
    <3>2. stale' \in Nat /\ loops' \in Nat
      BY <1>11 DEF OnExpiration, LogOut, DropAuthenticated, Aborted,
         unauthenticated, TypeOK
    <3>3. ValuesOK'
      BY <1>11 DEF OnExpiration, LogOut, DropAuthenticated, Aborted,
         unauthenticated, TypeOK, ValuesOK
    <3>. QED
      BY <3>1, <3>2, <3>3 DEF TypeOK, ValuesOK
  <2>2. StatusIsTrue'
    BY <1>11 DEF OnExpiration, LogOut, DropAuthenticated, Aborted,
       unauthenticated, TypeOK, StatusIsTrue
  <2>3. NeverSilent'
    BY <1>11 DEF OnExpiration, LogOut, DropAuthenticated, Aborted,
       unauthenticated, TypeOK, NeverSilent, Sleeping,
       LoggedOutHasNoAccount
  <2>4. QuietWithoutAccount'
    BY <1>11 DEF OnExpiration, LogOut, DropAuthenticated, Aborted,
       unauthenticated, QuietWithoutAccount, LoggedOutHasNoAccount
  <2>5. TimerIsCurrent'
    BY <1>11 DEF OnExpiration, LogOut, DropAuthenticated, Aborted,
       unauthenticated, TimerIsCurrent
  <2>6. LoggedOutHasNoAccount'
    BY <1>11 DEF OnExpiration, LogOut, DropAuthenticated, Aborted,
       unauthenticated, LoggedOutHasNoAccount
  <2>. QED
    BY <2>1, <2>2, <2>3, <2>4, <2>5, <2>6
<1>12. CASE GetUnauthenticatedResource
  BY <1>12 DEF GetUnauthenticatedResource, socket, reconnects, account, TypeOK,
     StatusIsTrue, NeverSilent, Sleeping, QuietWithoutAccount, TimerIsCurrent,
     LoggedOutHasNoAccount
<1>13. CASE UnauthenticatedOpens
  BY <1>13 DEF UnauthenticatedOpens, socket, reconnects, account, TypeOK,
     StatusIsTrue, NeverSilent, Sleeping, QuietWithoutAccount, TimerIsCurrent,
     LoggedOutHasNoAccount
<1>14. CASE UnauthenticatedEnds
  BY <1>14 DEF UnauthenticatedEnds, DropUnauthenticated, socket, reconnects,
     account, TypeOK, StatusIsTrue, NeverSilent, Sleeping, QuietWithoutAccount,
     TimerIsCurrent, LoggedOutHasNoAccount
<1>15. CASE TimerFires
  BY <1>15 DEF TimerFires, DropUnauthenticated, socket, reconnects, account,
     TypeOK, StatusIsTrue, NeverSilent, Sleeping, QuietWithoutAccount,
     TimerIsCurrent, LoggedOutHasNoAccount
<1>16. CASE UNCHANGED vars
  BY <1>16 DEF vars, socket, reconnects, unauthenticated, account, TypeOK,
     StatusIsTrue, NeverSilent, Sleeping, QuietWithoutAccount, TimerIsCurrent,
     LoggedOutHasNoAccount
<1>. QED
  BY <1>1, <1>2, <1>3, <1>4, <1>5, <1>6, <1>7, <1>8, <1>9, <1>10, <1>11, <1>12,
     <1>13, <1>14, <1>15, <1>16 DEF Next

-----------------------------------------------------------------------------
(***************************************************************************)
(* What holds of every behaviour.                                          *)
(***************************************************************************)

\* The strengthening is an invariant of the specification.
THEOREM Invariance == Spec => []IInv
<1>. QED
  BY Initially, Step, PTL DEF Spec

\* The status that the application sees is that of the authenticated socket,
\* whatever late rejections, closes and new attempts follow each other.
THEOREM TrueStatus == Spec => []StatusIsTrue
<1>1. IInv => StatusIsTrue
  BY DEF IInv
<1>. QED
  BY Invariance, <1>1, PTL

\* With an account the manager is connected, connecting or about to, unless it
\* has a reason not to be (reconnect, onNavigatorOnline, the "close" listener).
THEOREM NoSilence == Spec => []NeverSilent
<1>1. IInv => NeverSilent
  BY DEF IInv
<1>. QED
  BY Invariance, <1>1, PTL

\* After a logout nothing connects until somebody logs in, whatever loops still
\* sleep, and after an expiration nothing connects again.
THEOREM QuietAfterLogout == Spec => []QuietWithoutAccount
<1>1. IInv => QuietWithoutAccount
  BY DEF IInv
<1>. QED
  BY Invariance, <1>1, PTL

\* The five-minute timer is that of the unauthenticated socket there is.
THEOREM CurrentTimer == Spec => []TimerIsCurrent
<1>1. IInv => TimerIsCurrent
  BY DEF IInv
<1>. QED
  BY Invariance, <1>1, PTL
===============================================================================
