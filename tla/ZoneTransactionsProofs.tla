----------------------- MODULE ZoneTransactionsProofs -----------------------
(***************************************************************************)
(* Theorems about the transactions of SignalProtocolStore, for any number  *)
(* of calls, zones and rows.  The lock: type correctness, mutual exclusion *)
(* of zones, a queue that loses nobody, never sleeps while the zone is     *)
(* free and is fair.  The data: no dirty reads, a revert that leaves no    *)
(* trace, a commit that leaves nothing out, and kyber triples seen once.   *)
(***************************************************************************)
EXTENDS ZoneTransactions, FiniteSetTheorems, SequenceTheorems, TLAPS

\* The conjuncts of TypeOK about the lock, and about the data.
LockTypes ==
    /\ currentZone \in Zones \cup {NoZone}
    /\ depth \in Nat
    /\ zoneQueue \in Seq(Calls)
    /\ pc \in [Calls -> PCs]

DataTypes ==
    /\ pending \in Rows /\ cache \in Rows /\ db \in Rows
    /\ writes \in Seq([by : Calls, changes : Rows])

\* The zone is set exactly while the depth counts somebody, and the first
\* queued call waits for another zone.
ZoneIsHeld ==
    /\ currentZone = NoZone <=> depth = 0
    /\ zoneQueue # <<>> =>
          currentZone # NoZone /\ ZoneOf[zoneQueue[1]] # currentZone

\* Every write in flight belongs to a call of its own that awaits it.
WritersWait ==
    /\ \A i \in 1..Len(writes) : pc[writes[i].by] \in {"writing", "committing"}
    /\ \A i, j \in 1..Len(writes) : i # j => writes[i].by # writes[j].by

LockInv == LockTypes /\ OneZoneAtATime /\ QueueIsWaiters /\ ZoneIsHeld

IInv == LockInv /\ DataTypes /\ WritersWait

-----------------------------------------------------------------------------
\* Calls are finite, and so is every set of them.
LEMMA CallsFinite ==
    ASSUME NEW S \in SUBSET Calls
    PROVE  IsFiniteSet(S) /\ Cardinality(S) \in Nat
<1>1. IsFiniteSet(Calls)
  BY FS_Union, ZoneAssumption DEF Calls
<1> QED
  BY <1>1, FS_Subset, FS_CardinalityType

\* A downward-closed set of positions is an initial interval.
LEMMA InitialInterval ==
    ASSUME NEW n \in Nat, NEW S \in SUBSET (1..n),
           \A i \in S : \A j \in 1..i : j \in S
    PROVE  Cardinality(S) \in 0..n /\ S = 1..Cardinality(S)
<1>1. IsFiniteSet(1..n) /\ Cardinality(1..n) = n
  BY FS_Interval
<1>2. IsFiniteSet(S) /\ Cardinality(S) \in Nat /\ Cardinality(S) <= n
  BY <1>1, FS_Subset, FS_CardinalityType
<1> DEFINE k == Cardinality(S)
<1>3. S \subseteq 1..k
  <2> SUFFICES ASSUME NEW x \in S PROVE x <= k
    BY <1>2
  <2>1. (1..x) \in SUBSET S
    OBVIOUS
  <2>2. Cardinality(1..x) = x
    BY FS_Interval
  <2> QED
    BY <2>1, <2>2, <1>2, FS_Subset
<1>4. IsFiniteSet(1..k) /\ Cardinality(1..k) = k
  BY <1>2, FS_Interval
<1>5. S \in SUBSET (1..k) /\ Cardinality(1..k) = Cardinality(S)
  BY <1>3, <1>4
<1>6. 1..k = S
  BY <1>4, <1>5, FS_Subset
<1> QED
  BY <1>2, <1>6

\* What leaveZone takes off the queue: a maximal prefix of one zone.
LEMMA ReleasedIsPrefix ==
    ASSUME zoneQueue \in Seq(Calls)
    PROVE  LET k == Cardinality(ReleasedPrefix) IN
           /\ k \in 0..Len(zoneQueue)
           /\ ReleasedPrefix = 1..k
           /\ zoneQueue # <<>> => k > 0
           /\ k < Len(zoneQueue) =>
                 ZoneOf[zoneQueue[k + 1]] # ZoneOf[zoneQueue[1]]
<1> DEFINE k == Cardinality(ReleasedPrefix)
           n == Len(zoneQueue)
<1>1. n \in Nat
  BY LenProperties
<1>2. ReleasedPrefix \in SUBSET (1..n)
  BY DEF ReleasedPrefix
<1>3. \A i \in ReleasedPrefix : \A j \in 1..i : j \in ReleasedPrefix
  BY <1>1 DEF ReleasedPrefix
<1>4. k \in 0..n /\ ReleasedPrefix = 1..k
  BY <1>1, <1>2, <1>3, InitialInterval
<1>5. ASSUME zoneQueue # <<>> PROVE k > 0
  <2>1. 1 \in ReleasedPrefix
    BY <1>5, EmptySeq, <1>1 DEF ReleasedPrefix
  <2> QED
    BY <2>1, <1>4, <1>1
<1>6. ASSUME k < n PROVE ZoneOf[zoneQueue[k + 1]] # ZoneOf[zoneQueue[1]]
  <2>1. k + 1 \in 1..n /\ k + 1 \notin ReleasedPrefix
    BY <1>4, <1>6, <1>1
  <2>2. PICK j \in 1..(k + 1) : ZoneOf[zoneQueue[j]] # ZoneOf[zoneQueue[1]]
    BY <2>1 DEF ReleasedPrefix
  <2>3. j \notin 1..k
    BY <2>2, <1>4, <1>1 DEF ReleasedPrefix
  <2> QED
    BY <2>2, <2>3, <1>4, <1>1
<1> QED
  BY <1>4, <1>5, <1>6
-----------------------------------------------------------------------------
\* The calls that the depth counts are those whose place is inside.
LEMMA UsersFacts ==
    /\ Users \in SUBSET Calls
    /\ IsFiniteSet(Users) /\ Cardinality(Users) \in Nat
    /\ \A c \in Calls : c \in Users <=> pc[c] \in Inside \cup {"leaked"}
    /\ \A c \in Calls : c \in Active <=> pc[c] \in Inside
<1>1. Users \in SUBSET Calls
  BY DEF Users, Active, Leaked
<1> QED
  BY <1>1, CallsFinite DEF Users, Active, Leaked

\* A step that moves one user from one place inside withZone to another, or
\* leaves it leaked, disturbs nothing about the lock.
LEMMA MoveKeepsLock ==
    ASSUME LockInv, NEW c \in Active, NEW p \in Inside \cup {"leaked"},
           pc' = [pc EXCEPT ![c] = p], UNCHANGED lock
    PROVE  LockInv'
<1>1. LockTypes'
  BY DEF LockInv, LockTypes, lock, PCs, Final
<1>2. Users' = Users /\ Active' \subseteq Active
  BY DEF Users, Active, Leaked, LockInv, LockTypes, Inside
<1>3. OneZoneAtATime'
  BY <1>2 DEF OneZoneAtATime, LockInv, lock
<1>4. {x \in Calls : pc'[x] = "waiting"} = {x \in Calls : pc[x] = "waiting"}
  BY DEF LockInv, LockTypes, Active, Inside
<1>5. QueueIsWaiters'
  BY <1>4 DEF QueueIsWaiters, LockInv, lock
<1>6. ZoneIsHeld'
  BY DEF ZoneIsHeld, LockInv, lock
<1> QED
  BY <1>1, <1>3, <1>5, <1>6 DEF LockInv

\* enterZone finds the zone free, so without users, or the same.
LEMMA EnterKeepsLock ==
    ASSUME LockInv, NEW c \in Calls, Enter(c)
    PROVE  LockInv'
<1> USE DEF LockInv
<1>1. LockTypes'
  <2>1. ZoneOf[c] \in Zones
    BY ZoneAssumption
  <2>2. pc' \in [Calls -> PCs]
    BY DEF LockTypes, Enter, PCs, Inside
  <2> QED
    BY <2>1, <2>2 DEF LockTypes, Enter
<1>2. c \notin Users /\ Users' = Users \cup {c} /\ Active' = Active \cup {c}
  BY DEF Users, Active, Leaked, Enter, LockTypes, Inside
<1>3. Cardinality(Users') = Cardinality(Users) + 1
  BY <1>2, UsersFacts, FS_AddElement
<1>4. currentZone' = ZoneOf[c] /\ currentZone' # NoZone
  BY ZoneAssumption DEF Enter
<1>5. \A x \in Active' : ZoneOf[x] = currentZone'
  <2>1. CASE currentZone = NoZone
    <3>1. Cardinality(Users) = 0
      BY <2>1 DEF ZoneIsHeld, OneZoneAtATime
    <3>2. Users = {}
      BY <3>1, UsersFacts, FS_EmptySet
    <3> QED
      BY <3>2, <1>2, <1>4 DEF Users
  <2>2. CASE currentZone = ZoneOf[c]
    BY <2>2, <1>2, <1>4 DEF OneZoneAtATime
  <2> QED
    BY <2>1, <2>2 DEF Enter
<1>6. OneZoneAtATime'
  BY <1>3, <1>5 DEF OneZoneAtATime, Enter
<1>7. QueueIsWaiters'
  <2>1. {x \in Calls : pc'[x] = "waiting"} = {x \in Calls : pc[x] = "waiting"}
    BY DEF Enter, LockTypes
  <2> QED
    BY <2>1 DEF QueueIsWaiters, Enter
<1>8. ZoneIsHeld'
  BY <1>4 DEF ZoneIsHeld, Enter, LockTypes
<1> QED
  BY <1>1, <1>6, <1>7, <1>8

\* A call that finds another zone goes to the end of the queue, once.
LEMMA WaitKeepsLock ==
    ASSUME LockInv, NEW c \in Calls, Wait(c)
    PROVE  LockInv'
<1> USE DEF LockInv
<1> DEFINE n == Len(zoneQueue)
<1>1. /\ n \in Nat /\ zoneQueue' \in Seq(Calls) /\ Len(zoneQueue') = n + 1
      /\ \A i \in 1..n : zoneQueue'[i] = zoneQueue[i]
      /\ zoneQueue'[n + 1] = c
  BY AppendProperties, LenProperties DEF Wait, LockTypes
<1>2. LockTypes'
  BY <1>1 DEF LockTypes, Wait, PCs
<1>3. Users' = Users /\ Active' = Active
  BY DEF Users, Active, Leaked, Wait, LockTypes, Inside
<1>4. OneZoneAtATime'
  BY <1>3 DEF OneZoneAtATime, Wait
<1>5. {x \in Calls : pc'[x] = "waiting"}
        = {x \in Calls : pc[x] = "waiting"} \cup {c}
  BY DEF Wait, LockTypes
<1>6. \A i \in 1..n : zoneQueue[i] # c
  BY DEF QueueIsWaiters, Wait
<1>7. QueueIsWaiters'
  <2>1. {zoneQueue'[i] : i \in 1..(n + 1)} = {zoneQueue[i] : i \in 1..n} \cup {c}
    BY <1>1
  <2>2. \A i, j \in 1..(n + 1) : i # j => zoneQueue'[i] # zoneQueue'[j]
    BY <1>1, <1>6 DEF QueueIsWaiters
  <2> QED
    BY <1>1, <1>5, <2>1, <2>2 DEF QueueIsWaiters
<1>8. ZoneIsHeld'
  <2>1. CASE zoneQueue = <<>>
    <3>1. n = 0
      BY <2>1
    <3> QED
      BY <3>1, <1>1 DEF ZoneIsHeld, Wait
  <2>2. CASE zoneQueue # <<>>
    <3>1. 1 \in 1..n
      BY <2>2, EmptySeq, <1>1 DEF LockTypes
    <3> QED
      BY <2>2, <3>1, <1>1 DEF ZoneIsHeld, Wait
  <2> QED
    BY <2>1, <2>2
<1> QED
  BY <1>2, <1>4, <1>7, <1>8

\* An inner call leaves: the zone keeps its other users.
LEMMA InnerLeaveKeepsLock ==
    ASSUME LockInv, NEW c \in Active, NEW end \in {"resolved", "rejected"},
           Leave(c, end), depth > 1
    PROVE  LockInv'
<1> USE DEF LockInv
<1>1. /\ depth' = depth - 1 /\ pc' = [pc EXCEPT ![c] = end]
      /\ UNCHANGED <<currentZone, zoneQueue>>
  BY DEF Leave
<1>2. LockTypes'
  <2>1. pc' \in [Calls -> PCs]
    BY <1>1 DEF LockTypes, PCs, Final
  <2>2. depth - 1 \in Nat
    BY DEF LockTypes
  <2> QED
    BY <2>1, <2>2, <1>1 DEF LockTypes
<1>3. c \in Users /\ Users' = Users \ {c} /\ Active' = Active \ {c}
  BY <1>1 DEF Users, Active, Leaked, LockTypes, Inside
<1>4. Cardinality(Users') = Cardinality(Users) - 1
  BY <1>3, UsersFacts, FS_RemoveElement
<1>5. OneZoneAtATime'
  BY <1>1, <1>3, <1>4 DEF OneZoneAtATime
<1>6. {x \in Calls : pc'[x] = "waiting"} = {x \in Calls : pc[x] = "waiting"}
  BY <1>1 DEF LockTypes, Active, Inside
<1>7. QueueIsWaiters'
  BY <1>1, <1>6 DEF QueueIsWaiters
<1>8. ZoneIsHeld'
  BY <1>1 DEF ZoneIsHeld, LockTypes
<1> QED
  BY <1>2, <1>5, <1>7, <1>8

\* The last user leaves: the zone goes to the released prefix of the queue.
LEMMA LastLeaveKeepsLock ==
    ASSUME LockInv, NEW c \in Active, NEW end \in {"resolved", "rejected"},
           Leave(c, end), ~(depth > 1)
    PROVE  LockInv'
<1> USE DEF LockInv
<1> DEFINE n == Len(zoneQueue)
           k == Cardinality(ReleasedPrefix)
<1>1. /\ currentZone' = IF zoneQueue = <<>> THEN NoZone
                                             ELSE ZoneOf[zoneQueue[1]]
      /\ depth' = Cardinality(Released)
      /\ zoneQueue' = SubSeq(zoneQueue, k + 1, n)
      /\ pc' = [x \in Calls |-> IF x = c THEN end
                                ELSE IF x \in Released THEN "body" ELSE pc[x]]
  BY DEF Leave
<1>2. /\ n \in Nat /\ k \in 0..n /\ ReleasedPrefix = 1..k
      /\ zoneQueue # <<>> => k > 0
      /\ k < n => ZoneOf[zoneQueue[k + 1]] # ZoneOf[zoneQueue[1]]
      /\ \A i \in 1..n : zoneQueue[i] \in Calls
  BY ReleasedIsPrefix, LenProperties DEF LockTypes
<1>3. zoneQueue = <<>> <=> n = 0
  BY EmptySeq DEF LockTypes
<1>4. Released = {zoneQueue[i] : i \in 1..k}
  BY <1>2 DEF Released
<1>5. /\ Released \in SUBSET Calls /\ IsFiniteSet(Released)
      /\ Cardinality(Released) \in Nat
      /\ \A x \in Released : pc[x] = "waiting"
  <2>1. Released \in SUBSET Calls
    BY <1>2, <1>4
  <2>2. \A x \in Released : pc[x] = "waiting"
    BY <1>2, <1>4 DEF QueueIsWaiters
  <2> QED
    BY <2>1, <2>2, CallsFinite
<1>6. c \in Calls /\ c \notin Released /\ pc[c] \in Inside
  BY <1>5 DEF Active, Inside
<1>7. /\ zoneQueue' \in Seq(Calls) /\ Len(zoneQueue') = n - k
      /\ \A i \in 1..(n - k) : zoneQueue'[i] = zoneQueue[k + i]
  <2>1. \A i \in (k + 1)..n : zoneQueue[i] \in Calls
    BY <1>2
  <2>2. /\ SubSeq(zoneQueue, k + 1, n) \in Seq(Calls)
        /\ Len(SubSeq(zoneQueue, k + 1, n)) = IF k + 1 <= n THEN n - (k + 1) + 1 ELSE 0
        /\ \A i \in 1..(n - (k + 1) + 1) :
              SubSeq(zoneQueue, k + 1, n)[i] = zoneQueue[(k + 1) + i - 1]
    BY <2>1, <1>2, SubSeqProperties
  <2> QED
    BY <2>2, <1>1, <1>2
<1>8. Users = {c}
  <2>1. c \in Users
    BY <1>6 DEF Users, Active
  <2>2. Cardinality(Users) <= 1
    BY UsersFacts DEF OneZoneAtATime, LockTypes
  <2>3. Cardinality({c}) = 1 /\ IsFiniteSet({c})
    BY FS_Singleton
  <2>4. Cardinality({c}) <= Cardinality(Users)
    BY <2>1, UsersFacts, FS_Subset
  <2>5. Cardinality(Users) = Cardinality({c})
    BY <2>2, <2>3, <2>4, UsersFacts
  <2> QED
    BY <2>1, <2>5, UsersFacts, FS_Subset
<1>9. Active' = Released /\ Users' = Released
  <2>1. \A x \in Calls : x # c => pc[x] \notin Inside \cup {"leaked"}
    BY <1>8, UsersFacts
  <2>2. \A x \in Calls : pc'[x] \in Inside \cup {"leaked"} <=> x \in Released
    BY <2>1, <1>1, <1>6 DEF Inside
  <2>3. \A x \in Released : pc'[x] = "body"
    BY <1>1, <1>5, <1>6
  <2> QED
    BY <2>2, <2>3, <1>5 DEF Users, Active, Leaked, Inside
<1>10. zoneQueue # <<>> => ZoneOf[zoneQueue[1]] \in Zones
  BY <1>2, <1>3, ZoneAssumption
<1>11. LockTypes'
  <2>1. pc' \in [Calls -> PCs]
    BY <1>1 DEF LockTypes, PCs, Inside, Final
  <2> QED
    BY <2>1, <1>1, <1>5, <1>7, <1>10 DEF LockTypes
<1>12. OneZoneAtATime'
  <2>1. ASSUME NEW x \in Released PROVE ZoneOf[x] = currentZone'
    <3>1. PICK i \in 1..k : x = zoneQueue[i]
      BY <1>4
    <3>2. i \in ReleasedPrefix /\ zoneQueue # <<>>
      BY <3>1, <1>2, <1>3
    <3>3. ZoneOf[zoneQueue[i]] = ZoneOf[zoneQueue[1]]
      BY <3>2, <1>2 DEF ReleasedPrefix
    <3> QED
      BY <3>1, <3>2, <3>3, <1>1
  <2> QED
    BY <2>1, <1>1, <1>9 DEF OneZoneAtATime
<1>13. QueueIsWaiters'
  <2>1. \A x \in Calls : pc'[x] = "waiting" <=> pc[x] = "waiting" /\ x \notin Released
    BY <1>1, <1>6 DEF Inside
  <2>2. \A x \in Calls :
          pc[x] = "waiting" <=> \E i \in 1..n : x = zoneQueue[i]
    BY <1>2 DEF QueueIsWaiters
  <2>3. \A i \in 1..n : zoneQueue[i] \in Released <=> i \in 1..k
    BY <1>2, <1>4 DEF QueueIsWaiters
  <2>4. \A x \in Calls :
          pc'[x] = "waiting" <=> \E i \in 1..(n - k) : x = zoneQueue'[i]
    <3>1. \A x \in Calls :
            pc'[x] = "waiting" <=> \E i \in (k + 1)..n : x = zoneQueue[i]
      BY <2>1, <2>2, <2>3, <1>2
    <3>2. \A x \in Calls : (\E i \in (k + 1)..n : x = zoneQueue[i])
                        <=> (\E i \in 1..(n - k) : x = zoneQueue[k + i])
      <4> SUFFICES ASSUME NEW x \in Calls
                   PROVE (\E i \in (k + 1)..n : x = zoneQueue[i])
                        <=> (\E i \in 1..(n - k) : x = zoneQueue[k + i])
        OBVIOUS
      <4>1. ASSUME NEW i \in (k + 1)..n, x = zoneQueue[i]
            PROVE  \E j \in 1..(n - k) : x = zoneQueue[k + j]
        <5>1. i - k \in 1..(n - k) /\ k + (i - k) = i
          BY <1>2
        <5> QED
          BY <5>1, <4>1
      <4>2. \A j \in 1..(n - k) : k + j \in (k + 1)..n
        BY <1>2
      <4> QED
        BY <4>1, <4>2
    <3> QED
      BY <3>1, <3>2, <1>7
  <2>5. \A i, j \in 1..(n - k) : i # j => zoneQueue'[i] # zoneQueue'[j]
    <3> SUFFICES ASSUME NEW i \in 1..(n - k), NEW j \in 1..(n - k), i # j
                 PROVE  zoneQueue'[i] # zoneQueue'[j]
      OBVIOUS
    <3>1. k + i \in 1..n /\ k + j \in 1..n /\ k + i # k + j
      BY <1>2
    <3>2. zoneQueue[k + i] # zoneQueue[k + j]
      BY <3>1 DEF QueueIsWaiters
    <3> QED
      BY <3>2, <1>7
  <2>6. \A i \in 1..(n - k) : zoneQueue'[i] \in Calls
    BY <1>2, <1>7
  <2> QED
    BY <2>4, <2>5, <2>6, <1>7 DEF QueueIsWaiters
<1>14. ZoneIsHeld'
  <2>1. depth' = 0 <=> zoneQueue = <<>>
    <3>1. Cardinality(Released) = 0 <=> Released = {}
      BY <1>5, FS_EmptySet
    <3>2. ASSUME zoneQueue = <<>> PROVE Released = {}
      <4>1. k = 0
        BY <3>2, <1>2, <1>3
      <4> QED
        BY <4>1, <1>4
    <3>3. ASSUME zoneQueue # <<>> PROVE zoneQueue[1] \in Released
      <4>1. 1 \in 1..k
        BY <3>3, <1>2
      <4> QED
        BY <4>1, <1>4
    <3> QED
      BY <3>1, <3>2, <3>3, <1>1
  <2>2. currentZone' = NoZone <=> depth' = 0
    BY <2>1, <1>1, <1>10, ZoneAssumption
  <2>3. ASSUME zoneQueue' # <<>>
        PROVE  currentZone' # NoZone /\ ZoneOf[zoneQueue'[1]] # currentZone'
    <3>1. n - k > 0
      BY <2>3, <1>7, EmptySeq, <1>2
    <3>2. zoneQueue # <<>> /\ k < n /\ zoneQueue'[1] = zoneQueue[k + 1]
      BY <3>1, <1>2, <1>3, <1>7
    <3> QED
      BY <3>2, <1>1, <1>2, <1>10, ZoneAssumption
  <2> QED
    BY <2>2, <2>3 DEF ZoneIsHeld
<1> QED
  BY <1>11, <1>12, <1>13, <1>14

\* leaveZone, of an inner call or of the last user.
LEMMA LeaveKeepsLock ==
    ASSUME LockInv, NEW c \in Active, NEW end \in {"resolved", "rejected"},
           Leave(c, end)
    PROVE  LockInv'
BY InnerLeaveKeepsLock, LastLeaveKeepsLock
-----------------------------------------------------------------------------
\* The writes in flight.

Awaiting == {"writing", "committing"}
Write == [by : Calls, changes : Rows]

\* Every write in flight is by a call.
LEMMA WritersAreCalls ==
    ASSUME writes \in Seq(Write)
    PROVE  \A i \in 1..Len(writes) : writes[i].by \in Calls
<1> SUFFICES ASSUME NEW i \in 1..Len(writes) PROVE writes[i].by \in Calls
  OBVIOUS
<1>1. writes[i] \in Write
  BY ElementOfSeq
<1> QED
  BY <1>1 DEF Write

\* A step that spares the calls that await a write keeps their writes.
LEMMA WritersKept ==
    ASSUME writes \in Seq(Write), WritersWait, UNCHANGED writes,
           \A x \in Calls : pc[x] \in Awaiting => pc'[x] = pc[x]
    PROVE  WritersWait'
<1>1. \A i \in 1..Len(writes) : writes[i].by \in Calls
  BY WritersAreCalls
<1> QED
  BY <1>1 DEF WritersWait, Awaiting

\* A call that starts to await a write is added behind the others.
LEMMA WriterAdded ==
    ASSUME writes \in Seq(Write), WritersWait,
           NEW c \in Calls, pc[c] \notin Awaiting, pc'[c] \in Awaiting,
           \A x \in Calls : x # c => pc'[x] = pc[x],
           NEW ch \in Rows, writes' = Append(writes, [by |-> c, changes |-> ch])
    PROVE  WritersWait' /\ writes' \in Seq(Write)
<1> DEFINE n == Len(writes)
<1>1. [by |-> c, changes |-> ch] \in Write
  BY DEF Write
<1>2. /\ n \in Nat /\ writes' \in Seq(Write) /\ Len(writes') = n + 1
      /\ \A i \in 1..n : writes'[i] = writes[i]
      /\ writes'[n + 1].by = c
  BY <1>1, AppendProperties, LenProperties
<1>3. \A i \in 1..n : writes[i].by \in Calls /\ writes[i].by # c
  BY WritersAreCalls DEF WritersWait, Awaiting
<1>4. \A i \in 1..(n + 1) : pc'[writes'[i].by] \in Awaiting
  BY <1>2, <1>3 DEF WritersWait, Awaiting
<1>5. \A i, j \in 1..(n + 1) : i # j => writes'[i].by # writes'[j].by
  BY <1>2, <1>3 DEF WritersWait
<1> QED
  BY <1>2, <1>4, <1>5 DEF WritersWait, Awaiting

\* The first write is answered: its call, and no other, goes on.
LEMMA WriterServed ==
    ASSUME writes \in Seq(Write), WritersWait, writes # <<>>,
           writes' = Tail(writes),
           \A x \in Calls : pc[x] \in Awaiting /\ x # Head(writes).by => pc'[x] = pc[x]
    PROVE  /\ WritersWait' /\ writes' \in Seq(Write)
           /\ Head(writes) \in Write
           /\ pc[Head(writes).by] \in Awaiting
<1> DEFINE n == Len(writes)
<1>1. /\ n \in Nat \ {0} /\ writes' \in Seq(Write) /\ Len(writes') = n - 1
      /\ \A i \in 1..(n - 1) : writes'[i] = writes[i + 1]
      /\ Head(writes) = writes[1] /\ Head(writes) \in Write
  BY HeadTailProperties, EmptySeq
<1>2. pc[Head(writes).by] \in Awaiting
  BY <1>1 DEF WritersWait, Awaiting
<1>3. \A i \in 1..n : writes[i].by \in Calls
  BY WritersAreCalls
<1>4. ASSUME NEW i \in 1..(n - 1)
      PROVE  /\ writes'[i] = writes[i + 1] /\ i + 1 \in 1..n
             /\ pc'[writes[i + 1].by] = pc[writes[i + 1].by]
             /\ pc[writes[i + 1].by] \in Awaiting
  <2>1. i + 1 \in 1..n /\ 1 \in 1..n /\ i + 1 # 1
    BY <1>1
  <2>2. writes[i + 1].by # Head(writes).by /\ pc[writes[i + 1].by] \in Awaiting
    BY <2>1, <1>1 DEF WritersWait, Awaiting
  <2> QED
    BY <2>1, <2>2, <1>1, <1>3
<1>5. \A i \in 1..(n - 1) : pc'[writes'[i].by] \in Awaiting
  BY <1>4
<1>6. ASSUME NEW i \in 1..(n - 1), NEW j \in 1..(n - 1), i # j
      PROVE  writes'[i].by # writes'[j].by
  <2>1. i + 1 # j + 1
    BY <1>6
  <2>2. writes[i + 1].by # writes[j + 1].by
    BY <2>1, <1>4 DEF WritersWait
  <2> QED
    BY <2>2, <1>4
<1> QED
  BY <1>1, <1>2, <1>5, <1>6 DEF WritersWait, Awaiting

\* leaveZone touches only the call that leaves and calls that were waiting.
LEMMA LeaveSparesWriters ==
    ASSUME LockInv, NEW c \in Active, NEW end \in {"resolved", "rejected"},
           Leave(c, end)
    PROVE  \A x \in Calls : pc[x] \in Awaiting /\ x # c => pc'[x] = pc[x]
<1>1. \A x \in Released : pc[x] = "waiting"
  <2>1. \A i \in ReleasedPrefix : i \in 1..Len(zoneQueue)
    BY DEF ReleasedPrefix
  <2> QED
    BY <2>1 DEF Released, LockInv, QueueIsWaiters
<1> QED
  BY <1>1 DEF Leave, Awaiting, LockInv, LockTypes
-----------------------------------------------------------------------------
\* The inductive step.

\* A write replaces rows by rows.
LEMMA OverlayType ==
    ASSUME NEW base \in Rows, NEW changes \in Rows
    PROVE  Overlay(base, changes) \in Rows
BY DEF Overlay, Rows

\* What becomes of the pending collections are rows again.
LEMMA RowsFacts ==
    /\ Empty \in Rows
    /\ \A ch \in Rows : \A s \in Stores : [ch EXCEPT ![KeyOf[s]] = s] \in Rows
    /\ pending \in Rows => Reverted \in Rows
BY ZoneAssumption DEF Empty, Rows, Value, Reverted

\* At the start nobody is in a zone.
LEMMA InitEstablishes == Init => IInv
<1> SUFFICES ASSUME Init PROVE IInv
  OBVIOUS
<1>1. Users = {} /\ Active = {}
  BY DEF Init, Users, Active, Leaked, Inside
<1>2. Cardinality({}) = 0
  BY FS_EmptySet
<1>3. LockTypes /\ DataTypes
  BY RowsFacts, EmptySeq DEF Init, LockTypes, DataTypes, PCs
<1>4. OneZoneAtATime
  BY <1>1, <1>2 DEF Init, OneZoneAtATime
<1>5. Len(<<>>) = 0
  BY EmptySeq
<1>6. QueueIsWaiters
  BY <1>5 DEF Init, QueueIsWaiters
<1>7. ZoneIsHeld
  BY DEF Init, ZoneIsHeld
<1>8. WritersWait
  BY <1>5 DEF Init, WritersWait
<1> QED
  BY <1>3, <1>4, <1>6, <1>7, <1>8 DEF IInv, LockInv

\* Every step keeps the lock, the types and the writers.
LEMMA NextKeeps == IInv /\ [Next]_vars => IInv'
<1> SUFFICES ASSUME IInv, [Next]_vars PROVE IInv'
  OBVIOUS
<1>a. LockInv /\ DataTypes /\ WritersWait /\ writes \in Seq(Write)
  BY DEF IInv, DataTypes, Write
<1>b. pc \in [Calls -> PCs] /\ pending \in Rows /\ cache \in Rows /\ db \in Rows
  BY <1>a DEF LockInv, LockTypes, DataTypes
<1>1. ASSUME NEW c \in Calls, Enter(c) PROVE IInv'
  <2>1. LockInv'
    BY <1>1, <1>a, EnterKeepsLock
  <2>2. WritersWait'
    BY <1>1, <1>a, <1>b, WritersKept DEF Enter, Awaiting
  <2>3. DataTypes'
    BY <1>1, <1>a DEF Enter, DataTypes
  <2> QED
    BY <2>1, <2>2, <2>3 DEF IInv
<1>2. ASSUME NEW c \in Calls, Wait(c) PROVE IInv'
  <2>1. LockInv'
    BY <1>2, <1>a, WaitKeepsLock
  <2>2. WritersWait'
    BY <1>2, <1>a, <1>b, WritersKept DEF Wait, Awaiting
  <2>3. DataTypes'
    BY <1>2, <1>a DEF Wait, DataTypes
  <2> QED
    BY <2>1, <2>2, <2>3 DEF IInv
<1>3. ASSUME NEW s \in Stores, Buffer(s) PROVE IInv'
  <2>1. s \in Active
    BY <1>3 DEF Buffer, Active, Inside, Calls
  <2>2. LockInv'
    BY <1>3, <1>a, <2>1, MoveKeepsLock DEF Buffer, Inside
  <2>3. WritersWait'
    BY <1>3, <1>a, <1>b, WritersKept DEF Buffer, Awaiting
  <2>4. DataTypes'
    BY <1>3, <1>a, <1>b, RowsFacts DEF Buffer, DataTypes
  <2> QED
    BY <2>2, <2>3, <2>4 DEF IInv
<1>4. ASSUME NEW s \in Stores, WriteThrough(s) PROVE IInv'
  <2>1. s \in Active
    BY <1>4 DEF WriteThrough, Active, Inside, Calls
  <2>2. LockInv'
    BY <1>4, <1>a, <2>1, MoveKeepsLock DEF WriteThrough, Inside
  <2>3. WritersWait' /\ writes' \in Seq(Write)
    <3>1. [pending EXCEPT ![KeyOf[s]] = s] \in Rows
      BY <1>b, RowsFacts
    <3> QED
      BY <1>4, <1>a, <1>b, <2>1, <3>1, WriterAdded
         DEF WriteThrough, Awaiting, Active
  <2>4. DataTypes'
    BY <1>4, <1>a, <2>3, RowsFacts DEF WriteThrough, DataTypes, Write
  <2> QED
    BY <2>2, <2>3, <2>4 DEF IInv
<1>5. ASSUME NEW s \in Stores, StoreThrows(s) PROVE IInv'
  <2>1. s \in Active
    BY <1>5 DEF StoreThrows, Active, Inside, Calls
  <2>2. LockInv'
    BY <1>5, <1>a, <2>1, MoveKeepsLock DEF StoreThrows, Inside
  <2>3. WritersWait'
    BY <1>5, <1>a, <1>b, WritersKept DEF StoreThrows, Awaiting
  <2>4. DataTypes'
    BY <1>5, <1>a DEF StoreThrows, DataTypes
  <2> QED
    BY <2>2, <2>3, <2>4 DEF IInv
<1>6. ASSUME NEW r \in Roots, RootEnds(r) PROVE IInv'
  <2>1. r \in Active
    BY <1>6 DEF RootEnds, Active, Inside, Calls
  <2>2. PICK end \in {"returned", "threw"} : pc' = [pc EXCEPT ![r] = end]
    BY <1>6 DEF RootEnds
  <2>3. LockInv'
    BY <1>6, <1>a, <2>1, <2>2, MoveKeepsLock DEF RootEnds, Inside
  <2>4. WritersWait'
    BY <1>6, <1>a, <1>b, <2>2, WritersKept DEF RootEnds, Awaiting
  <2>5. DataTypes'
    BY <1>6, <1>a DEF RootEnds, DataTypes
  <2> QED
    BY <2>3, <2>4, <2>5 DEF IInv
<1>7. ASSUME NEW c \in Calls, Commit(c) PROVE IInv'
  <2>1. c \in Active
    BY <1>7 DEF Commit, Active, Inside
  <2>2. LockInv'
    BY <1>7, <1>a, <2>1, MoveKeepsLock DEF Commit, Inside
  <2>3. WritersWait' /\ writes' \in Seq(Write)
    BY <1>7, <1>a, <1>b, <2>1, WriterAdded DEF Commit, Awaiting, Active
  <2>4. DataTypes'
    BY <1>7, <1>a, <2>3, RowsFacts DEF Commit, DataTypes, Write
  <2> QED
    BY <2>2, <2>3, <2>4 DEF IInv
<1>8. ASSUME NEW c \in Calls, Return(c) PROVE IInv'
  <2>1. c \in Active /\ pc[c] \notin Awaiting /\ Leave(c, "resolved")
    BY <1>8 DEF Return, Active, Inside, Awaiting
  <2>2. LockInv'
    BY <1>a, <2>1, LeaveKeepsLock
  <2>3. WritersWait'
    BY <1>8, <1>a, <2>1, LeaveSparesWriters, WritersKept DEF Return
  <2>4. DataTypes'
    BY <1>8, <1>a DEF Return, DataTypes
  <2> QED
    BY <2>2, <2>3, <2>4 DEF IInv
<1>9. ASSUME NEW c \in Calls, Throw(c) PROVE IInv'
  <2>1. c \in Active /\ pc[c] \notin Awaiting /\ Leave(c, "rejected")
    BY <1>9 DEF Throw, Active, Inside, Awaiting
  <2>2. LockInv'
    BY <1>a, <2>1, LeaveKeepsLock
  <2>3. WritersWait'
    BY <1>9, <1>a, <2>1, LeaveSparesWriters, WritersKept DEF Throw
  <2>4. DataTypes'
    BY <1>9, <1>a, <1>b, RowsFacts DEF Throw, DataTypes
  <2> QED
    BY <2>2, <2>3, <2>4 DEF IInv
<1>10. ASSUME WriteSucceeds PROVE IInv'
  <2> DEFINE c == Head(writes).by
  <2>1. Head(writes) \in Write
    BY <1>10, <1>a, HeadTailProperties DEF WriteSucceeds
  <2>2. c \in Calls /\ Head(writes).changes \in Rows
    BY <2>1 DEF Write
  <2>3. pc[c] \in Awaiting
    <3>1. 1 \in 1..Len(writes) /\ Head(writes) = writes[1]
      BY <1>10, <1>a, EmptySeq DEF WriteSucceeds
    <3> QED
      BY <3>1, <1>a DEF WritersWait, Awaiting
  <2>4. c \in Active
    BY <2>2, <2>3 DEF Active, Inside, Awaiting
  <2>5. /\ LockInv'
        /\ \A x \in Calls : pc[x] \in Awaiting /\ x # c => pc'[x] = pc[x]
    <3>1. CASE pc[c] = "committing"
      BY <1>10, <1>a, <2>4, <3>1, LeaveKeepsLock, LeaveSparesWriters
      DEF WriteSucceeds
    <3>2. CASE pc[c] # "committing"
      <4>1. pc' = [pc EXCEPT ![c] = "returned"] /\ UNCHANGED lock
        BY <1>10, <3>2 DEF WriteSucceeds
      <4>2. LockInv'
        BY <4>1, <1>a, <2>4, MoveKeepsLock DEF Inside
      <4> QED
        BY <4>1, <4>2, <1>b
    <3> QED
      BY <3>1, <3>2
  <2>6. WritersWait' /\ writes' \in Seq(Write)
    BY <1>10, <1>a, <2>5, WriterServed DEF WriteSucceeds
  <2>7. DataTypes'
    BY <1>10, <1>b, <2>2, <2>6, OverlayType DEF WriteSucceeds, DataTypes, Write
  <2> QED
    BY <2>5, <2>6, <2>7 DEF IInv
<1>11. ASSUME WriteFails PROVE IInv'
  <2> DEFINE c == Head(writes).by
  <2>1. Head(writes) \in Write
    BY <1>11, <1>a, HeadTailProperties DEF WriteFails
  <2>2. c \in Calls
    BY <2>1 DEF Write
  <2>3. pc[c] \in Awaiting
    <3>1. 1 \in 1..Len(writes) /\ Head(writes) = writes[1]
      BY <1>11, <1>a, EmptySeq DEF WriteFails
    <3> QED
      BY <3>1, <1>a DEF WritersWait, Awaiting
  <2>4. c \in Active
    BY <2>2, <2>3 DEF Active, Inside, Awaiting
  <2>5. PICK p \in Inside \cup {"leaked"} : pc' = [pc EXCEPT ![c] = p]
    BY <1>11 DEF WriteFails, Inside
  <2>6. LockInv'
    BY <1>11, <1>a, <2>4, <2>5, MoveKeepsLock DEF WriteFails
  <2>7. WritersWait' /\ writes' \in Seq(Write)
    <3>1. \A x \in Calls : pc[x] \in Awaiting /\ x # c => pc'[x] = pc[x]
      BY <2>5, <1>b
    <3> QED
      BY <1>11, <1>a, <3>1, WriterServed DEF WriteFails
  <2>8. DataTypes'
    BY <1>11, <1>a, <2>7 DEF WriteFails, DataTypes, Write
  <2> QED
    BY <2>6, <2>7, <2>8 DEF IInv
<1>12. ASSUME UNCHANGED vars PROVE IInv'
  BY <1>12, <1>a DEF vars, IInv, LockInv, LockTypes, DataTypes, WritersWait,
     OneZoneAtATime, QueueIsWaiters, ZoneIsHeld, Users, Active, Leaked
<1> QED
  BY <1>1, <1>2, <1>3, <1>4, <1>5, <1>6, <1>7, <1>8, <1>9, <1>10, <1>11, <1>12
  DEF Next, StoreBody, Ending

-----------------------------------------------------------------------------
\* The data: whose changes are pending, in flight and in the database.

\* The stores of a receive batch.
Batched(s) == ParentOf[s] # NoCall /\ ZoneOf[s] \in Buffering

\* The zone is that of everybody the depth counts.
UsersShareZone == \A c \in Users : ZoneOf[c] = currentZone

\* A nested call runs while the body of its parent does, and commits nothing.
Nested ==
    \A s \in Stores : ParentOf[s] # NoCall =>
        /\ pc[s] \notin {"waiting", "committing", "leaked"}
        /\ pc[s] \in Inside => pc[ParentOf[s]] = "body"
        /\ pc[s] # "idle" => pc[ParentOf[s]] \notin {"idle", "waiting"}

WritesThrough ==
    \A c \in Calls : pc[c] = "writing" => c \in Stores /\ ZoneOf[c] \notin Buffering

\* A call that has not decided yet what becomes of its changes.
Undecided == {"body", "returned", "threw"}

\* What is pending, but for kyber triples, belongs to a batch that is open.
PendingIsOpen ==
    \A k \in Keys \ Triples : pending[k] # NoCall =>
        /\ Batched(pending[k]) /\ KeyOf[pending[k]] = k
        /\ pc[ParentOf[pending[k]]] \in Undecided
        /\ pc[pending[k]] \in {"returned", "resolved"}

\* What a batch has stored is written by its own commit only,
WritesAreCommits ==
    \A i \in 1..Len(writes) : \A k \in Keys \ Triples :
        writes[i].changes[k] # NoCall /\ Batched(writes[i].changes[k]) =>
            /\ writes[i].by = ParentOf[writes[i].changes[k]]
            /\ pc[writes[i].by] = "committing"

\* and is in the database once that has succeeded.
DbIsResolved ==
    \A k \in Keys \ Triples :
        db[k] # NoCall /\ Batched(db[k]) => pc[ParentOf[db[k]]] = "resolved"

\* The change s, or one of a sibling that has overwritten it.
Holds(changes, s) ==
    changes[KeyOf[s]] # NoCall /\ ParentOf[changes[KeyOf[s]]] = ParentOf[s]

\* Conversely, what a batch has stored is pending until its commit writes it.
StoredIsPending ==
    \A s \in Stores :
        Batched(s) /\ pc[s] \in {"returned", "resolved"} =>
            /\ pc[ParentOf[s]] \in Undecided => Holds(pending, s)
            /\ pc[ParentOf[s]] = "committing" =>
                  \E i \in 1..Len(writes) :
                      writes[i].by = ParentOf[s] /\ Holds(writes[i].changes, s)

CallsInv == IInv /\ UsersShareZone /\ Nested /\ WritesThrough

DataInv ==
    /\ CallsInv /\ cache = db
    /\ PendingIsOpen /\ WritesAreCommits /\ DbIsResolved /\ StoredIsPending

\* A step moves call c to p, and lets in others that waited.
Moved(c, p) ==
    /\ pc'[c] = p
    /\ \A x \in Calls \ {c} :
          pc'[x] = pc[x] \/ (pc[x] = "waiting" /\ pc'[x] = "body")

\* How a call moves.
Moves(c, p) ==
    \/ pc[c] = "idle" /\ MayCall(c) /\ p = "body"
    \/ pc[c] = "idle" /\ MayCall(c) /\ p = "waiting" /\ currentZone # ZoneOf[c]
    \/ pc[c] = "body" /\ c \in Stores /\ ZoneOf[c] \in Buffering /\ p = "returned"
    \/ pc[c] = "body" /\ c \in Stores /\ ZoneOf[c] \notin Buffering /\ p = "writing"
    \/ pc[c] = "body" /\ c \in Stores /\ p = "threw"
    \/ pc[c] = "body" /\ c \in Roots /\ ChildrenSettled(c)
          /\ p \in {"returned", "threw"}
    \/ pc[c] = "returned" /\ depth = 1 /\ p = "committing"
    \/ pc[c] = "returned" /\ p = "resolved"
    \/ pc[c] = "threw" /\ p = "rejected"
    \/ pc[c] = "committing" /\ p = "resolved"
    \/ pc[c] = "committing" /\ p = "leaked" /\ UNCHANGED lock
    \/ pc[c] = "writing" /\ p \in {"returned", "threw"}

data == <<pending, cache, db, writes>>

\* What becomes of the data when it does.
Changes(c, p) ==
    \/ /\ UNCHANGED data /\ p # "committing" /\ pc[c] \notin Awaiting
       /\ pc[c] = "body" /\ c \in Stores => p = "threw"
       /\ p = "resolved" => depth > 1 \/ pending = Empty
       /\ p = "rejected" => depth # 1
    \/ c \in Stores /\ (Buffer(c) \/ WriteThrough(c))
    \/ Commit(c)
    \/ Throw(c) /\ depth = 1
    \/ (WriteSucceeds \/ WriteFails) /\ c = Head(writes).by

\* An assignment to one call moves that call.
LEMMA SetMoves ==
    ASSUME IInv, NEW c \in Calls, NEW p, pc' = [pc EXCEPT ![c] = p]
    PROVE  Moved(c, p)
<1>1. pc \in [Calls -> PCs]
  BY DEF IInv, LockInv, LockTypes
<1>2. pc'[c] = p
  BY <1>1
<1>3. \A x \in Calls \ {c} : pc'[x] = pc[x]
  BY <1>1
<1> QED
  BY <1>2, <1>3 DEF Moved

\* leaveZone moves a call, and those that it lets in.
LEMMA LeaveMoves ==
    ASSUME LockInv, NEW c \in Active, NEW end \in {"resolved", "rejected"},
           Leave(c, end)
    PROVE  Moved(c, end)
<1>1. Released \subseteq {x \in Calls : pc[x] = "waiting"}
  <2>1. \A i \in ReleasedPrefix : i \in 1..Len(zoneQueue)
    BY DEF ReleasedPrefix
  <2> QED
    BY <2>1 DEF Released, LockInv, QueueIsWaiters
<1>2. pc \in [Calls -> PCs] /\ c \in Calls /\ pc[c] # "waiting"
  BY DEF LockInv, LockTypes, Active, Inside
<1>3. pc'[c] = end
  BY <1>2 DEF Leave
<1>4. ASSUME NEW x \in Calls \ {c}
      PROVE  pc'[x] = pc[x] \/ (pc[x] = "waiting" /\ pc'[x] = "body")
  <2>1. CASE depth > 1
    BY <1>2, <2>1 DEF Leave
  <2>2. CASE ~(depth > 1)
    BY <1>1, <2>2 DEF Leave
  <2> QED
    BY <2>1, <2>2
<1> QED
  BY <1>3, <1>4 DEF Moved

\* The only user that the depth counts.
LEMMA OneUser ==
    ASSUME LockInv, NEW c \in Users, depth = 1 PROVE Users = {c}
<1>1. Cardinality({c}) = 1 /\ IsFiniteSet({c})
  BY FS_Singleton
<1>2. Cardinality(Users) = Cardinality({c})
  BY <1>1 DEF LockInv, OneZoneAtATime
<1> QED
  BY <1>2, UsersFacts, FS_Subset

\* The writer of the first write awaits it.
LEMMA FirstWriter ==
    ASSUME IInv, writes # <<>>
    PROVE  /\ Head(writes) \in Write /\ Head(writes).by \in Active
           /\ Head(writes).changes \in Rows
           /\ pc[Head(writes).by] \in Awaiting
           /\ 1 \in 1..Len(writes) /\ Head(writes) = writes[1]
<1>1. writes \in Seq(Write) /\ WritersWait
  BY DEF IInv, DataTypes, Write
<1>2. /\ Head(writes) \in Write
      /\ 1 \in 1..Len(writes) /\ Head(writes) = writes[1]
  BY <1>1, HeadTailProperties, EmptySeq
<1>3. pc[Head(writes).by] \in Awaiting
  BY <1>1, <1>2 DEF WritersWait, Awaiting
<1> QED
  BY <1>2, <1>3 DEF Write, Active, Awaiting, Inside

\* Every step that is not a stutter moves a call.
LEMMA StepMoves ==
    ASSUME IInv, [Next]_vars
    PROVE  \/ UNCHANGED vars
           \/ \E c \in Calls, p \in PCs : Moved(c, p) /\ Moves(c, p) /\ Changes(c, p)
<1>0. LockInv
  BY DEF IInv
<1> DEFINE Goal == \E c \in Calls, p \in PCs :
                      Moved(c, p) /\ Moves(c, p) /\ Changes(c, p)
<1>1. ASSUME NEW c \in Calls, NEW p \in PCs, Moves(c, p), Changes(c, p),
             pc' = [pc EXCEPT ![c] = p]
      PROVE  Goal
  BY <1>1, SetMoves
<1> HIDE DEF Goal
<1>2. ASSUME NEW c \in Calls, Enter(c) PROVE Goal
  <2>1. Moves(c, "body") /\ Changes(c, "body") /\ "body" \in PCs
    BY <1>2 DEF Enter, Moves, Changes, data, Awaiting, PCs, Inside
  <2> QED
    BY <1>1, <1>2, <2>1 DEF Enter
<1>3. ASSUME NEW c \in Calls, Wait(c) PROVE Goal
  <2>1. Moves(c, "waiting") /\ Changes(c, "waiting") /\ "waiting" \in PCs
    BY <1>3 DEF Wait, Moves, Changes, data, Awaiting, PCs
  <2> QED
    BY <1>1, <1>3, <2>1 DEF Wait
<1>4. ASSUME NEW c \in Calls, Commit(c) PROVE Goal
  <2>1. Moves(c, "committing") /\ "committing" \in PCs
    BY <1>4 DEF Commit, Moves, PCs, Inside
  <2>2. Changes(c, "committing")
    BY <1>4 DEF Changes
  <2> QED
    BY <1>1, <1>4, <2>1, <2>2 DEF Commit
<1>5. ASSUME NEW c \in Calls, Return(c) \/ Throw(c) PROVE Goal
  <2>1. PICK end \in {"resolved", "rejected"} :
          /\ Leave(c, end) /\ pc[c] = IF end = "resolved" THEN "returned" ELSE "threw"
          /\ \/ Return(c) /\ end = "resolved"
             \/ Throw(c) /\ end = "rejected"
    BY <1>5 DEF Return, Throw
  <2>2. c \in Active
    BY <2>1 DEF Active, Inside
  <2>3. Moved(c, end)
    BY <1>0, <2>1, <2>2, LeaveMoves
  <2>4. Changes(c, end)
    <3>1. CASE Return(c) /\ end = "resolved"
      BY <3>1 DEF Return, Changes, data, Awaiting
    <3>2. CASE Throw(c) /\ end = "rejected"
      BY <3>2 DEF Throw, Changes, data, Awaiting
    <3> QED
      BY <2>1, <3>1, <3>2
  <2>5. Moves(c, end) /\ end \in PCs
    BY <2>1 DEF Moves, PCs, Final
  <2> QED
    BY <2>3, <2>4, <2>5 DEF Goal
<1>6. ASSUME NEW c \in Stores, StoreBody(c) PROVE Goal
  <2>1. PICK p \in {"returned", "writing", "threw"} :
          Moves(c, p) /\ pc' = [pc EXCEPT ![c] = p] /\ Changes(c, p)
    <3>1. CASE Buffer(c)
      BY <3>1 DEF Buffer, Moves, Changes
    <3>2. CASE WriteThrough(c)
      BY <3>2 DEF WriteThrough, Moves, Changes
    <3>3. CASE StoreThrows(c)
      BY <3>3 DEF StoreThrows, Moves, Changes, data, Awaiting
    <3> QED
      BY <1>6, <3>1, <3>2, <3>3 DEF StoreBody
  <2>2. p \in PCs /\ c \in Calls
    BY DEF PCs, Inside, Calls
  <2> QED
    BY <1>1, <2>1, <2>2
<1>7. ASSUME NEW c \in Roots, RootEnds(c) PROVE Goal
  <2>1. PICK p \in {"returned", "threw"} : pc' = [pc EXCEPT ![c] = p]
    BY <1>7 DEF RootEnds
  <2>2. Moves(c, p) /\ p \in PCs /\ c \in Calls
    BY <1>7 DEF RootEnds, Moves, PCs, Inside, Calls
  <2>3. Changes(c, p)
    BY <1>7, ZoneAssumption DEF RootEnds, Changes, data, Awaiting
  <2> QED
    BY <1>1, <2>1, <2>2, <2>3
<1>8. ASSUME WriteSucceeds PROVE Goal
  <2> DEFINE c == Head(writes).by
  <2>1. c \in Active /\ c \in Calls /\ pc[c] \in Awaiting
    BY <1>8, FirstWriter DEF WriteSucceeds, Active
  <2>2. \A p : Changes(c, p)
    BY <1>8 DEF Changes
  <2>3. CASE pc[c] = "committing"
    <3>1. Moved(c, "resolved")
      BY <1>0, <1>8, <2>1, <2>3, LeaveMoves DEF WriteSucceeds
    <3>2. Moves(c, "resolved") /\ "resolved" \in PCs
      BY <2>3 DEF Moves, PCs, Final
    <3> QED
      BY <2>1, <2>2, <3>1, <3>2 DEF Goal
  <2>4. CASE pc[c] = "writing"
    <3>1. pc' = [pc EXCEPT ![c] = "returned"]
      BY <1>8, <2>4 DEF WriteSucceeds
    <3>2. Moves(c, "returned") /\ "returned" \in PCs
      BY <2>4 DEF Moves, PCs, Inside
    <3> QED
      BY <1>1, <2>1, <2>2, <3>1, <3>2
  <2> QED
    BY <2>1, <2>3, <2>4 DEF Awaiting
<1>9. ASSUME WriteFails PROVE Goal
  <2> DEFINE c == Head(writes).by
  <2>1. c \in Calls /\ pc[c] \in Awaiting
    BY <1>9, FirstWriter DEF WriteFails, Active
  <2>2. PICK p \in {"leaked", "threw"} :
          /\ pc' = [pc EXCEPT ![c] = p]
          /\ p = "leaked" <=> pc[c] = "committing"
    BY <1>9 DEF WriteFails
  <2>3. Moves(c, p) /\ p \in PCs
    BY <1>9, <2>1, <2>2 DEF WriteFails, Moves, PCs, Inside, Final, Awaiting
  <2>4. Changes(c, p)
    BY <1>9 DEF Changes
  <2> QED
    BY <1>1, <2>1, <2>2, <2>3, <2>4
<1> QED
  BY <1>2, <1>3, <1>4, <1>5, <1>6, <1>7, <1>8, <1>9 DEF Next, Ending, Goal

\* A batch that is past its body is alone in its zone.
LEMMA BatchAlone ==
    ASSUME CallsInv, NEW r \in Roots, ZoneOf[r] \in Buffering,
           pc[r] \in Inside \ {"body"}
    PROVE  depth = 1 /\ Users = {r}
<1>0. LockInv
  BY DEF CallsInv, IInv
<1>1. r \in Users /\ ZoneOf[r] = currentZone
  BY DEF Calls, Users, Active, CallsInv, UsersShareZone
<1>2. ASSUME NEW c \in Users PROVE c = r
  <2>1. c \in Calls /\ pc[c] \in Inside \cup {"leaked"} /\ ZoneOf[c] = ZoneOf[r]
    BY <1>0, <1>1, UsersFacts DEF CallsInv, UsersShareZone
  <2>2. CASE c \in Roots
    BY <2>1, <2>2, BatchAssumption
  <2>3. CASE c \in Stores
    <3>1. ParentOf[c] # NoCall /\ ParentOf[c] \in Roots
      BY <2>1, <2>3, BatchAssumption, ZoneAssumption
    <3>2. ZoneOf[ParentOf[c]] = ZoneOf[r]
      BY <2>1, <2>3, <3>1, NestingAssumption
    <3>3. ParentOf[c] = r
      BY <3>1, <3>2, BatchAssumption
    <3> QED
      BY <2>1, <2>3, <3>1, <3>3 DEF CallsInv, Nested
  <2> QED
    BY <2>1, <2>2, <2>3 DEF Calls
<1>3. Users = {r}
  BY <1>1, <1>2
<1> QED
  BY <1>0, <1>3, FS_Singleton DEF LockInv, OneZoneAtATime

\* The zone stays while a call that is leaked is in it.
LEMMA LeakedKeepsZone ==
    ASSUME IInv, [Next]_vars, NEW x \in Leaked, ZoneOf[x] = currentZone
    PROVE  currentZone' = currentZone
<1>0. LockInv /\ x \in Users /\ x \in Calls /\ currentZone # NoZone
  BY ZoneAssumption DEF IInv, Users, Leaked
<1>1. ASSUME NEW c \in Active, NEW end, Leave(c, end)
      PROVE  currentZone' = currentZone
  <2>1. c # x /\ c \in Users
    BY DEF Active, Leaked, Users, Inside
  <2>2. depth # 1
    BY <1>0, <2>1, OneUser
  <2>3. depth > 1
    <3>1. depth # 0
      BY <1>0, UsersFacts, FS_EmptySet DEF LockInv, OneZoneAtATime
    <3> QED
      BY <1>0, <2>2, <3>1 DEF LockInv, LockTypes
  <2> QED
    BY <1>1, <2>3 DEF Leave
<1>2. ASSUME NEW c \in Calls, Return(c) \/ Throw(c)
      PROVE  currentZone' = currentZone
  BY <1>1, <1>2 DEF Return, Throw, Active, Inside
<1>3. ASSUME WriteSucceeds PROVE currentZone' = currentZone
  BY <1>1, <1>3, FirstWriter DEF WriteSucceeds, lock
<1>4. ASSUME NEW c \in Calls, Enter(c) PROVE currentZone' = currentZone
  BY <1>0, <1>4 DEF Enter
<1> QED
  BY <1>2, <1>3, <1>4 DEF Next, Ending, StoreBody, Wait, Commit, Buffer,
     WriteThrough, StoreThrows, RootEnds, WriteFails, lock, vars

\* Every step keeps the nesting of calls and their zone.
LEMMA CallsStep == CallsInv /\ [Next]_vars => CallsInv'
<1> SUFFICES ASSUME CallsInv, [Next]_vars PROVE CallsInv'
  OBVIOUS
<1>0. IInv /\ LockInv /\ UsersShareZone /\ Nested /\ WritesThrough
  BY DEF CallsInv, IInv
<1>1. IInv' /\ LockInv'
  BY <1>0, NextKeeps DEF IInv
<1>2. CASE pc' = pc
  <2>1. Users' = Users /\ Active' = Active
    BY <1>2 DEF Users, Active, Leaked
  <2>2. UsersShareZone'
    <3>1. ASSUME NEW x \in Users' PROVE ZoneOf[x] = currentZone'
      <4>1. CASE x \in Active
        BY <1>1, <2>1, <4>1 DEF LockInv, OneZoneAtATime
      <4>2. CASE x \in Leaked
        BY <1>0, <4>2, LeakedKeepsZone DEF UsersShareZone, Users
      <4> QED
        BY <2>1, <3>1, <4>1, <4>2 DEF Users
    <3> QED
      BY <3>1 DEF UsersShareZone
  <2> QED
    BY <1>0, <1>1, <1>2, <2>2 DEF CallsInv, Nested, WritesThrough
<1>3. ASSUME NEW c \in Calls, NEW p \in PCs, Moved(c, p), Moves(c, p)
      PROVE  CallsInv'
  <2>0. /\ pc'[c] = p
        /\ \A x \in Calls \ {c} :
              pc'[x] = pc[x] \/ (pc[x] = "waiting" /\ pc'[x] = "body")
    BY <1>3 DEF Moved
  <2>1. UsersShareZone'
    <3>1. ASSUME NEW x \in Users' PROVE ZoneOf[x] = currentZone'
      <4>1. CASE x \in Active'
        BY <1>1, <4>1 DEF LockInv, OneZoneAtATime
      <4>2. CASE x \in Leaked
        BY <1>0, <4>2, LeakedKeepsZone DEF UsersShareZone, Users
      <4>3. CASE x \in Leaked' /\ x \notin Leaked
        <5>1. x = c /\ p = "leaked" /\ pc[c] = "committing"
          BY <1>3, <2>0, <4>3 DEF Leaked, Moves
        <5>2. ZoneOf[c] = currentZone
          BY <1>0, <5>1 DEF UsersShareZone, Users, Active, Inside
        <5> QED
          BY <1>3, <5>1, <5>2 DEF Moves, lock
      <4> QED
        BY <3>1, <4>1, <4>2, <4>3 DEF Users
    <3> QED
      BY <3>1 DEF UsersShareZone
  <2>2. Nested'
    <3> SUFFICES ASSUME NEW s \in Stores, ParentOf[s] # NoCall
                 PROVE  /\ pc'[s] \notin {"waiting", "committing", "leaked"}
                        /\ pc'[s] \in Inside => pc'[ParentOf[s]] = "body"
                        /\ pc'[s] # "idle" => pc'[ParentOf[s]] \notin {"idle", "waiting"}
      BY DEF Nested
    <3> DEFINE r == ParentOf[s]
    <3>1. /\ r \in Roots /\ r \in Calls /\ s \in Calls /\ r # s
          /\ r \notin Stores /\ ZoneOf[s] = ZoneOf[r]
      BY ZoneAssumption, NestingAssumption DEF Calls
    <3>2. /\ pc[s] \notin {"waiting", "committing", "leaked"}
          /\ pc[s] \in Inside => pc[r] = "body"
          /\ pc[s] # "idle" => pc[r] \notin {"idle", "waiting"}
      BY <1>0 DEF Nested
    <3>3. pc[r] = "body" => r \in Users /\ ZoneOf[r] = currentZone
      BY <1>0, <3>1 DEF UsersShareZone, Users, Active, Inside
    <3>. HIDE DEF r
    <3>4. CASE c = s
      <4>1. pc'[r] = pc[r] \/ (pc[r] = "waiting" /\ pc'[r] = "body")
        BY <2>0, <3>1, <3>4
      <4>2. p # "waiting"
        BY <1>3, <3>1, <3>3, <3>4 DEF Moves, MayCall, r
      <4>3. p # "committing"
        <5>1. SUFFICES ASSUME p = "committing" PROVE FALSE
          OBVIOUS
        <5>2. pc[s] = "returned" /\ depth = 1
          BY <1>3, <3>4, <5>1 DEF Moves
        <5>3. s \in Users /\ r \in Users
          BY <3>1, <3>2, <3>3, <5>2 DEF Users, Active, Inside
        <5> QED
          BY <1>0, <3>1, <5>2, <5>3, OneUser
      <4>4. p # "leaked"
        BY <1>3, <3>2, <3>4 DEF Moves
      <4>5. p \in Inside => pc[r] = "body"
        BY <1>3, <3>1, <3>2, <3>4 DEF Moves, MayCall, Inside, r
      <4>6. p # "idle" => pc[r] \notin {"idle", "waiting"}
        BY <1>3, <3>1, <3>2, <3>4 DEF Moves, MayCall, r
      <4> QED
        BY <2>0, <3>4, <4>1, <4>2, <4>3, <4>4, <4>5, <4>6 DEF r
    <3>5. CASE c # s
      <4>1. pc'[s] = pc[s]
        BY <2>0, <3>1, <3>2, <3>5
      <4>2. CASE c = r
        <5>1. pc[s] \in Inside => pc'[r] = "body"
          <6>1. SUFFICES ASSUME pc[s] \in Inside PROVE FALSE
            OBVIOUS
          <6>2. pc[r] = "body" /\ ChildrenSettled(r)
            BY <1>3, <3>1, <3>2, <4>2, <6>1 DEF Moves
          <6> QED
            BY <6>1, <6>2 DEF ChildrenSettled, Inside, Final, r
        <5>2. pc[s] # "idle" => pc'[r] \notin {"idle", "waiting"}
          BY <1>3, <2>0, <3>2, <4>2 DEF Moves
        <5> QED
          BY <3>2, <4>1, <5>1, <5>2 DEF r
      <4>3. CASE c # r
        <5>1. pc'[r] = pc[r] \/ (pc[r] = "waiting" /\ pc'[r] = "body")
          BY <2>0, <3>1, <4>3
        <5> QED
          BY <3>2, <4>1, <5>1 DEF r
      <4> QED
        BY <4>2, <4>3
    <3> QED
      BY <3>4, <3>5
  <2>3. WritesThrough'
    BY <1>0, <1>3, <2>0 DEF Moves, WritesThrough
  <2> QED
    BY <1>1, <2>1, <2>2, <2>3 DEF CallsInv
<1> QED
  BY <1>0, <1>2, <1>3, StepMoves DEF vars
-----------------------------------------------------------------------------
\* How a step that moves c to p bears on a store and its batch.
LEMMA BatchSteps ==
    ASSUME CallsInv, CallsInv', NEW c \in Calls, NEW p \in PCs,
           Moved(c, p), Moves(c, p), NEW s \in Stores, Batched(s)
    PROVE  LET r == ParentOf[s]
               Stored == {"returned", "resolved"} IN
           /\ pc[s] \in Stored => pc'[s] \in Stored
           /\ pc'[s] \in Stored /\ ~(c = s /\ pc[s] = "body") => pc[s] \in Stored
           /\ pc'[s] \in Stored /\ pc'[r] \in Undecided => pc[r] \in Undecided
           /\ pc[r] \in Undecided =>
                 pc'[r] \in Undecided
                   \/ (c = r /\ p \in {"committing", "resolved", "rejected"})
           /\ pc'[r] = "committing" =>
                 pc[r] = "committing"
                   \/ (c = r /\ p = "committing" /\ pc[r] = "returned")
           /\ pc[r] = "committing" => pc'[r] = "committing" \/ c = r
           /\ pc[r] = "resolved" => pc'[r] = "resolved"
<1> DEFINE r == ParentOf[s]
           Stored == {"returned", "resolved"}
<1>1. /\ r \in Roots /\ r \in Calls /\ s \in Calls /\ r # s /\ r \notin Stores
      /\ s \notin Roots /\ ZoneOf[s] \in Buffering
  BY ZoneAssumption DEF Calls, Batched
<1>2. /\ pc[s] \notin {"waiting", "committing", "leaked"}
      /\ pc[s] # "idle" => pc[r] \notin {"idle", "waiting"}
      /\ pc'[s] \notin {"waiting", "committing", "leaked"}
  BY <1>1 DEF CallsInv, Nested, Batched
<1>3. /\ pc[s] # "writing"
      /\ pc[r] # "writing"
  BY <1>1 DEF CallsInv, WritesThrough
<1>4. /\ pc'[c] = p
      /\ \A x \in Calls \ {c} :
            pc'[x] = pc[x] \/ (pc[x] = "waiting" /\ pc'[x] = "body")
  BY DEF Moved
<1> HIDE DEF r
<1>5. pc[s] \in Stored => pc'[s] \in Stored
  BY <1>1, <1>2, <1>4 DEF Moves
<1>6. pc'[s] \in Stored /\ ~(c = s /\ pc[s] = "body") => pc[s] \in Stored
  BY <1>1, <1>2, <1>3, <1>4 DEF Moves
<1>7. pc'[s] \in Stored => pc[s] # "idle"
  BY <1>1, <1>4 DEF Moves
<1>8. pc'[s] \in Stored /\ pc'[r] \in Undecided => pc[r] \in Undecided
  BY <1>1, <1>2, <1>3, <1>4, <1>7 DEF Moves, Undecided
<1>9. pc[r] \in Undecided => pc'[r] \in Undecided
                   \/ (c = r /\ p \in {"committing", "resolved", "rejected"})
  BY <1>1, <1>4 DEF Moves, Undecided
<1>10. pc'[r] = "committing" =>
          pc[r] = "committing" \/ (c = r /\ p = "committing" /\ pc[r] = "returned")
  BY <1>1, <1>4 DEF Moves
<1>11. /\ pc[r] = "committing" => pc'[r] = "committing" \/ c = r
       /\ pc[r] = "resolved" => pc'[r] = "resolved"
  BY <1>1, <1>4 DEF Moves
<1> QED
  BY <1>5, <1>6, <1>8, <1>9, <1>10, <1>11 DEF r

\* In a step that changes no data, a batch that holds changes stays open.
LEMMA SameKeepsOpen ==
    ASSUME CallsInv, NEW r \in Roots, ZoneOf[r] \in Buffering,
           NEW p \in PCs, Moves(r, p), NEW k \in Keys, pending[k] # NoCall,
           p = "resolved" => depth > 1 \/ pending = Empty,
           p = "rejected" => depth # 1
    PROVE  p \notin {"resolved", "rejected"} \/ pc[r] = "committing"
<1>1. pending # Empty
  BY DEF Empty
<1>2. SUFFICES ASSUME p \in {"resolved", "rejected"}, pc[r] # "committing"
               PROVE  FALSE
  OBVIOUS
<1>3. pc[r] \in Inside \ {"body"}
  BY <1>2 DEF Moves, Inside
<1>4. depth = 1
  BY <1>3, BatchAlone
<1> QED
  BY <1>1, <1>2, <1>4

\* The changes pending in any other zone, or of any other call, are none.
LEMMA OpenIsHere ==
    ASSUME CallsInv, PendingIsOpen, NEW k \in Keys \ Triples, pending[k] # NoCall
    PROVE  /\ pending[k] \in Stores /\ Batched(pending[k])
           /\ KeyOf[pending[k]] = k
           /\ ParentOf[pending[k]] \in Roots /\ ParentOf[pending[k]] \in Users
           /\ ZoneOf[pending[k]] = currentZone
           /\ ZoneOf[ParentOf[pending[k]]] = currentZone
           /\ currentZone \in Buffering
           /\ pc[ParentOf[pending[k]]] \in Undecided
           /\ pc[pending[k]] \in {"returned", "resolved"}
<1> DEFINE v == pending[k]
           r == ParentOf[v]
<1>1. v \in Stores
  BY DEF CallsInv, IInv, DataTypes, Rows, Value
<1>2. /\ Batched(v) /\ KeyOf[v] = k
      /\ pc[r] \in Undecided /\ pc[v] \in {"returned", "resolved"}
  BY DEF PendingIsOpen
<1>3. r \in Roots /\ r \in Calls /\ ZoneOf[v] = ZoneOf[r] /\ ZoneOf[v] \in Buffering
  BY <1>1, <1>2, ZoneAssumption, NestingAssumption DEF Batched, Calls
<1>4. r \in Users
  BY <1>2, <1>3 DEF Undecided, Users, Active, Inside
<1>5. ZoneOf[r] = currentZone
  BY <1>4 DEF CallsInv, UsersShareZone
<1> QED
  BY <1>1, <1>2, <1>3, <1>4, <1>5

\* What is pending belongs to an open batch after every step.
LEMMA PendingStep ==
    ASSUME CallsInv, CallsInv', PendingIsOpen, NEW c \in Calls, NEW p \in PCs,
           Moved(c, p), Moves(c, p), Changes(c, p)
    PROVE  PendingIsOpen'
<1> DEFINE Fine(v, k) ==
             /\ Batched(v) /\ KeyOf[v] = k
             /\ pc'[ParentOf[v]] \in Undecided
             /\ pc'[v] \in {"returned", "resolved"}
<1> SUFFICES ASSUME NEW k \in Keys \ Triples, pending'[k] # NoCall
             PROVE  Fine(pending'[k], k)
  BY DEF PendingIsOpen
<1>1. ASSUME pending[k] # NoCall,
             c = ParentOf[pending[k]] =>
                p \notin {"committing", "resolved", "rejected"}
      PROVE  Fine(pending[k], k)
  BY <1>1, OpenIsHere, BatchSteps
<1>2. pending \in Rows /\ ParentOf \in [Stores -> Roots \cup {NoCall}] /\ Roots \subseteq Calls
  BY ZoneAssumption DEF CallsInv, IInv, DataTypes, Calls
<1> HIDE DEF Fine
<1>3. CASE UNCHANGED data /\ p # "committing" /\ pc[c] \notin Awaiting
             /\ (p = "resolved" => depth > 1 \/ pending = Empty)
             /\ (p = "rejected" => depth # 1)
  <2>1. pending'[k] = pending[k] /\ pending[k] # NoCall
    BY <1>3 DEF data
  <2>2. ASSUME c = ParentOf[pending[k]] PROVE p \notin {"resolved", "rejected"}
    <3>1. c \in Roots /\ ZoneOf[c] \in Buffering
      BY <2>1, <2>2, OpenIsHere
    <3> QED
      BY <1>3, <2>1, <3>1, SameKeepsOpen DEF Awaiting
  <2> QED
    BY <1>1, <1>3, <2>1, <2>2
<1>4. CASE c \in Stores /\ Buffer(c)
  <2>1. CASE k = KeyOf[c]
    <3>1. pending'[k] = c /\ pc'[c] = "returned"
      BY <1>2, <1>4, <2>1 DEF Buffer, Rows, CallsInv, IInv, LockInv, LockTypes
    <3>2. Batched(c) /\ ZoneOf[c] \in Buffering
      BY <1>4, BatchAssumption DEF Buffer, Batched
    <3>3. pc[ParentOf[c]] = "body"
      BY <1>4, <3>2 DEF Buffer, CallsInv, Nested, Batched, Inside
    <3>4. ParentOf[c] # c /\ ParentOf[c] \in Calls
      BY <1>4, <3>2, ZoneAssumption DEF Batched, Calls
    <3>5. pc'[ParentOf[c]] = "body"
      BY <3>3, <3>4 DEF Moved
    <3> QED
      BY <2>1, <3>1, <3>2, <3>5 DEF Fine, Undecided
  <2>2. CASE k # KeyOf[c]
    <3>1. pending'[k] = pending[k]
      BY <1>2, <1>4, <2>2 DEF Buffer, Rows
    <3>2. c # ParentOf[pending[k]]
      BY <1>4, <3>1, OpenIsHere, ZoneAssumption
    <3> QED
      BY <1>1, <3>1, <3>2
  <2> QED
    BY <2>1, <2>2
<1>5. CASE (c \in Stores /\ WriteThrough(c)) \/ Commit(c)
  BY <1>5 DEF WriteThrough, Commit, Empty
<1>6. CASE Throw(c) /\ depth = 1
  BY <1>6 DEF Throw, Reverted
<1>7. CASE (WriteSucceeds \/ WriteFails) /\ c = Head(writes).by
  <2>1. pending'[k] = pending[k]
    BY <1>7 DEF WriteSucceeds, WriteFails
  <2>2. pc[c] \in Awaiting
    BY <1>7, FirstWriter DEF WriteSucceeds, WriteFails, CallsInv
  <2>3. c # ParentOf[pending[k]]
    BY <2>1, <2>2, OpenIsHere DEF Awaiting, Undecided
  <2> QED
    BY <1>1, <2>1, <2>3
<1> QED
  BY <1>3, <1>4, <1>5, <1>6, <1>7 DEF Changes

\* What a write in flight holds of a batch, when the write is answered.
LEMMA WritesStep ==
    ASSUME CallsInv, CallsInv', PendingIsOpen, WritesAreCommits,
           NEW c \in Calls, NEW p \in PCs, Moved(c, p), Moves(c, p), Changes(c, p)
    PROVE  WritesAreCommits'
<1> DEFINE Ours(w, k) ==
             w.changes[k] # NoCall /\ Batched(w.changes[k]) =>
                w.by = ParentOf[w.changes[k]] /\ pc'[w.by] = "committing"
<1>0. /\ writes \in Seq(Write) /\ WritersWait /\ pending \in Rows
      /\ pc \in [Calls -> PCs]
  BY DEF CallsInv, IInv, LockInv, LockTypes, DataTypes, Write
<1>1. \A i \in 1..Len(writes) : writes[i] \in Write /\ writes[i].by \in Calls
  BY <1>0, ElementOfSeq, WritersAreCalls
<1>2. ASSUME NEW i \in 1..Len(writes), c # writes[i].by \/ pc[c] # "committing"
             \/ p = "committing", NEW k \in Keys \ Triples
      PROVE  Ours(writes[i], k)
  BY <1>1, <1>2 DEF WritesAreCommits, Moved, Moves
<1> HIDE DEF Ours
<1>3. SUFFICES ASSUME NEW i \in 1..Len(writes'), NEW k \in Keys \ Triples
               PROVE  Ours(writes'[i], k)
  BY DEF WritesAreCommits, Ours
<1>4. CASE writes' = writes /\ pc[c] # "committing"
  BY <1>2, <1>4
<1>5. ASSUME NEW ch \in Rows,
             writes' = Append(writes, [by |-> c, changes |-> ch]),
             pc[c] # "committing",
             Ours([by |-> c, changes |-> ch], k)
      PROVE  Ours(writes'[i], k)
  <2>1. /\ Len(writes') = Len(writes) + 1 /\ Len(writes) \in Nat
        /\ \A j \in 1..Len(writes) : writes'[j] = writes[j]
        /\ writes'[Len(writes) + 1] = [by |-> c, changes |-> ch]
    <3>1. [by |-> c, changes |-> ch] \in Write
      BY DEF Write
    <3> QED
      BY <1>0, <1>5, <3>1, AppendProperties, LenProperties
  <2>2. CASE i \in 1..Len(writes)
    BY <1>2, <1>5, <2>1, <2>2
  <2>3. CASE i = Len(writes) + 1
    BY <1>5, <2>1, <2>3
  <2> QED
    BY <2>1, <2>2, <2>3
<1>6. ASSUME writes # <<>>, writes' = Tail(writes), c = Head(writes).by
      PROVE  Ours(writes'[i], k)
  <2>1. /\ Len(writes') = Len(writes) - 1 /\ Len(writes) \in Nat \ {0}
        /\ \A j \in 1..(Len(writes) - 1) : writes'[j] = writes[j + 1]
        /\ Head(writes) = writes[1]
    BY <1>0, <1>6, HeadTailProperties, EmptySeq
  <2>2. i + 1 \in 1..Len(writes) /\ 1 \in 1..Len(writes) /\ writes'[i] = writes[i + 1]
    BY <2>1
  <2>3. writes[i + 1].by # c
    BY <1>0, <1>6, <2>1, <2>2 DEF WritersWait
  <2> QED
    BY <1>2, <2>2, <2>3
<1>7. CASE UNCHANGED data /\ pc[c] \notin Awaiting
  BY <1>4, <1>7 DEF data, Awaiting
<1>8. CASE c \in Stores /\ Buffer(c)
  BY <1>4, <1>8 DEF Buffer
<1>9. CASE c \in Stores /\ WriteThrough(c)
  <2> DEFINE ch == [pending EXCEPT ![KeyOf[c]] = c]
  <2>1. ch \in Rows
    BY <1>0, <1>9, RowsFacts
  <2>2. c \in Users /\ ZoneOf[c] \notin Buffering /\ ~Batched(c)
    BY <1>9 DEF WriteThrough, Users, Active, Inside, Batched
  <2>3. currentZone \notin Buffering
    BY <2>2 DEF CallsInv, UsersShareZone
  <2>4. pending[k] = NoCall
    BY <2>3, OpenIsHere
  <2>5. ch[k] = NoCall \/ ch[k] = c
    BY <1>0, <2>4 DEF Rows
  <2>6. Ours([by |-> c, changes |-> ch], k)
    BY <2>2, <2>5 DEF Ours
  <2> QED
    BY <1>5, <1>9, <2>1, <2>6 DEF WriteThrough
<1>10. CASE Commit(c)
  <2>1. c \in Users /\ depth = 1 /\ LockInv
    BY <1>10 DEF Commit, Users, Active, Inside, CallsInv, IInv
  <2>2. pending[k] # NoCall => ParentOf[pending[k]] = c
    BY <2>1, OneUser, OpenIsHere
  <2>3. pc'[c] = "committing"
    BY <1>0, <1>10 DEF Commit
  <2>4. Ours([by |-> c, changes |-> pending], k)
    BY <2>2, <2>3 DEF Ours
  <2> QED
    BY <1>0, <1>5, <1>10, <2>4 DEF Commit
<1>11. CASE Throw(c) /\ depth = 1
  BY <1>4, <1>11 DEF Throw
<1>12. CASE (WriteSucceeds \/ WriteFails) /\ c = Head(writes).by
  BY <1>6, <1>12 DEF WriteSucceeds, WriteFails
<1> QED
  BY <1>7, <1>8, <1>9, <1>10, <1>11, <1>12 DEF Changes

\* A batch that is in the database stays resolved, and a commit that reaches it
\* resolves its batch.
LEMMA DbStep ==
    ASSUME CallsInv, CallsInv', WritesAreCommits, DbIsResolved,
           NEW c \in Calls, NEW p \in PCs, Moved(c, p), Moves(c, p), Changes(c, p)
    PROVE  DbIsResolved'
<1>0. /\ db \in Rows /\ pc \in [Calls -> PCs]
      /\ \A s \in Stores : Batched(s) => ParentOf[s] \in Calls
  BY ZoneAssumption
     DEF CallsInv, IInv, LockInv, LockTypes, DataTypes, Batched, Calls
<1>1. ASSUME NEW x \in Calls, pc[x] = "resolved" PROVE pc'[x] = "resolved"
  BY <1>1 DEF Moved, Moves
<1> SUFFICES ASSUME NEW k \in Keys \ Triples, db'[k] # NoCall, Batched(db'[k])
             PROVE  pc'[ParentOf[db'[k]]] = "resolved"
  BY DEF DbIsResolved
<1>2. CASE db'[k] = db[k]
  <2>1. db[k] \in Stores
    BY <1>0, <1>2 DEF Rows, Value
  <2> QED
    BY <1>0, <1>1, <1>2, <2>1 DEF DbIsResolved
<1>3. CASE db'[k] # db[k]
  <2>1. /\ WriteSucceeds /\ c = Head(writes).by
    BY <1>3 DEF Changes, data, Buffer, WriteThrough, Commit, Throw, WriteFails
  <2>2. db'[k] = Head(writes).changes[k]
    BY <1>3, <2>1 DEF WriteSucceeds, Overlay
  <2>3. 1 \in 1..Len(writes) /\ Head(writes) = writes[1]
    BY <2>1, FirstWriter DEF WriteSucceeds, CallsInv
  <2>4. c = ParentOf[db'[k]] /\ pc[c] = "committing"
    BY <2>1, <2>2, <2>3 DEF WritesAreCommits
  <2>5. pc'[c] = "resolved"
    <3>1. c \in Active /\ LockInv
      BY <2>1, FirstWriter DEF WriteSucceeds, CallsInv, IInv
    <3>2. Leave(c, "resolved")
      BY <2>1, <2>4 DEF WriteSucceeds
    <3> QED
      BY <3>1, <3>2, LeaveMoves DEF Moved
  <2> QED
    BY <2>4, <2>5
<1> QED
  BY <1>2, <1>3

\* What a batch has stored stays pending, and goes into its commit.
LEMMA StoredStep ==
    ASSUME CallsInv, CallsInv', StoredIsPending,
           NEW c \in Calls, NEW p \in PCs, Moved(c, p), Moves(c, p), Changes(c, p)
    PROVE  StoredIsPending'
<1> DEFINE Stored == {"returned", "resolved"}
           Written(s) == \E i \in 1..Len(writes) :
                            writes[i].by = ParentOf[s] /\ Holds(writes[i].changes, s)
<1>0. /\ writes \in Seq(Write) /\ WritersWait /\ pending \in Rows
      /\ pc \in [Calls -> PCs] /\ LockInv
  BY DEF CallsInv, IInv, LockInv, LockTypes, DataTypes, Write
<1> SUFFICES ASSUME NEW s \in Stores, Batched(s), pc'[s] \in Stored
             PROVE  /\ pc'[ParentOf[s]] \in Undecided => Holds(pending', s)
                    /\ pc'[ParentOf[s]] = "committing" => Written(s)'
  BY DEF StoredIsPending
<1> DEFINE r == ParentOf[s]
<1>1. /\ r \in Roots /\ r \in Calls /\ r # s /\ s \notin Roots /\ r \notin Stores
      /\ ZoneOf[r] \in Buffering /\ ZoneOf[s] = ZoneOf[r]
  BY ZoneAssumption, NestingAssumption DEF Calls, Batched
<1>2. /\ pc'[s] \in Stored /\ ~(c = s /\ pc[s] = "body") => pc[s] \in Stored
      /\ pc'[r] \in Undecided => pc[r] \in Undecided
      /\ pc'[r] = "committing" =>
            pc[r] = "committing" \/ (c = r /\ p = "committing" /\ pc[r] = "returned")
  BY BatchSteps
<1>3. pc[r] \in Undecided \cup {"committing"} =>
         r \in Active /\ r \in Users /\ ZoneOf[r] = currentZone
  BY <1>1 DEF Undecided, Active, Users, Inside, CallsInv, UsersShareZone
<1>4. /\ pc[s] \in Stored /\ pc[r] \in Undecided => Holds(pending, s)
      /\ pc[s] \in Stored /\ pc[r] = "committing" => Written(s)
  BY DEF StoredIsPending
<1> HIDE DEF r, Written
<1>5. ASSUME ~(c = s /\ pc[s] = "body"), p # "committing", UNCHANGED <<pending, writes>>
      PROVE  /\ pc'[r] \in Undecided => Holds(pending', s)
             /\ pc'[r] = "committing" => Written(s)'
  BY <1>2, <1>4, <1>5 DEF Written
<1>6. CASE UNCHANGED data /\ p # "committing"
             /\ (pc[c] = "body" /\ c \in Stores => p = "threw")
  <2>1. ~(c = s /\ pc[s] = "body")
    BY <1>6 DEF Moved
  <2> QED
    BY <1>5, <1>6, <2>1 DEF data, r
<1>7. CASE c \in Stores /\ Buffer(c)
  <2>1. c \in Users /\ ZoneOf[c] = currentZone /\ ZoneOf[c] \in Buffering
    BY <1>7 DEF Buffer, Active, Users, Inside, CallsInv, UsersShareZone
  <2>2. Batched(c) /\ ParentOf[c] \in Roots /\ ZoneOf[ParentOf[c]] = ZoneOf[c]
    BY <1>7, <2>1, BatchAssumption, ZoneAssumption, NestingAssumption
       DEF Batched
  <2>3. pending'[KeyOf[c]] = c
    BY <1>0, <1>7, ZoneAssumption DEF Buffer, Rows
  <2>4. ASSUME pc'[r] \in Undecided PROVE Holds(pending', s)
    <3>1. ParentOf[c] = r /\ c # NoCall
      BY <1>1, <1>2, <1>3, <1>7, <2>1, <2>2, <2>4, BatchAssumption,
         ZoneAssumption
      DEF Calls
    <3>2. CASE KeyOf[c] = KeyOf[s]
      BY <2>3, <3>1, <3>2 DEF Holds, r
    <3>3. CASE KeyOf[c] # KeyOf[s]
      <4>1. Holds(pending, s) /\ pending'[KeyOf[s]] = pending[KeyOf[s]]
        BY <1>0, <1>2, <1>4, <1>7, <2>4, <3>3, ZoneAssumption DEF Buffer, Rows
      <4> QED
        BY <4>1 DEF Holds
    <3> QED
      BY <3>2, <3>3
  <2>5. ASSUME pc'[r] = "committing" PROVE Written(s)'
    <3>1. c # s
      <4>1. SUFFICES ASSUME c = s PROVE FALSE
        OBVIOUS
      <4>2. pc[r] = "body" /\ r # c
        BY <1>1, <1>7, <4>1 DEF Buffer, CallsInv, Nested, Batched, Inside, r
      <4> QED
        BY <1>2, <2>5, <4>2
    <3>2. pc[s] \in Stored /\ pc[r] = "committing" /\ writes' = writes
      BY <1>1, <1>2, <1>7, <2>5, <3>1 DEF Buffer
    <3> QED
      BY <1>4, <3>2 DEF Written
  <2> QED
    BY <2>4, <2>5 DEF r
<1>8. CASE c \in Stores /\ WriteThrough(c)
  <2>1. c \in Users /\ ZoneOf[c] = currentZone /\ ZoneOf[c] \notin Buffering
    BY <1>8 DEF WriteThrough, Active, Users, Inside, CallsInv, UsersShareZone
  <2>2. pc[r] \notin Undecided \cup {"committing"}
    BY <1>1, <1>3, <2>1
  <2>3. pc'[r] \notin Undecided \cup {"committing"}
    BY <1>1, <1>2, <1>8, <2>2
  <2> QED
    BY <2>3 DEF r
<1>9. CASE Commit(c)
  <2>1. c \in Users /\ depth = 1 /\ pc[c] = "returned" /\ pc'[c] = "committing"
    BY <1>0, <1>9 DEF Commit, Users, Active, Inside
  <2>2. pc[r] \in Undecided \cup {"committing"} => c = r
    BY <1>0, <1>3, <2>1, OneUser
  <2>3. pc'[r] \notin Undecided
    BY <1>2, <2>1, <2>2 DEF Undecided
  <2>4. ASSUME pc'[r] = "committing" PROVE Written(s)'
    <3>1. c = r /\ pc[r] = "returned"
      BY <1>2, <2>1, <2>2, <2>4
    <3>2. Holds(pending, s)
      BY <1>1, <1>2, <1>4, <3>1 DEF Undecided
    <3> DEFINE w == [by |-> c, changes |-> pending]
               n == Len(writes)
    <3>3. n + 1 \in 1..Len(writes') /\ writes'[n + 1] = w
      <4>1. w \in Write
        BY <1>0 DEF Write
      <4> QED
        BY <1>0, <1>9, <4>1, AppendProperties, LenProperties DEF Commit
    <3> QED
      BY <3>1, <3>2, <3>3 DEF Written, Holds, r
  <2> QED
    BY <2>3, <2>4 DEF r
<1>10. CASE Throw(c) /\ depth = 1
  <2>1. c \in Users /\ pc'[c] = "rejected"
    <3>1. Leave(c, "rejected") /\ c \in Active
      BY <1>10 DEF Throw, Active, Inside
    <3> QED
      BY <1>0, <3>1, LeaveMoves DEF Moved, Users
  <2>2. pc[r] \in Undecided \cup {"committing"} => c = r
    BY <1>0, <1>3, <1>10, <2>1, OneUser
  <2>3. pc'[r] \notin Undecided \cup {"committing"}
    BY <1>2, <2>1, <2>2 DEF Undecided
  <2> QED
    BY <2>3 DEF r
<1>11. CASE (WriteSucceeds \/ WriteFails) /\ c = Head(writes).by
  <2>1. writes # <<>> /\ writes' = Tail(writes) /\ pending' = pending
    BY <1>11 DEF WriteSucceeds, WriteFails
  <2>2. pc[c] \in Awaiting /\ Head(writes) = writes[1]
    BY <1>11, <2>1, FirstWriter DEF CallsInv
  <2>3. pc[s] \in Stored
    BY <1>2, <2>2 DEF Awaiting
  <2>4. ASSUME pc'[r] \in Undecided PROVE Holds(pending', s)
    BY <1>2, <1>4, <2>1, <2>3, <2>4
  <2>5. ASSUME pc'[r] = "committing" PROVE Written(s)'
    <3>1. pc[r] = "committing"
      BY <1>2, <2>2, <2>5 DEF Awaiting
    <3>2. PICK i \in 1..Len(writes) : writes[i].by = r /\ Holds(writes[i].changes, s)
      BY <1>4, <2>3, <3>1 DEF Written, r
    <3>3. c # r
      <4>1. SUFFICES ASSUME c = r PROVE FALSE
        OBVIOUS
      <4>2. p # "committing"
        BY <3>1, <4>1 DEF Moves
      <4> QED
        BY <2>5, <4>1, <4>2 DEF Moved
    <3>4. /\ Len(writes') = Len(writes) - 1 /\ Len(writes) \in Nat \ {0}
          /\ \A j \in 1..(Len(writes) - 1) : writes'[j] = writes[j + 1]
      BY <1>0, <2>1, HeadTailProperties, EmptySeq
    <3>5. i # 1
      BY <1>11, <2>2, <3>2, <3>3
    <3>6. i - 1 \in 1..Len(writes') /\ writes'[i - 1] = writes[i]
      BY <3>4, <3>5
    <3> QED
      BY <3>2, <3>6 DEF Written, Holds, r
  <2> QED
    BY <2>4, <2>5 DEF r
<1> QED
  BY <1>6, <1>7, <1>8, <1>9, <1>10, <1>11 DEF Changes, r

\* The in-memory stores are what the database has.
LEMMA CacheStep ==
    ASSUME NEW c \in Calls, NEW p \in PCs, Changes(c, p), cache = db
    PROVE  cache' = db'
BY
   DEF Changes, data, Buffer, WriteThrough, Commit, Throw, WriteSucceeds,
       WriteFails

\* Every step keeps what the data is.
LEMMA DataStep == DataInv /\ [Next]_vars => DataInv'
<1> SUFFICES ASSUME DataInv, [Next]_vars PROVE DataInv'
  OBVIOUS
<1>1. CallsInv /\ CallsInv'
  BY CallsStep DEF DataInv
<1>2. CASE UNCHANGED vars
  BY <1>1, <1>2
     DEF DataInv, vars, PendingIsOpen, WritesAreCommits, DbIsResolved,
     StoredIsPending, Holds
<1>3. ASSUME NEW c \in Calls, NEW p \in PCs, Moved(c, p), Moves(c, p), Changes(c, p)
      PROVE  DataInv'
  BY <1>1, <1>3, PendingStep, WritesStep, DbStep, StoredStep, CacheStep
     DEF DataInv
<1> QED
  BY <1>1, <1>2, <1>3, StepMoves DEF CallsInv

\* At the start nothing is stored.
LEMMA DataInit == Init => DataInv
<1> SUFFICES ASSUME Init PROVE DataInv
  OBVIOUS
<1>1. IInv
  BY InitEstablishes
<1>2. \A c \in Calls : pc[c] = "idle"
  BY DEF Init
<1>3. Users = {} /\ Stores \subseteq Calls
  BY <1>2 DEF Users, Active, Leaked, Inside, Calls
<1>4. CallsInv
  BY <1>1, <1>2, <1>3
     DEF CallsInv, UsersShareZone, Nested, WritesThrough, Inside
<1>5. PendingIsOpen /\ WritesAreCommits /\ DbIsResolved
  BY EmptySeq DEF Init, PendingIsOpen, WritesAreCommits, DbIsResolved, Empty
<1>6. StoredIsPending
  BY <1>2, <1>3 DEF StoredIsPending
<1> QED
  BY <1>4, <1>5, <1>6 DEF DataInv, Init
\* The lock and the writers, as an invariant of the specification.
THEOREM Invariance == Spec => []IInv
BY InitEstablishes, NextKeeps, PTL DEF Spec

-----------------------------------------------------------------------------
\* Every variable of withZone keeps its type, whatever the database answers.
THEOREM TypeCorrect == Spec => []TypeOK
<1>1. IInv => TypeOK
  BY DEF IInv, LockInv, LockTypes, DataTypes, TypeOK
<1> QED
  BY <1>1, Invariance, PTL

\* enterZone and leaveZone keep zones apart: two calls inside withZone always
\* have the same zone, and the depth counts them.
THEOREM MutualExclusion == Spec => []OneZoneAtATime
<1>1. IInv => OneZoneAtATime
  BY DEF IInv, LockInv
<1> QED
  BY <1>1, Invariance, PTL

\* leaveZone neither drops nor repeats a queued callback.
THEOREM QueueKeepsWaiters == Spec => []QueueIsWaiters
<1>1. IInv => QueueIsWaiters
  BY DEF IInv, LockInv
<1> QED
  BY <1>1, Invariance, PTL

\* leaveZone leaves nobody asleep: unless a commit has failed, a queued call
\* always waits for a call that is inside, in another zone.
THEOREM NoLostWakeup == Spec => []NobodyStranded
<1>1. IInv => NobodyStranded
  <2> SUFFICES ASSUME IInv, zoneQueue # <<>>, Leaked = {}
               PROVE  Active # {} /\ ZoneOf[zoneQueue[1]] # currentZone
    BY DEF NobodyStranded
  <2>1. depth # 0 /\ ZoneOf[zoneQueue[1]] # currentZone
    BY DEF IInv, LockInv, ZoneIsHeld
  <2>2. Users # {}
    BY <2>1, FS_EmptySet DEF IInv, LockInv, OneZoneAtATime
  <2> QED
    BY <2>1, <2>2 DEF Users
<1> QED
  BY <1>1, Invariance, PTL

\* What a batch does to the data, as an invariant of the specification.
THEOREM DataInvariance == Spec => []DataInv
BY DataInit, DataStep, PTL DEF Spec

\* loadSession shows a change that is not in the database to nobody outside the
\* zone that made it.
THEOREM ReadsAreClean == Spec => []NoDirtyRead
<1>1. DataInv => NoDirtyRead
  BY OpenIsHere DEF DataInv, NoDirtyRead, Visible
<1> QED
  BY <1>1, DataInvariance, PTL

\* A batch that ends with an error has left no change in the pending
\* collections, in the in-memory stores or in the database.
THEOREM RevertIsComplete == Spec => []RevertLeavesNoTrace
<1>1. DataInv => RevertLeavesNoTrace
  <2> SUFFICES ASSUME DataInv, NEW s \in Stores, ParentOf[s] # NoCall,
                      ZoneOf[s] \in Buffering, KeyOf[s] \notin Triples,
                      pc[ParentOf[s]] \in {"rejected", "leaked"}
               PROVE  s \notin {pending[KeyOf[s]], cache[KeyOf[s]], db[KeyOf[s]]}
    BY DEF RevertLeavesNoTrace
  <2>1. Batched(s) /\ s # NoCall /\ KeyOf[s] \in Keys \ Triples
    BY ZoneAssumption DEF Batched, Calls
  <2>2. pending[KeyOf[s]] # s
    BY <2>1 DEF DataInv, PendingIsOpen, Undecided
  <2>3. db[KeyOf[s]] # s
    BY <2>1 DEF DataInv, DbIsResolved
  <2> QED
    BY <2>2, <2>3 DEF DataInv
<1> QED
  BY <1>1, DataInvariance, PTL

\* At the step that resolves a batch everything it stored is in the database,
\* overwritten by a change of the same batch at most.
THEOREM ResolvedIsWritten == Spec => ResolvedIsDurable
<1>1. ASSUME DataInv, [Next]_vars, NEW s \in Stores, ParentOf[s] # NoCall,
             pc[s] = "resolved", pc[ParentOf[s]] # "resolved",
             pc'[ParentOf[s]] = "resolved", ZoneOf[s] \in Buffering
      PROVE  db'[KeyOf[s]] # NoCall /\ ParentOf[db'[KeyOf[s]]] = ParentOf[s]
  <2> DEFINE r == ParentOf[s]
             k == KeyOf[s]
  <2>1. /\ Batched(s) /\ k \in Keys /\ r \in Roots /\ r \in Calls /\ r \notin Stores
        /\ ZoneOf[r] \in Buffering
    BY <1>1, ZoneAssumption, NestingAssumption DEF Batched, Calls
  <2>2. CallsInv /\ IInv /\ StoredIsPending /\ pc \in [Calls -> PCs]
    BY <1>1 DEF DataInv, CallsInv, IInv, LockInv, LockTypes
  <2>3. PICK c \in Calls, p \in PCs : Moved(c, p) /\ Moves(c, p) /\ Changes(c, p)
    BY <1>1, <2>2, StepMoves DEF vars
  <2>4. c = r /\ p = "resolved" /\ pc[r] \in {"returned", "committing"}
    BY <1>1, <2>1, <2>3 DEF Moved, Moves
  <2>5. CASE UNCHANGED data /\ pc[c] \notin Awaiting /\ (depth > 1 \/ pending = Empty)
    <3>1. pc[r] = "returned" /\ depth = 1
      BY <2>1, <2>2, <2>4, <2>5, BatchAlone DEF Awaiting, Inside
    <3>2. pending[k] # NoCall
      BY <1>1, <2>1, <2>2, <3>1 DEF StoredIsPending, Holds, Undecided
    <3> QED
      BY <2>1, <2>5, <3>1, <3>2 DEF Empty
  <2>6. CASE WriteSucceeds /\ c = Head(writes).by
    <3>1. pc[r] = "committing"
      BY <2>2, <2>4, <2>6, FirstWriter DEF WriteSucceeds, Awaiting
    <3>2. PICK i \in 1..Len(writes) : writes[i].by = r /\ Holds(writes[i].changes, s)
      BY <1>1, <2>1, <2>2, <3>1 DEF StoredIsPending
    <3>3. writes[i] = Head(writes)
      BY <2>2, <2>4, <2>6, <3>2, FirstWriter
         DEF WriteSucceeds, IInv, WritersWait
    <3> QED
      BY <2>1, <2>6, <3>2, <3>3 DEF WriteSucceeds, Overlay, Holds
  <2>7. CASE WriteFails /\ c = Head(writes).by
    BY <2>2, <2>3, <2>4, <2>7 DEF WriteFails, Moved
  <2>8. CASE Commit(c)
    BY <2>2, <2>3, <2>4, <2>8 DEF Commit, Moved
  <2>9. CASE Throw(c)
    BY <2>4, <2>9 DEF Throw
  <2> QED
    BY <2>1, <2>3, <2>4, <2>5, <2>6, <2>7, <2>8, <2>9 DEF Changes
<1>2. DataInv /\ [Next]_vars =>
        [\A s \in Stores : LET r == ParentOf[s] IN
            /\ r # NoCall /\ pc[s] = "resolved"
            /\ pc[r] # "resolved" /\ pc'[r] = "resolved"
            /\ ZoneOf[s] \in Buffering
            => /\ db'[KeyOf[s]] # NoCall
               /\ ParentOf[db'[KeyOf[s]]] = r]_vars
  BY <1>1
<1> QED
  BY <1>2, DataInvariance, PTL DEF ResolvedIsDurable, Spec

\* markKyberTripleSeenOrFail: a triple that is in the database is never written
\* again.
THEOREM TripleIsFinal == Spec => TripleSeenOnce
<1>1. ASSUME IInv, [Next]_vars, NEW k \in Triples, db[k] # NoCall
      PROVE  db'[k] = db[k]
  <2>1. k \in Keys /\ db \in Rows
    BY <1>1, ZoneAssumption DEF IInv, DataTypes
  <2>2. CASE WriteSucceeds
    BY <1>1, <2>1, <2>2 DEF WriteSucceeds, Clash, Overlay
  <2>3. CASE UNCHANGED db
    BY <2>3
  <2> QED
    BY <1>1, <2>2, <2>3
       DEF Next, Enter, Wait, Ending, Commit, Return, Throw, StoreBody,
       Buffer, WriteThrough, StoreThrows, RootEnds, WriteFails, vars
<1>2. IInv /\ [Next]_vars =>
        [\A k \in Triples : db[k] # NoCall => db'[k] = db[k]]_vars
  BY <1>1
<1> QED
  BY <1>2, Invariance, PTL DEF TripleSeenOnce, Spec

\* leaveZone lets in a prefix of the queue.
LEMMA LeaveInOrder ==
    ASSUME LockInv, NEW c \in Active, NEW end \in {"resolved", "rejected"},
           Leave(c, end), NEW i \in 1..Len(zoneQueue), NEW j \in 1..Len(zoneQueue),
           i < j, pc'[zoneQueue[j]] # "waiting"
    PROVE  pc'[zoneQueue[i]] # "waiting"
<1>1. /\ pc \in [Calls -> PCs] /\ c \in Calls /\ pc[c] # "waiting"
      /\ \A x \in 1..Len(zoneQueue) :
            zoneQueue[x] \in Calls /\ pc[zoneQueue[x]] = "waiting"
  BY DEF LockInv, LockTypes, QueueIsWaiters, Active, Inside
<1>2. zoneQueue[i] # c /\ zoneQueue[j] # c
  BY <1>1
<1>3. ~(depth > 1)
  BY <1>1, <1>2 DEF Leave
<1>4. zoneQueue[j] \in Released
  BY <1>1, <1>2, <1>3 DEF Leave
<1>5. j \in ReleasedPrefix
  BY <1>4 DEF Released, ReleasedPrefix, LockInv, QueueIsWaiters
<1>6. zoneQueue[i] \in Released
  <2>1. i \in ReleasedPrefix
    <3>1. Len(zoneQueue) \in Nat
      BY LenProperties DEF LockInv, LockTypes
    <3>2. 1..i \subseteq 1..j
      BY <3>1
    <3> QED
      BY <1>5, <3>2 DEF ReleasedPrefix
  <2> QED
    BY <2>1 DEF Released
<1> QED
  BY <1>1, <1>2, <1>3, <1>6 DEF Leave

\* The queue is fair between zones: no queued call enters before one that was
\* queued earlier.
THEOREM QueueIsFair == Spec => WaitersEnterInOrder
<1>1. ASSUME IInv, [Next]_vars, NEW i \in 1..Len(zoneQueue),
             NEW j \in 1..Len(zoneQueue), i < j, pc'[zoneQueue[j]] # "waiting"
      PROVE  pc'[zoneQueue[i]] # "waiting"
  <2>1. /\ LockInv /\ pc \in [Calls -> PCs]
        /\ zoneQueue[j] \in Calls /\ pc[zoneQueue[j]] = "waiting"
    BY <1>1 DEF IInv, LockInv, LockTypes, QueueIsWaiters
  <2>2. ASSUME NEW c, NEW p, pc' = [pc EXCEPT ![c] = p], pc[c] # "waiting"
        PROVE  FALSE
    BY <1>1, <2>1, <2>2
  <2>3. ASSUME NEW c \in Calls, Enter(c) PROVE FALSE
    BY <2>2, <2>3 DEF Enter
  <2>4. ASSUME NEW c \in Calls, Wait(c) PROVE FALSE
    BY <2>2, <2>4 DEF Wait
  <2>5. ASSUME NEW c \in Calls, Commit(c) PROVE FALSE
    BY <2>2, <2>5 DEF Commit
  <2>6. ASSUME NEW s \in Stores, StoreBody(s) PROVE FALSE
    BY <2>2, <2>6 DEF StoreBody, Buffer, WriteThrough, StoreThrows
  <2>7. ASSUME NEW r \in Roots, RootEnds(r) PROVE FALSE
    BY <2>2, <2>7 DEF RootEnds
  <2>8. ASSUME NEW c \in Calls, Return(c) \/ Throw(c)
        PROVE  pc'[zoneQueue[i]] # "waiting"
    <3>1. PICK end \in {"resolved", "rejected"} : Leave(c, end) /\ c \in Active
      BY <2>8 DEF Return, Throw, Active, Inside
    <3> QED
      BY <1>1, <2>1, <3>1, LeaveInOrder
  <2>9. ASSUME WriteSucceeds PROVE pc'[zoneQueue[i]] # "waiting"
    <3> DEFINE c == Head(writes).by
    <3>1. c \in Active /\ pc[c] \in Awaiting
      BY <1>1, <2>9, FirstWriter DEF WriteSucceeds
    <3>2. CASE pc[c] = "committing"
      BY <1>1, <2>1, <2>9, <3>1, <3>2, LeaveInOrder DEF WriteSucceeds
    <3>3. CASE pc[c] # "committing"
      BY <2>2, <2>9, <3>1, <3>3 DEF WriteSucceeds, Awaiting
    <3> QED
      BY <3>2, <3>3
  <2>10. ASSUME WriteFails PROVE FALSE
    BY <1>1, <2>2, <2>10, FirstWriter DEF WriteFails, Awaiting
  <2>11. ~ UNCHANGED vars
    BY <1>1, <2>1 DEF vars
  <2> QED
    BY <1>1, <2>3, <2>4, <2>5, <2>6, <2>7, <2>8, <2>9, <2>10, <2>11
       DEF Next, Ending
<1>2. IInv /\ [Next]_vars =>
        [\A i, j \in 1..Len(zoneQueue) :
            /\ i < j
            /\ pc'[zoneQueue[j]] # "waiting"
            => pc'[zoneQueue[i]] # "waiting"]_vars
  BY <1>1
<1> QED
  BY <1>2, Invariance, PTL DEF WaitersEnterInOrder, Spec
=============================================================================
