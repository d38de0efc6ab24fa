--------------------------- MODULE JobManagerProofs ---------------------------
(***************************************************************************)
(* The safety of JobManager, for any jobs, slots, attempts, stops, starts  *)
(* and crashes.                                                            *)
(***************************************************************************)
EXTENDS JobManager, SequenceFacts, FunctionTheorems

RunType == [phase : {"none", "saving", "running", "settling"},
            attempts : Nat, first : BOOLEAN, last : BOOLEAN]
RowType == [here : BOOLEAN, active : BOOLEAN, attempts : Nat, due : BOOLEAN]

\* What requests are about: some jobs, with a number each.
JobMaps == UNION {[S -> Nat] : S \in SUBSET Jobs}
RequestType == [kind : Requests, flag : BOOLEAN, jobs : JobMaps]

\* The conjuncts of TypeOK, but for the queue of requests.
StateTypes ==
    /\ enabled \in BOOLEAN /\ waiting \in BOOLEAN /\ paused \in BOOLEAN
    /\ timer \in {"none", "tick", "resume"}
    /\ run \in [Jobs -> RunType] /\ rows \in [Jobs -> RowType]
    /\ awaited \subseteq Running /\ cancelling \subseteq Running
    /\ batched \subseteq Jobs
    /\ fate \in [Jobs -> {"none", "wanted", "finished", "given up",
                          "cancelled"}]
    /\ tries \in [Jobs -> Nat]

\* #_inMaybeStartJobs lets one scan wait for its answer.
OneScan(q) ==
    \A i, k \in DOMAIN q : q[i].kind = "scan" /\ q[k].kind = "scan" => i = k

\* A run that saves or settles waits for one request; nobody else makes one.
Awaits == {"save", "settle"}
Phase(kind) == IF kind = "save" THEN "saving" ELSE "settling"

RunsWait(q, r) ==
    \A i \in DOMAIN q : q[i].kind \in Awaits =>
        \A j \in DOMAIN q[i].jobs : r[j].phase = Phase(q[i].kind)

WaitOnce(q) ==
    \A i, k \in DOMAIN q :
        q[i].kind \in Awaits /\ q[k].kind \in Awaits /\ i # k
        => DOMAIN q[i].jobs \cap DOMAIN q[k].jobs = {}

\* Only an add with forceStart is flagged.
AddsFlagged(q) ==
    \A i \in DOMAIN q : q[i].kind = "add" => q[i].flag \in {FALSE, Forces}

QueueInv(q, r) ==
    /\ q \in Seq(RequestType)
    /\ OneScan(q) /\ RunsWait(q, r) /\ WaitOnce(q) /\ AddsFlagged(q)

\* The manager after a crash, until it is started: nothing runs, nothing will.
Dormant ==
    ~enabled /\ timer # "resume" /\ Running = {} /\ ~Scanning(asked)

\* A row is active only between the two requests of its run, unless a crash has
\* left it so; then the manager is dormant, and start() marks it.
ActiveAt(r, table) ==
    \A j \in Jobs : table[j].active => r[j].phase \in {"saving", "running"}

ActiveRuns == Dormant \/ ActiveAt(run, rows)

IInv == StateTypes /\ QueueInv(asked, run) /\ ActiveRuns

-----------------------------------------------------------------------------
\* Where the requests go when the queue is served, joined and extended.
LEMMA TailPlaces ==
    ASSUME NEW S, NEW q \in Seq(S), q # <<>>
    PROVE  /\ Tail(q) \in Seq(S) /\ Head(q) \in S
           /\ 1 \in DOMAIN q /\ Head(q) = q[1]
           /\ \A i \in DOMAIN Tail(q) :
                 /\ i \in Nat /\ i + 1 \in DOMAIN q /\ i + 1 # 1
                 /\ Tail(q)[i] = q[i + 1]
           /\ \A i \in DOMAIN q : i # 1 => i \in Nat /\ i - 1 \in DOMAIN Tail(q)
<1>1. /\ Tail(q) \in Seq(S) /\ Head(q) \in S
      /\ Len(q) \in Nat \ {0} /\ DOMAIN q = 1..Len(q)
      /\ DOMAIN Tail(q) = 1..(Len(q) - 1)
      /\ \A i \in 1..(Len(q) - 1) : Tail(q)[i] = q[i + 1]
      /\ Head(q) = q[1]
  BY HeadTailProperties, LenProperties, EmptySeq
<1> QED
  BY <1>1

\* Where the requests are when one more is made.
LEMMA AppendPlaces ==
    ASSUME NEW S, NEW q \in Seq(S), NEW e \in S
    PROVE  /\ Append(q, e) \in Seq(S)
           /\ Len(q) + 1 \in DOMAIN Append(q, e)
           /\ Append(q, e)[Len(q) + 1] = e
           /\ \A i \in DOMAIN q : /\ i \in DOMAIN Append(q, e) /\ i \in Nat
                                  /\ i < Len(q) + 1
                                  /\ Append(q, e)[i] = q[i]
           /\ \A i \in DOMAIN Append(q, e) : i \in DOMAIN q \/ i = Len(q) + 1
<1>1. /\ Append(q, e) \in Seq(S)
      /\ DOMAIN Append(q, e) = 1..(Len(q) + 1)
      /\ DOMAIN q = 1..Len(q) /\ Len(q) \in Nat
      /\ \A i \in 1..Len(q) : Append(q, e)[i] = q[i]
      /\ Append(q, e)[Len(q) + 1] = e
  BY AppendProperties, LenProperties
<1> QED
  BY <1>1

\* Where they are when several are made.
LEMMA ConcatPlaces ==
    ASSUME NEW S, NEW q \in Seq(S), NEW t \in Seq(S)
    PROVE  /\ q \o t \in Seq(S)
           /\ \A i \in DOMAIN q : /\ i \in DOMAIN (q \o t) /\ i \in Nat
                                  /\ (q \o t)[i] = q[i]
           /\ \A i \in DOMAIN (q \o t) :
                 \/ i \in DOMAIN q
                 \/ /\ i - Len(q) \in DOMAIN t /\ i \in Nat
                    /\ (q \o t)[i] = t[i - Len(q)]
           /\ Len(q) \in Nat
<1>1. /\ q \o t \in Seq(S)
      /\ DOMAIN (q \o t) = 1..(Len(q) + Len(t))
      /\ DOMAIN q = 1..Len(q) /\ DOMAIN t = 1..Len(t)
      /\ Len(q) \in Nat /\ Len(t) \in Nat
      /\ \A i \in 1..(Len(q) + Len(t)) :
            (q \o t)[i] = IF i <= Len(q) THEN q[i] ELSE t[i - Len(q)]
  BY ConcatProperties, LenProperties
<1> QED
  BY <1>1

\* A request of the queue, and its jobs.
LEMMA RequestFacts ==
    ASSUME NEW q \in Seq(RequestType), NEW i \in DOMAIN q
    PROVE  /\ q[i] \in RequestType /\ q[i].kind \in Requests
           /\ q[i].flag \in BOOLEAN
           /\ DOMAIN q[i].jobs \subseteq Jobs
           /\ \A j \in DOMAIN q[i].jobs : q[i].jobs[j] \in Nat
<1>1. q[i] \in RequestType
  BY ElementOfSeq, LenProperties
<1> QED
  BY <1>1 DEF RequestType, JobMaps

\* What Nothing and Of are.
LEMMA MapFacts ==
    /\ Nothing \in JobMaps /\ DOMAIN Nothing = {}
    /\ \A j \in Jobs : \A n \in Nat :
          Of(j, n) \in JobMaps /\ DOMAIN Of(j, n) = {j} /\ Of(j, n)[j] = n
<1>1. Nothing \in [{} -> Nat] /\ DOMAIN Nothing = {}
  BY DEF Nothing
<1>2. ASSUME NEW j \in Jobs, NEW n \in Nat
      PROVE  Of(j, n) \in JobMaps /\ DOMAIN Of(j, n) = {j} /\ Of(j, n)[j] = n
  <2>1. Of(j, n) \in [{j} -> Nat] /\ {j} \in SUBSET Jobs
    BY DEF Of
  <2> QED
    BY <2>1 DEF JobMaps, Of
<1> QED
  BY <1>1, <1>2 DEF JobMaps

\* SetToSeq lists the elements of a finite set, each once.
LEMMA SetAsSequence ==
    ASSUME NEW S, IsFiniteSet(S)
    PROVE  /\ SetToSeq(S) \in Seq(S)
           /\ \A i, k \in DOMAIN SetToSeq(S) :
                 SetToSeq(S)[i] = SetToSeq(S)[k] => i = k
<1> DEFINE n == Cardinality(S)
<1>1. n \in Nat /\ ExistsBijection(1..n, S)
  BY FS_CardinalityType
<1>2. \E f \in [1..n -> S] : IsInjective(f)
  BY <1>1 DEF ExistsBijection, Bijection, Injection
<1>3. SetToSeq(S) \in [1..n -> S] /\ IsInjective(SetToSeq(S))
  BY <1>2 DEF SetToSeq
<1> QED
  BY <1>1, <1>3, SeqDef DEF IsInjective

\* The requests of startJob: one for each job that begins.
LEMMA SavesFacts ==
    ASSUME NEW jobs \in JobMaps
    PROVE  /\ Saves(jobs) \in Seq(RequestType)
           /\ \A i \in DOMAIN Saves(jobs) :
                 /\ Saves(jobs)[i].kind = "save"
                 /\ \E j \in DOMAIN jobs \ Running :
                       /\ Saves(jobs)[i].jobs = Of(j, jobs[j])
                       /\ DOMAIN Saves(jobs)[i].jobs = {j}
           /\ \A i, k \in DOMAIN Saves(jobs) : i # k =>
                 DOMAIN Saves(jobs)[i].jobs \cap DOMAIN Saves(jobs)[k].jobs = {}
<1> DEFINE B == DOMAIN jobs \ Running
           b == SetToSeq(B)
<1>1. B \subseteq Jobs /\ \A j \in B : jobs[j] \in Nat
  BY DEF JobMaps
<1>2. IsFiniteSet(B)
  BY <1>1, FS_Subset, JobManagerAssumption
<1>3. b \in Seq(B) /\ \A i, k \in DOMAIN b : b[i] = b[k] => i = k
  BY <1>2, SetAsSequence
<1>5. Saves(jobs) = [i \in DOMAIN b |-> Request("save", FALSE, Of(b[i], jobs[b[i]]))]
  BY DEF Saves
<1> HIDE DEF b
<1>4. Len(b) \in Nat /\ DOMAIN b = 1..Len(b) /\ \A i \in DOMAIN b : b[i] \in B
  <2>1. Len(b) \in Nat /\ DOMAIN b = 1..Len(b)
    BY <1>3, LenProperties
  <2> QED
    BY <1>3, <2>1, ElementOfSeq
<1>6. DOMAIN Saves(jobs) = DOMAIN b
  BY <1>5
<1>7. ASSUME NEW i \in DOMAIN b
      PROVE  /\ Saves(jobs)[i] \in RequestType
             /\ Saves(jobs)[i].kind = "save"
             /\ Saves(jobs)[i].jobs = Of(b[i], jobs[b[i]])
             /\ DOMAIN Saves(jobs)[i].jobs = {b[i]}
  <2>1. Saves(jobs)[i] = Request("save", FALSE, Of(b[i], jobs[b[i]]))
    BY <1>5
  <2>2. b[i] \in Jobs /\ jobs[b[i]] \in Nat
    BY <1>1, <1>4
  <2> DEFINE m == Of(b[i], jobs[b[i]])
  <2>3. m \in JobMaps /\ DOMAIN m = {b[i]}
    BY <2>2, MapFacts
  <2>4. "save" \in Requests
    BY DEF Requests
  <2>5. Saves(jobs)[i] = Request("save", FALSE, m)
    BY <2>1
  <2> HIDE DEF m
  <2>6. /\ Saves(jobs)[i] \in RequestType
        /\ Saves(jobs)[i].kind = "save" /\ Saves(jobs)[i].jobs = m
    BY <2>3, <2>4, <2>5 DEF Request, RequestType
  <2> QED
    BY <2>3, <2>6 DEF m
<1>8. Saves(jobs) \in [1..Len(b) -> RequestType]
  BY <1>4, <1>5, <1>6, <1>7
<1>9. Saves(jobs) \in Seq(RequestType)
  BY <1>4, <1>8, SeqDef
<1> QED
  BY <1>3, <1>4, <1>6, <1>7, <1>9
-----------------------------------------------------------------------------
\* The queue of requests.

\* A request is answered: those that remain keep the invariant of the queue, and
\* the runs that the answer is about wait for nothing else.
LEMMA TailQueue ==
    ASSUME NEW q, NEW r, QueueInv(q, r), q # <<>>
    PROVE  /\ QueueInv(Tail(q), r)
           /\ 1 \in DOMAIN q /\ Head(q) = q[1] /\ Head(q) \in RequestType
           /\ Head(q).kind \in Awaits =>
                 /\ \A j \in DOMAIN Head(q).jobs : r[j].phase = Phase(Head(q).kind)
                 /\ \A i \in DOMAIN Tail(q) : Tail(q)[i].kind \in Awaits =>
                       DOMAIN Head(q).jobs \cap DOMAIN Tail(q)[i].jobs = {}
           /\ Head(q).kind = "scan" => ~Scanning(Tail(q))
<1>1. /\ Tail(q) \in Seq(RequestType) /\ Head(q) \in RequestType
      /\ 1 \in DOMAIN q /\ Head(q) = q[1]
      /\ \A i \in DOMAIN Tail(q) : /\ i \in Nat /\ i + 1 \in DOMAIN q /\ i + 1 # 1
                                   /\ Tail(q)[i] = q[i + 1]
  BY TailPlaces DEF QueueInv
<1>2. OneScan(Tail(q)) /\ (Head(q).kind = "scan" => ~Scanning(Tail(q)))
  <2>1. ASSUME NEW i \in DOMAIN Tail(q), NEW k \in DOMAIN Tail(q),
               Tail(q)[i].kind = "scan", Tail(q)[k].kind = "scan"
        PROVE  i = k
    <3>1. i + 1 = k + 1
      BY <1>1, <2>1 DEF QueueInv, OneScan
    <3> QED
      BY <1>1, <3>1
  <2>2. ASSUME NEW i \in DOMAIN Tail(q), Tail(q)[i].kind = "scan",
               Head(q).kind = "scan"
        PROVE  FALSE
    BY <1>1, <2>2 DEF QueueInv, OneScan
  <2> QED
    BY <2>1, <2>2 DEF OneScan, Scanning
<1>3. RunsWait(Tail(q), r)
  BY <1>1 DEF QueueInv, RunsWait
<1>6. AddsFlagged(Tail(q))
  BY <1>1 DEF QueueInv, AddsFlagged
<1>4. WaitOnce(Tail(q))
  <2> SUFFICES ASSUME NEW i \in DOMAIN Tail(q), NEW k \in DOMAIN Tail(q),
                      Tail(q)[i].kind \in Awaits, Tail(q)[k].kind \in Awaits, i # k
               PROVE  DOMAIN Tail(q)[i].jobs \cap DOMAIN Tail(q)[k].jobs = {}
    BY DEF WaitOnce
  <2>1. i + 1 # k + 1
    BY <1>1
  <2> QED
    BY <1>1, <2>1 DEF QueueInv, WaitOnce
<1>5. Head(q).kind \in Awaits =>
         /\ \A j \in DOMAIN Head(q).jobs : r[j].phase = Phase(Head(q).kind)
         /\ \A i \in DOMAIN Tail(q) : Tail(q)[i].kind \in Awaits =>
               DOMAIN Head(q).jobs \cap DOMAIN Tail(q)[i].jobs = {}
  BY <1>1 DEF QueueInv, RunsWait, WaitOnce
<1> QED
  BY <1>1, <1>2, <1>3, <1>4, <1>5, <1>6 DEF QueueInv

\* A request joins: the only scan, or of runs that do not wait yet.
LEMMA AppendQueue ==
    ASSUME NEW q, NEW r, QueueInv(q, r), NEW e \in RequestType,
           e.kind = "scan" => ~Scanning(q),
           e.kind = "add" => e.flag \in {FALSE, Forces},
           e.kind \in Awaits =>
              \A j \in DOMAIN e.jobs :
                 /\ r[j].phase = Phase(e.kind)
                 /\ \A i \in DOMAIN q : q[i].kind \in Awaits => j \notin DOMAIN q[i].jobs
    PROVE  QueueInv(Append(q, e), r)
<1> DEFINE a == Append(q, e)
<1>1. /\ a \in Seq(RequestType)
      /\ Len(q) + 1 \in DOMAIN a /\ a[Len(q) + 1] = e
      /\ \A i \in DOMAIN q : i \in DOMAIN a /\ a[i] = q[i]
      /\ \A i \in DOMAIN a : i \in DOMAIN q \/ i = Len(q) + 1
  BY AppendPlaces DEF QueueInv
<1> HIDE DEF a
<1>2. OneScan(a)
  BY <1>1 DEF QueueInv, OneScan, Scanning
<1>3. RunsWait(a, r)
  BY <1>1 DEF QueueInv, RunsWait
<1>4. WaitOnce(a)
  BY <1>1 DEF QueueInv, WaitOnce
<1>5. AddsFlagged(a)
  BY <1>1 DEF QueueInv, AddsFlagged
<1> QED
  BY <1>1, <1>2, <1>3, <1>4, <1>5 DEF QueueInv, a

\* A run changes that no request in the queue waits for.
LEMMA SameQueue ==
    ASSUME NEW q, NEW r, NEW s, QueueInv(q, r),
           \A i \in DOMAIN q : q[i].kind \in Awaits =>
              \A j \in DOMAIN q[i].jobs : s[j].phase = r[j].phase
    PROVE  QueueInv(q, s)
BY DEF QueueInv, RunsWait

\* The runs that StartJobs makes wait for their rows to be saved.
LEMMA SavesQueue ==
    ASSUME NEW q, QueueInv(q, run), NEW jobs \in JobMaps, run \in [Jobs -> RunType],
           run' = [j \in Jobs |-> IF j \in DOMAIN jobs \ Running
                                  THEN NewRun(jobs[j]) ELSE run[j]]
    PROVE  QueueInv(q \o Saves(jobs), run')
<1> DEFINE t == Saves(jobs)
           a == q \o t
<1>0. \A j \in DOMAIN jobs \ Running :
         j \in Jobs /\ run[j].phase = "none" /\ run'[j].phase = "saving"
  BY DEF JobMaps, Running, NewRun
<1>1. QueueInv(q, run')
  <2> SUFFICES ASSUME NEW i \in DOMAIN q, q[i].kind \in Awaits, NEW j \in DOMAIN q[i].jobs
               PROVE  run'[j].phase = run[j].phase
    BY SameQueue
  <2>1. run[j].phase \in {"saving", "settling"}
    BY DEF QueueInv, RunsWait, Phase
  <2>2. j \in Jobs
    BY RequestFacts DEF QueueInv
  <2> QED
    BY <2>1, <2>2 DEF Running
<1>2. /\ t \in Seq(RequestType)
      /\ \A i \in DOMAIN t : t[i].kind = "save"
      /\ \A i \in DOMAIN t : \E j \in DOMAIN jobs \ Running : DOMAIN t[i].jobs = {j}
      /\ \A i, k \in DOMAIN t : i # k => DOMAIN t[i].jobs \cap DOMAIN t[k].jobs = {}
  BY SavesFacts
<1> HIDE DEF t
<1>3. /\ a \in Seq(RequestType) /\ Len(q) \in Nat
      /\ \A i \in DOMAIN q : i \in Nat /\ a[i] = q[i]
      /\ \A i \in DOMAIN a :
            \/ i \in DOMAIN q
            \/ /\ i - Len(q) \in DOMAIN t /\ i \in Nat
               /\ a[i] = t[i - Len(q)]
  BY <1>2, ConcatPlaces DEF QueueInv
<1> HIDE DEF a
<1>4. \A i \in DOMAIN q : q[i].kind \in Awaits =>
         \A j \in DOMAIN q[i].jobs : j \in Jobs /\ j \in Running
  <2> SUFFICES ASSUME NEW i \in DOMAIN q, q[i].kind \in Awaits, NEW j \in DOMAIN q[i].jobs
               PROVE  j \in Jobs /\ j \in Running
    OBVIOUS
  <2>1. run[j].phase \in {"saving", "settling"}
    BY DEF QueueInv, RunsWait, Phase
  <2>2. j \in Jobs
    BY RequestFacts DEF QueueInv
  <2> QED
    BY <2>1, <2>2 DEF Running
<1>5. OneScan(a)
  <2> SUFFICES ASSUME NEW i \in DOMAIN a, NEW k \in DOMAIN a,
                      a[i].kind = "scan", a[k].kind = "scan"
               PROVE  i = k
    BY DEF OneScan
  <2>1. i \in DOMAIN q /\ k \in DOMAIN q
    BY <1>2, <1>3
  <2> QED
    BY <1>3, <2>1 DEF QueueInv, OneScan
<1>6. RunsWait(a, run')
  <2> SUFFICES ASSUME NEW i \in DOMAIN a, a[i].kind \in Awaits, NEW j \in DOMAIN a[i].jobs
               PROVE  run'[j].phase = Phase(a[i].kind)
    BY DEF RunsWait
  <2>1. CASE i \in DOMAIN q
    BY <1>1, <1>3, <2>1 DEF QueueInv, RunsWait
  <2>2. CASE i - Len(q) \in DOMAIN t /\ a[i] = t[i - Len(q)]
    BY <1>0, <1>2, <2>2 DEF Phase
  <2> QED
    BY <1>3, <2>1, <2>2
<1>7. WaitOnce(a)
  <2> SUFFICES ASSUME NEW i \in DOMAIN a, NEW k \in DOMAIN a,
                      a[i].kind \in Awaits, a[k].kind \in Awaits, i # k,
                      NEW j \in DOMAIN a[i].jobs, j \in DOMAIN a[k].jobs
               PROVE  FALSE
    BY DEF WaitOnce
  <2>1. CASE i \in DOMAIN q /\ k \in DOMAIN q
    BY <1>3, <2>1 DEF QueueInv, WaitOnce
  <2>2. CASE i \notin DOMAIN q /\ k \notin DOMAIN q
    <3>1. i - Len(q) # k - Len(q)
      BY <1>3, <2>2
    <3> QED
      BY <1>2, <1>3, <2>2, <3>1
  <2>3. CASE i \in DOMAIN q /\ k \notin DOMAIN q
    BY <1>2, <1>3, <1>4, <2>3
  <2>4. CASE i \notin DOMAIN q /\ k \in DOMAIN q
    BY <1>2, <1>3, <1>4, <2>4
  <2> QED
    BY <2>1, <2>2, <2>3, <2>4
<1>8. AddsFlagged(a)
  BY <1>2, <1>3 DEF QueueInv, AddsFlagged
<1> QED
  BY <1>3, <1>5, <1>6, <1>7, <1>8 DEF QueueInv, a, t

\* What maybeStartJobs asks for, if anything.
LEMMA ScanFacts ==
    ASSUME NEW flag \in BOOLEAN, NEW q, NEW on, NEW running, NEW table \in [Jobs -> RowType],
           MaybeStartJobs(flag, q, on, running, table)
    PROVE  \/ asked' = q
           \/ \E e \in RequestType :
                 /\ asked' = Append(q, e) /\ e.kind = "scan"
                 /\ \A j \in DOMAIN e.jobs :
                       table[j].here /\ e.jobs[j] = table[j].attempts
                 /\ Cardinality(DOMAIN e.jobs) <= FreeSlots(running)
                 /\ FreeSlots(running) > 0 /\ ~Scanning(q)
<1>1. CASE ~Scans(q, on, running)
  BY <1>1 DEF MaybeStartJobs
<1>2. CASE Scans(q, on, running)
  <2>1. PICK S \in SUBSET Ready(table) :
          /\ Cardinality(S) <= FreeSlots(running)
          /\ asked' = Append(q, Request("scan", flag, [j \in S |-> table[j].attempts]))
    BY <1>2 DEF MaybeStartJobs
  <2> DEFINE m == [j \in S |-> table[j].attempts]
  <2>2. S \in SUBSET Jobs /\ \A j \in S : table[j].here /\ table[j].attempts \in Nat
    BY DEF Ready, RowType
  <2>3. m \in [S -> Nat] /\ DOMAIN m = S /\ \A j \in S : m[j] = table[j].attempts
    BY <2>2
  <2>4. m \in JobMaps
    BY <2>2, <2>3 DEF JobMaps
  <2>5. asked' = Append(q, Request("scan", flag, m))
    BY <2>1
  <2>6. FreeSlots(running) > 0 /\ ~Scanning(q)
    BY <1>2 DEF Scans
  <2> HIDE DEF m
  <2>7. /\ Request("scan", flag, m) \in RequestType
        /\ Request("scan", flag, m).kind = "scan"
        /\ Request("scan", flag, m).jobs = m
    BY <2>4 DEF Request, RequestType, Requests
  <2> QED
    BY <2>1, <2>2, <2>3, <2>5, <2>6, <2>7
<1> QED
  BY <1>1, <1>2

\* maybeStartJobs keeps the invariant of the queue.
LEMMA ScanQueue ==
    ASSUME NEW flag \in BOOLEAN, NEW q, NEW on, NEW running, NEW table \in [Jobs -> RowType],
           MaybeStartJobs(flag, q, on, running, table), NEW r, QueueInv(q, r)
    PROVE  QueueInv(asked', r)
<1>1. CASE asked' = q
  BY <1>1
<1>2. ASSUME NEW e \in RequestType, asked' = Append(q, e), e.kind = "scan", ~Scanning(q)
      PROVE  QueueInv(asked', r)
  BY <1>2, AppendQueue DEF Awaits
<1> QED
  BY <1>1, <1>2, ScanFacts
-----------------------------------------------------------------------------
\* The effects of the operations on a run and a row.

\* The types of the runs and rows that the operations write.
LEMMA Records ==
    /\ NoRun \in RunType /\ NoRun.phase = "none"
    /\ NoRow \in RowType /\ NoRow.active = FALSE /\ NoRow.here = FALSE
    /\ \A n \in Nat : NewRun(n) \in RunType /\ NewRun(n).phase = "saving"
    /\ \A n \in Nat : Row(TRUE, n, TRUE) \in RowType
    /\ \A n \in Nat : \A b \in BOOLEAN :
          Row(FALSE, n, b) \in RowType /\ Row(FALSE, n, b).active = FALSE
<1>1. NoRun \in RunType /\ NoRun.phase = "none"
  BY DEF NoRun, RunType
<1>2. NoRow \in RowType /\ NoRow.active = FALSE /\ NoRow.here = FALSE
  BY DEF NoRow, RowType
<1>3. ASSUME NEW n \in Nat
      PROVE  NewRun(n) \in RunType /\ NewRun(n).phase = "saving"
  BY JobManagerAssumption DEF NewRun, RunType
<1>4. ASSUME NEW n \in Nat PROVE Row(TRUE, n, TRUE) \in RowType
  BY DEF Row, RowType
<1>5. ASSUME NEW n \in Nat, NEW b \in BOOLEAN
      PROVE  Row(FALSE, n, b) \in RowType /\ Row(FALSE, n, b).active = FALSE
  BY DEF Row, RowType
<1> QED
  BY <1>1, <1>2, <1>3, <1>4, <1>5

\* startJob begins runs of jobs that do not run, and makes their rows active.
LEMMA StartJobsFacts ==
    ASSUME StateTypes, NEW jobs \in JobMaps, StartJobs(jobs)
    PROVE  /\ run' \in [Jobs -> RunType] /\ rows' \in [Jobs -> RowType]
           /\ tries' \in [Jobs -> Nat]
           /\ run' = [j \in Jobs |-> IF j \in DOMAIN jobs \ Running
                                     THEN NewRun(jobs[j]) ELSE run[j]]
           /\ Running' = Running \cup DOMAIN jobs
           /\ ActiveAt(run, rows) => ActiveAt(run', rows')
<1>0. DOMAIN jobs \subseteq Jobs /\ \A j \in DOMAIN jobs : jobs[j] \in Nat
  BY DEF JobMaps
<1>1. run' \in [Jobs -> RunType]
  BY <1>0, Records DEF StartJobs, StateTypes
<1>2. rows' \in [Jobs -> RowType]
  BY <1>0, Records DEF StartJobs, StateTypes
<1>3. tries' \in [Jobs -> Nat]
  <2>1. tries \in [Jobs -> Nat]
    BY DEF StateTypes
  <2>2. ASSUME NEW j \in Jobs PROVE tries[j] + 1 \in Nat /\ tries[j] + 0 \in Nat
    BY <2>1
  <2> DEFINE t(j) == tries[j] + IF j \in DOMAIN jobs \ Running THEN 1 ELSE 0
  <2>3. \A j \in Jobs : t(j) \in Nat
    BY <2>2
  <2>4. tries' = [j \in Jobs |-> t(j)]
    BY DEF StartJobs
  <2> HIDE DEF t
  <2> QED
    BY <2>3, <2>4
<1>4. ASSUME NEW j \in DOMAIN jobs \ Running
      PROVE  j \in Jobs /\ run'[j].phase = "saving"
  BY <1>0, Records DEF StartJobs
<1>5. ASSUME NEW j \in Jobs, j \notin DOMAIN jobs \ Running
      PROVE  run'[j] = run[j] /\ rows'[j] = rows[j]
  BY <1>5 DEF StartJobs
<1>6. Running' = Running \cup DOMAIN jobs
  BY <1>0, <1>4, <1>5 DEF Running
<1>7. ActiveAt(run, rows) => ActiveAt(run', rows')
  BY <1>4, <1>5 DEF ActiveAt
<1> QED
  BY <1>1, <1>2, <1>3, <1>6, <1>7 DEF StartJobs

\* A run ends: its row is removed or saved as inactive, and the run waits.
LEMMA SettleKeeps ==
    ASSUME IInv, NEW j \in Jobs, NEW row \in RowType, row.active = FALSE,
           NEW end \in {"wanted", "finished", "given up"}, Settle(j, row, end),
           enabled' \in BOOLEAN /\ paused' \in BOOLEAN,
           timer' \in {"none", "tick", "resume"}
    PROVE  IInv'
<1>0. StateTypes /\ QueueInv(asked, run) /\ ActiveAt(run, rows)
  BY DEF IInv, ActiveRuns, Dormant, Settle, Running
<1>1. run' \in [Jobs -> RunType] /\ rows' \in [Jobs -> RowType]
  BY <1>0 DEF Settle, StateTypes, RunType
<1>2. /\ run'[j].phase = "settling" /\ run[j].phase = "running"
      /\ \A x \in Jobs \ {j} : run'[x] = run[x] /\ rows'[x] = rows[x]
      /\ rows'[j] = row
  BY <1>0 DEF Settle, StateTypes, RunType
<1>3. Running' = Running
  BY <1>2 DEF Running
<1>4. fate' \in [Jobs -> {"none", "wanted", "finished", "given up", "cancelled"}]
  BY <1>0 DEF Settle, StateTypes
<1>5. StateTypes'
  BY <1>0, <1>1, <1>3, <1>4 DEF StateTypes, Settle
<1>6. QueueInv(asked', run')
  <2> DEFINE m == Of(j, 0)
             e == Request("settle", FALSE, m)
  <2>1. m \in JobMaps /\ DOMAIN m = {j}
    BY MapFacts
  <2> HIDE DEF m
  <2>2. e \in RequestType /\ e.kind = "settle" /\ e.jobs = m
    BY <2>1 DEF Request, RequestType, Requests
  <2>3. asked' = Append(asked, e)
    BY DEF Settle, m
  <2> HIDE DEF e
  <2>4. ASSUME NEW i \in DOMAIN asked, asked[i].kind \in Awaits
        PROVE  j \notin DOMAIN asked[i].jobs
    BY <1>0, <1>2, <2>4 DEF QueueInv, RunsWait, Phase
  <2>5. \A i \in DOMAIN asked : DOMAIN asked[i].jobs \subseteq Jobs
    BY <1>0, RequestFacts DEF QueueInv
  <2>6. QueueInv(asked, run')
    BY <1>0, <1>2, <2>4, <2>5, SameQueue
  <2>7. \A x \in DOMAIN e.jobs :
           /\ run'[x].phase = Phase(e.kind)
           /\ \A i \in DOMAIN asked :
                 asked[i].kind \in Awaits => x \notin DOMAIN asked[i].jobs
    BY <1>2, <2>1, <2>2, <2>4 DEF Phase
  <2>8. /\ e.kind = "scan" => ~Scanning(asked)
        /\ e.kind = "add" => e.flag \in {FALSE, Forces}
        /\ e.kind \in Awaits =>
              \A x \in DOMAIN e.jobs :
                 /\ run'[x].phase = Phase(e.kind)
                 /\ \A i \in DOMAIN asked :
                       asked[i].kind \in Awaits => x \notin DOMAIN asked[i].jobs
    BY <2>2, <2>7
  <2> DEFINE r == run'
  <2>10. QueueInv(asked, r) /\ e \in RequestType
    BY <2>2, <2>6
  <2>9. QueueInv(Append(asked, e), r)
    BY <2>8, <2>10, AppendQueue
  <2> QED
    BY <2>3, <2>9
<1>7. ActiveAt(run', rows')
  BY <1>0, <1>2 DEF ActiveAt
<1> QED
  BY <1>5, <1>6, <1>7 DEF IInv, ActiveRuns
-----------------------------------------------------------------------------
\* No scan appears when a request is answered or another one is made.
LEMMA ScanGone ==
    ASSUME NEW q \in Seq(RequestType), ~Scanning(q)
    PROVE  /\ q # <<>> => ~Scanning(Tail(q))
           /\ \A e \in RequestType : e.kind # "scan" => ~Scanning(Append(q, e))
<1>1. q # <<>> => ~Scanning(Tail(q))
  BY TailPlaces DEF Scanning
<1>2. ASSUME NEW e \in RequestType, e.kind # "scan"
      PROVE  ~Scanning(Append(q, e))
  BY <1>2, AppendPlaces DEF Scanning
<1> QED
  BY <1>1, <1>2

\* A step that keeps the runs and the active rows, and whose request, if any, is
\* for no run.
LEMMA QuietStep ==
    ASSUME IInv, StateTypes', QueueInv(asked', run'),
           \A j \in Jobs : run'[j].phase = run[j].phase,
           \A j \in Jobs : rows'[j].active => rows[j].active,
           Dormant => ~enabled' /\ timer' # "resume" /\ ~Scanning(asked')
    PROVE  IInv'
<1>1. Running' = Running
  BY DEF Running
<1>2. ActiveAt(run, rows) => ActiveAt(run', rows')
  BY DEF ActiveAt
<1>3. Dormant => Dormant'
  BY <1>1 DEF Dormant
<1> QED
  BY <1>2, <1>3 DEF IInv, ActiveRuns

\* A request that no run waits for joins the queue.
LEMMA AskFor ==
    ASSUME NEW q, NEW r, QueueInv(q, r), NEW m \in JobMaps,
           NEW kind \in {"mark", "add", "flush"}, NEW flag,
           flag \in BOOLEAN, kind = "add" => flag \in {FALSE, Forces}
    PROVE  /\ QueueInv(Append(q, Request(kind, flag, m)), r)
           /\ ~Scanning(q) => ~Scanning(Append(q, Request(kind, flag, m)))
<1> DEFINE e == Request(kind, flag, m)
<1>1. e \in RequestType /\ e.kind = kind /\ e.flag = flag
  BY DEF Request, RequestType, Requests
<1> HIDE DEF e
<1>2. e.kind # "scan" /\ e.kind \notin Awaits
  BY <1>1 DEF Awaits
<1>3. e.kind = "add" => e.flag \in {FALSE, Forces}
  BY <1>1
<1>4. QueueInv(Append(q, e), r)
  BY <1>1, <1>2, <1>3, AppendQueue
<1>5. q \in Seq(RequestType)
  BY DEF QueueInv
<1>6. ~Scanning(q) => ~Scanning(Append(q, e))
  BY <1>1, <1>2, <1>5, ScanGone
<1> QED
  BY <1>4, <1>6 DEF e

\* getNextJobs has answered.
LEMMA ScanReturnsKeeps == ASSUME IInv, ScanReturns PROVE IInv'
<1>0. StateTypes /\ QueueInv(asked, run)
  BY DEF IInv
<1>1. asked # <<>> /\ Answer.kind = "scan" /\ Answer = Head(asked)
  BY DEF ScanReturns, Answered, Answer
<1>2. /\ QueueInv(Tail(asked), run) /\ 1 \in DOMAIN asked /\ Answer = asked[1]
      /\ Answer \in RequestType
  BY <1>0, <1>1, TailQueue
<1>3. ActiveAt(run, rows)
  BY <1>1, <1>2 DEF IInv, ActiveRuns, Dormant, Scanning
<1>4. PICK jobs \in JobMaps :
         /\ StartJobs(jobs)
         /\ IF Answer.flag
            THEN Tick(Tail(asked) \o Saves(jobs), enabled, Running', rows')
            ELSE asked' = Tail(asked) \o Saves(jobs) /\ UNCHANGED timer
  <2>1. PICK hold \in {FALSE, Holds} :
          LET jobs == IF hold THEN Nothing ELSE Answer.jobs IN
          /\ StartJobs(jobs)
          /\ IF Answer.flag
             THEN Tick(Tail(asked) \o Saves(jobs), enabled, Running', rows')
             ELSE asked' = Tail(asked) \o Saves(jobs) /\ UNCHANGED timer
    BY DEF ScanReturns
  <2>2. Nothing \in JobMaps /\ Answer.jobs \in JobMaps
    BY <1>2, MapFacts DEF RequestType
  <2> QED
    BY <2>1, <2>2
<1>5. /\ run' \in [Jobs -> RunType] /\ rows' \in [Jobs -> RowType]
      /\ tries' \in [Jobs -> Nat]
      /\ run' = [j \in Jobs |-> IF j \in DOMAIN jobs \ Running
                                THEN NewRun(jobs[j]) ELSE run[j]]
      /\ Running' = Running \cup DOMAIN jobs
      /\ ActiveAt(run', rows')
  BY <1>0, <1>3, <1>4, StartJobsFacts
<1>6. QueueInv(Tail(asked) \o Saves(jobs), run')
  BY <1>0, <1>2, <1>5, SavesQueue DEF StateTypes
<1>7. QueueInv(asked', run') /\ timer' \in {"none", "tick", "resume"}
  <2>1. CASE Answer.flag
    <3> DEFINE q == Tail(asked) \o Saves(jobs)
               r == run'
               table == rows'
               running == Running'
    <3>1. MaybeStartJobs(FALSE, q, enabled, running, table) /\ timer' = "tick"
      BY <1>4, <2>1 DEF Tick
    <3>2. QueueInv(q, r) /\ table \in [Jobs -> RowType]
      BY <1>5, <1>6
    <3> HIDE DEF q, r, table, running
    <3>3. QueueInv(asked', r)
      BY <3>1, <3>2, ScanQueue
    <3> QED
      BY <3>1, <3>3 DEF r
  <2>2. CASE ~Answer.flag
    BY <1>0, <1>4, <1>6, <2>2 DEF StateTypes
  <2> QED
    BY <2>1, <2>2
<1>8. waiting' \in BOOLEAN
  BY <1>0 DEF ScanReturns, StateTypes
<1>9. StateTypes'
  <2>1. awaited' = awaited /\ cancelling' = cancelling /\ batched' = batched
    BY DEF ScanReturns
  <2>2. enabled' = enabled /\ paused' = paused /\ fate' = fate
    BY DEF ScanReturns
  <2> QED
    BY <1>0, <1>5, <1>7, <1>8, <2>1, <2>2 DEF StateTypes
<1> QED
  BY <1>5, <1>7, <1>9 DEF IInv, ActiveRuns

\* saveJob has answered an add.
LEMMA AddReturnsKeeps == ASSUME IInv, AddReturns PROVE IInv'
<1>0. StateTypes /\ QueueInv(asked, run)
  BY DEF IInv
<1>1. asked # <<>> /\ Answer.kind = "add" /\ Answer = Head(asked)
  BY DEF AddReturns, Answered, Answer
<1>2. /\ QueueInv(Tail(asked), run) /\ Answer \in RequestType
  BY <1>0, <1>1, TailQueue
<1>3. /\ awaited' = awaited /\ cancelling' = cancelling /\ batched' = batched
      /\ enabled' = enabled /\ paused' = paused /\ fate' = fate
      /\ timer' = timer /\ waiting' = waiting
  BY DEF AddReturns, manager
<1>4. CASE Answer.flag /\ enabled
  <2> DEFINE jobs == Answer.jobs
  <2>1. /\ StartJobs(jobs) /\ asked' = Tail(asked) \o Saves(jobs)
    BY <1>4 DEF AddReturns
  <2>2. jobs \in JobMaps
    BY <1>2 DEF RequestType
  <2>3. ActiveAt(run, rows)
    BY <1>4 DEF IInv, ActiveRuns, Dormant
  <2> HIDE DEF jobs
  <2>4. /\ run' \in [Jobs -> RunType] /\ rows' \in [Jobs -> RowType]
        /\ tries' \in [Jobs -> Nat]
        /\ run' = [j \in Jobs |-> IF j \in DOMAIN jobs \ Running
                                  THEN NewRun(jobs[j]) ELSE run[j]]
        /\ Running' = Running \cup DOMAIN jobs
        /\ ActiveAt(run', rows')
    BY <1>0, <2>1, <2>2, <2>3, StartJobsFacts
  <2>5. QueueInv(Tail(asked) \o Saves(jobs), run')
    BY <1>0, <1>2, <2>2, <2>4, SavesQueue DEF StateTypes
  <2>6. QueueInv(asked', run')
    BY <2>1, <2>5
  <2>7. StateTypes'
    BY <1>0, <1>3, <2>4 DEF StateTypes
  <2> QED
    BY <2>4, <2>6, <2>7 DEF IInv, ActiveRuns
<1>5. CASE ~(Answer.flag /\ enabled)
  <2> DEFINE on == enabled /\ ~Answer.flag
             q == Tail(asked)
  <2>1. /\ MaybeStartJobs(FALSE, q, on, Running, rows)
        /\ run' = run /\ rows' = rows /\ tries' = tries
    BY <1>5 DEF AddReturns
  <2>2. QueueInv(q, run) /\ rows \in [Jobs -> RowType]
    BY <1>0, <1>2 DEF StateTypes
  <2>3. ~Scanning(asked) => ~Scanning(q)
    BY <1>0, <1>1, ScanGone DEF QueueInv
  <2>4. ~enabled => ~on
    OBVIOUS
  <2> HIDE DEF on, q
  <2>5. QueueInv(asked', run')
    BY <2>1, <2>2, ScanQueue
  <2>6. StateTypes'
    BY <1>0, <1>3, <2>1 DEF StateTypes, Running
  <2>7. Dormant => ~Scanning(asked')
    <3> SUFFICES ASSUME Dormant PROVE ~Scanning(asked')
      OBVIOUS
    <3>1. ~on /\ ~Scanning(q)
      BY <2>3, <2>4 DEF Dormant
    <3>2. asked' = q
      BY <2>1, <3>1 DEF MaybeStartJobs, Scans
    <3> QED
      BY <3>1, <3>2 DEF Scanning
  <2> QED
    BY <1>3, <2>1, <2>5, <2>6, <2>7, QuietStep DEF Dormant
<1> QED
  BY <1>4, <1>5

\* An operation that only calls maybeStartJobs, or that and #tick.
LEMMA OnlyScans ==
    ASSUME IInv, NEW q, q = asked \/ (asked # <<>> /\ q = Tail(asked)), NEW flag \in BOOLEAN,
           NEW on, ~enabled /\ timer # "resume" => ~on, MaybeStartJobs(flag, q, on, Running, rows),
           timer' \in {timer, "tick"}, waiting' \in BOOLEAN, paused' \in BOOLEAN,
           enabled' => enabled \/ on, enabled' \in BOOLEAN,
           batched' \subseteq Jobs, tries' \in [Jobs -> Nat],
           fate' \in [Jobs -> {"none", "wanted", "finished", "given up", "cancelled"}],
           UNCHANGED <<awaited, cancelling, run, rows>>
    PROVE  IInv'
<1>0. StateTypes /\ QueueInv(asked, run)
  BY DEF IInv
<1>1. QueueInv(q, run) /\ (~Scanning(asked) => ~Scanning(q))
  <2>1. asked \in Seq(RequestType)
    BY <1>0 DEF QueueInv
  <2>2. CASE asked # <<>> /\ q = Tail(asked)
    BY <1>0, <2>1, <2>2, TailQueue, ScanGone
  <2> QED
    BY <1>0, <2>2
<1>2. rows \in [Jobs -> RowType]
  BY <1>0 DEF StateTypes
<1>3. QueueInv(asked', run')
  <2>1. QueueInv(asked', run)
    BY <1>1, <1>2, ScanQueue
  <2> QED
    BY <2>1
<1>4. StateTypes'
  <2>1. Running' = Running /\ run' = run /\ rows' = rows
    BY DEF Running
  <2>2. timer' \in {"none", "tick", "resume"}
    BY <1>0 DEF StateTypes
  <2> QED
    BY <1>0, <2>1, <2>2 DEF StateTypes
<1>5. Dormant => ~enabled' /\ timer' # "resume" /\ ~Scanning(asked')
  <2> SUFFICES ASSUME Dormant PROVE ~enabled' /\ timer' # "resume" /\ ~Scanning(asked')
    OBVIOUS
  <2>1. ~on /\ ~enabled /\ timer # "resume" /\ ~Scanning(q)
    BY <1>1 DEF Dormant
  <2>2. asked' = q
    BY <2>1 DEF MaybeStartJobs, Scans
  <2> QED
    BY <2>1, <2>2 DEF Scanning
<1> QED
  BY <1>3, <1>4, <1>5, QuietStep

\* The operations that only call maybeStartJobs, or that and #tick.
LEMMA ScansKeep ==
    ASSUME IInv,
           \/ StartEnabled \/ StartMarked \/ WaitForIdle \/ TickFires \/ PauseEnds
           \/ FlushReturns \/ \E j \in Jobs : AddBatched(j)
    PROVE  IInv'
<1>0. /\ waiting \in BOOLEAN /\ paused \in BOOLEAN /\ enabled \in BOOLEAN
      /\ batched \subseteq Jobs /\ tries \in [Jobs -> Nat]
      /\ fate \in [Jobs -> {"none", "wanted", "finished", "given up", "cancelled"}]
  BY DEF IInv, StateTypes
<1>1. CASE StartEnabled
  <2>1. /\ MaybeStartJobs(TRUE, asked, enabled, Running, rows)
        /\ timer' \in {timer, "tick"}
        /\ UNCHANGED <<enabled, awaited, cancelling, batched, waiting, run, rows,
                       fate, tries, paused>>
    BY <1>1 DEF StartEnabled, StartScans
  <2> QED
    BY <1>0, <2>1, OnlyScans
<1>2. CASE StartMarked
  <2>1. /\ MaybeStartJobs(TRUE, Tail(asked), enabled, Running, rows)
        /\ timer' \in {timer, "tick"} /\ asked # <<>>
        /\ UNCHANGED <<enabled, awaited, cancelling, batched, waiting, run, rows,
                       fate, tries, paused>>
    BY <1>2 DEF StartMarked, StartScans, Answered
  <2> QED
    BY <1>0, <2>1, OnlyScans
<1>3. CASE WaitForIdle
  <2>1. /\ MaybeStartJobs(FALSE, asked, enabled, Running, rows)
        /\ timer' = "tick" /\ waiting' = TRUE
        /\ UNCHANGED <<enabled, awaited, cancelling, batched, run, rows,
                       fate, tries, paused>>
    BY <1>3 DEF WaitForIdle, Tick
  <2> QED
    BY <1>0, <2>1, OnlyScans
<1>4. CASE TickFires
  <2>1. /\ MaybeStartJobs(FALSE, asked, enabled, Running, rows)
        /\ timer' = "tick"
        /\ UNCHANGED <<enabled, awaited, cancelling, batched, waiting, run, rows,
                       fate, tries, paused>>
    BY <1>4 DEF TickFires, Tick
  <2> QED
    BY <1>0, <2>1, OnlyScans
<1>5. CASE PauseEnds
  <2>1. /\ MaybeStartJobs(FALSE, asked, TRUE, Running, rows)
        /\ timer = "resume" /\ timer' = "tick" /\ enabled' = TRUE /\ paused' = FALSE
        /\ UNCHANGED <<awaited, cancelling, batched, waiting, run, rows, fate, tries>>
    BY <1>5 DEF PauseEnds, Tick
  <2> QED
    BY <1>0, <2>1, OnlyScans
<1>6. CASE FlushReturns
  <2>1. /\ MaybeStartJobs(FALSE, Tail(asked), enabled, Running, rows) /\ asked # <<>>
        /\ UNCHANGED <<enabled, timer, awaited, cancelling, batched, waiting, run, rows,
                       fate, tries, paused>>
    BY <1>6 DEF FlushReturns, Answered, manager
  <2> QED
    BY <1>0, <2>1, OnlyScans
<1>7. CASE \E j \in Jobs : AddBatched(j)
  <2>1. PICK j \in Jobs : AddBatched(j)
    BY <1>7
  <2>2. /\ MaybeStartJobs(FALSE, asked, enabled, Running, rows)
        /\ fate' = [fate EXCEPT ![j] = "wanted"]
        /\ tries' = [tries EXCEPT ![j] = IF j \in Running THEN 1 ELSE 0]
        /\ batched' = batched \cup {j}
        /\ UNCHANGED <<enabled, timer, awaited, cancelling, waiting, run, rows, paused>>
    BY <2>1 DEF AddBatched, Asks
  <2>3. fate' \in [Jobs -> {"none", "wanted", "finished", "given up", "cancelled"}]
    BY <1>0, <2>2
  <2>4. tries' \in [Jobs -> Nat]
    BY <1>0, <2>2
  <2> QED
    BY <1>0, <2>2, <2>3, <2>4, OnlyScans
<1> QED
  BY <1>1, <1>2, <1>3, <1>4, <1>5, <1>6, <1>7

\* saveJob has answered at the start of a run.
LEMMA RunJobKeeps == ASSUME IInv, NEW j \in Jobs, RunJob(j) PROVE IInv'
<1>0. StateTypes /\ QueueInv(asked, run)
  BY DEF IInv
<1>1. /\ asked # <<>> /\ Answer.kind = "save" /\ Answer = Head(asked)
      /\ j \in DOMAIN Answer.jobs
      /\ asked' = Tail(asked) /\ run' = [run EXCEPT ![j].phase = "running"]
      /\ UNCHANGED <<manager, rows, fate, tries, paused, spent>>
  BY DEF RunJob, Answered, Answer
<1>2. /\ QueueInv(Tail(asked), run)
      /\ \A x \in DOMAIN Answer.jobs : run[x].phase = "saving"
      /\ \A i \in DOMAIN Tail(asked) : Tail(asked)[i].kind \in Awaits =>
            DOMAIN Answer.jobs \cap DOMAIN Tail(asked)[i].jobs = {}
  BY <1>0, <1>1, TailQueue DEF Awaits, Phase
<1>3. run' \in [Jobs -> RunType]
  BY <1>0, <1>1 DEF StateTypes, RunType
<1>4. /\ run'[j].phase = "running" /\ run[j].phase = "saving"
      /\ \A x \in Jobs \ {j} : run'[x] = run[x]
  BY <1>0, <1>1, <1>2 DEF StateTypes, RunType
<1>5. Running' = Running
  BY <1>4 DEF Running
<1>6. StateTypes'
  BY <1>0, <1>1, <1>3, <1>5 DEF StateTypes, manager
<1>7. QueueInv(asked', run')
  <2> DEFINE q == Tail(asked)
  <2>1. q \in Seq(RequestType)
    BY <1>2 DEF QueueInv
  <2>2. ASSUME NEW i \in DOMAIN q, q[i].kind \in Awaits, NEW x \in DOMAIN q[i].jobs
        PROVE  run'[x].phase = run[x].phase
    <3>1. x \in Jobs
      BY <2>1, RequestFacts
    <3>2. x # j
      BY <1>1, <1>2, <2>2
    <3> QED
      BY <1>4, <3>1, <3>2
  <2>3. QueueInv(q, run)
    BY <1>2
  <2> HIDE DEF q
  <2>4. QueueInv(q, run')
    BY <2>2, <2>3, SameQueue
  <2> QED
    BY <1>1, <2>4 DEF q
<1>8. ActiveAt(run, rows)
  BY <1>0, <1>4 DEF IInv, ActiveRuns, Dormant, Running
<1>9. ActiveAt(run', rows')
  BY <1>1, <1>4, <1>8 DEF ActiveAt
<1> QED
  BY <1>6, <1>7, <1>9 DEF IInv, ActiveRuns

\* saveJob or removeJob has answered at the end of a run.
LEMMA CloseKeeps == ASSUME IInv, NEW j \in Jobs, Close(j) PROVE IInv'
<1>0. StateTypes /\ QueueInv(asked, run)
  BY DEF IInv
<1>1. /\ asked # <<>> /\ Answer.kind = "settle" /\ Answer = Head(asked)
      /\ j \in DOMAIN Answer.jobs
      /\ run' = [run EXCEPT ![j] = NoRun]
      /\ awaited' = awaited \ {j} /\ cancelling' = cancelling \ {j}
      /\ MaybeStartJobs(FALSE, Tail(asked), enabled, Running \ {j}, rows)
      /\ rows' = rows \/ rows' = [rows EXCEPT ![j] = NoRow]
      /\ fate' = fate \/ fate' = [fate EXCEPT ![j] = "cancelled"]
      /\ UNCHANGED <<enabled, timer, batched, waiting, tries, paused, spent>>
  BY DEF Close, Answered, Answer
<1>2. /\ QueueInv(Tail(asked), run)
      /\ \A x \in DOMAIN Answer.jobs : run[x].phase = "settling"
      /\ \A i \in DOMAIN Tail(asked) : Tail(asked)[i].kind \in Awaits =>
            DOMAIN Answer.jobs \cap DOMAIN Tail(asked)[i].jobs = {}
  <2>1. "settle" \in Awaits /\ Phase("settle") = "settling"
    BY DEF Awaits, Phase
  <2>2. asked # <<>> /\ Head(asked).kind = "settle" /\ Head(asked) = Answer
    BY <1>1
  <2>3. /\ QueueInv(Tail(asked), run)
        /\ Head(asked).kind \in Awaits =>
              /\ \A x \in DOMAIN Head(asked).jobs :
                    run[x].phase = Phase(Head(asked).kind)
              /\ \A i \in DOMAIN Tail(asked) : Tail(asked)[i].kind \in Awaits =>
                    DOMAIN Head(asked).jobs \cap DOMAIN Tail(asked)[i].jobs = {}
    BY <1>0, <2>2, TailQueue
  <2> QED
    BY <2>1, <2>2, <2>3
<1>3. run' \in [Jobs -> RunType] /\ rows' \in [Jobs -> RowType]
  BY <1>0, <1>1, Records DEF StateTypes
<1>4. /\ run'[j] = NoRun /\ run[j].phase = "settling"
      /\ \A x \in Jobs \ {j} : run'[x] = run[x] /\ rows'[x] = rows[x]
      /\ rows'[j] = rows[j] \/ rows'[j] = NoRow
  BY <1>0, <1>1, <1>2 DEF StateTypes
<1>5. Running' = Running \ {j}
  BY <1>4, Records DEF Running
<1>6. fate' \in [Jobs -> {"none", "wanted", "finished", "given up", "cancelled"}]
  BY <1>0, <1>1 DEF StateTypes
<1>7. StateTypes'
  BY <1>0, <1>1, <1>3, <1>5, <1>6 DEF StateTypes
<1>8. QueueInv(asked', run')
  <2> DEFINE q == Tail(asked)
             r == run'
             running == Running \ {j}
  <2>1. q \in Seq(RequestType)
    BY <1>2 DEF QueueInv
  <2>2. ASSUME NEW i \in DOMAIN q, q[i].kind \in Awaits, NEW x \in DOMAIN q[i].jobs
        PROVE  r[x].phase = run[x].phase
    <3>1. x \in Jobs
      BY <2>1, RequestFacts
    <3>2. x # j
      BY <1>1, <1>2, <2>2
    <3> QED
      BY <1>4, <3>1, <3>2
  <2>3. QueueInv(q, run) /\ MaybeStartJobs(FALSE, q, enabled, running, rows)
    BY <1>1, <1>2
  <2>4. rows \in [Jobs -> RowType]
    BY <1>0 DEF StateTypes
  <2> HIDE DEF q, r, running
  <2>5. QueueInv(q, r)
    BY <2>2, <2>3, SameQueue
  <2>6. QueueInv(asked', r)
    BY <2>3, <2>4, <2>5, ScanQueue
  <2> QED
    BY <2>6 DEF r
<1>9. ActiveAt(run, rows)
  BY <1>0, <1>4 DEF IInv, ActiveRuns, Dormant, Running
<1>10. ActiveAt(run', rows')
  BY <1>4, <1>9, Records DEF ActiveAt
<1> QED
  BY <1>7, <1>8, <1>10 DEF IInv, ActiveRuns

\* A run ends, in whichever way.
LEMMA RunEndsKeeps == ASSUME IInv, NEW j \in Jobs, RunEnds(j) PROVE IInv'
<1>0. /\ enabled \in BOOLEAN /\ paused \in BOOLEAN
      /\ timer \in {"none", "tick", "resume"} /\ run[j].attempts + 1 \in Nat
  <2>1. run[j] \in RunType
    BY DEF IInv, StateTypes
  <2>2. run[j].attempts \in Nat
    BY <2>1 DEF RunType
  <2>3. run[j].attempts + 1 \in Nat
    BY <2>2
  <2>4. /\ enabled \in BOOLEAN /\ paused \in BOOLEAN
        /\ timer \in {"none", "tick", "resume"}
    BY DEF IInv, StateTypes
  <2> QED
    BY <2>3, <2>4
<1>1. /\ NoRow \in RowType /\ NoRow.active = FALSE
      /\ \A due \in BOOLEAN : Retry(j, due) \in RowType /\ Retry(j, due).active = FALSE
  BY <1>0, Records DEF Retry
<1>2. CASE Finish(j)
  BY <1>0, <1>1, <1>2, SettleKeeps DEF Finish
<1>3. CASE Fail(j)
  BY <1>0, <1>1, <1>3, SettleKeeps DEF Fail
<1>4. CASE Update(j)
  <2>1. run[j].first \in BOOLEAN
    BY DEF IInv, StateTypes, RunType
  <2>2. Retry(j, run[j].first) \in RowType /\ Retry(j, run[j].first).active = FALSE
    BY <1>1, <2>1
  <2> QED
    BY <1>0, <1>4, <2>2, SettleKeeps DEF Update
<1>5. CASE RateLimit(j)
  BY <1>0, <1>1, <1>5, SettleKeeps DEF RateLimit
<1> QED
  BY <1>2, <1>3, <1>4, <1>5 DEF RunEnds

\* start(), a batch and an add make their requests.
LEMMA RequestsKeep ==
    ASSUME IInv, StartDisabled \/ Flush \/ \E j \in Jobs : AddJob(j)
    PROVE  IInv'
<1>0. StateTypes /\ QueueInv(asked, run)
  BY DEF IInv
<1>1. CASE StartDisabled
  <2>1. /\ enabled' = TRUE /\ paused' = FALSE /\ rows' = MarkedInactive(rows)
        /\ asked' = Append(asked, Request("mark", TRUE, Nothing))
        /\ UNCHANGED <<timer, awaited, cancelling, batched, waiting, run, fate, tries>>
    BY <1>1 DEF StartDisabled
  <2>2. rows' \in [Jobs -> RowType] /\ \A x \in Jobs : ~rows'[x].active
    BY <1>0, <2>1 DEF MarkedInactive, StateTypes, RowType
  <2>3. QueueInv(asked', run)
    BY <1>0, <2>1, MapFacts, AskFor
  <2>4. QueueInv(asked', run')
    BY <2>1, <2>3
  <2>5. StateTypes'
    BY <1>0, <2>1, <2>2 DEF StateTypes, Running
  <2>6. ActiveAt(run', rows')
    BY <2>2 DEF ActiveAt
  <2> QED
    BY <2>4, <2>5, <2>6 DEF IInv, ActiveRuns
<1>2. CASE Flush
  <2>1. /\ batched' = {}
        /\ rows' = [j \in Jobs |-> IF j \in batched THEN Row(FALSE, 0, TRUE) ELSE rows[j]]
        /\ asked' = Append(asked, Request("flush", FALSE, Nothing))
        /\ UNCHANGED <<enabled, timer, awaited, cancelling, waiting, run, fate, tries, paused>>
    BY <1>2 DEF Flush
  <2>2. Row(FALSE, 0, TRUE) \in RowType /\ Row(FALSE, 0, TRUE).active = FALSE
    BY DEF Row, RowType
  <2>3. rows' \in [Jobs -> RowType] /\ \A x \in Jobs : rows'[x].active => rows[x].active
    BY <1>0, <2>1, <2>2 DEF StateTypes
  <2>4. QueueInv(asked', run) /\ (~Scanning(asked) => ~Scanning(asked'))
    BY <1>0, <2>1, MapFacts, AskFor
  <2>5. QueueInv(asked', run')
    BY <2>1, <2>4
  <2>6. StateTypes'
    BY <1>0, <2>1, <2>3 DEF StateTypes, Running
  <2> QED
    BY <2>1, <2>3, <2>4, <2>5, <2>6, QuietStep DEF Dormant
<1>3. CASE \E j \in Jobs : AddJob(j)
  <2>1. PICK j \in Jobs : AddJob(j)
    BY <1>3
  <2>2. /\ rows' = [rows EXCEPT ![j] = Row(FALSE, 0, TRUE)]
        /\ fate' = [fate EXCEPT ![j] = "wanted"]
        /\ tries' = [tries EXCEPT ![j] = IF j \in Running THEN 1 ELSE 0]
        /\ UNCHANGED <<enabled, timer, awaited, cancelling, waiting, paused, run, batched>>
    BY <2>1 DEF AddJob, Asks
  <2>3. PICK force \in {FALSE, Forces} : asked' = Append(asked, Request("add", force, Of(j, 0)))
    BY <2>1 DEF AddJob
  <2>4. Row(FALSE, 0, TRUE) \in RowType /\ Row(FALSE, 0, TRUE).active = FALSE
    BY DEF Row, RowType
  <2>5. rows' \in [Jobs -> RowType] /\ \A x \in Jobs : rows'[x].active => rows[x].active
    BY <1>0, <2>2, <2>4 DEF StateTypes
  <2>6. fate' \in [Jobs -> {"none", "wanted", "finished", "given up", "cancelled"}]
    BY <1>0, <2>2 DEF StateTypes
  <2>7. tries' \in [Jobs -> Nat]
    BY <1>0, <2>2 DEF StateTypes
  <2>8. Forces \in BOOLEAN /\ Of(j, 0) \in JobMaps
    BY MapFacts, JobManagerAssumption
  <2>9. QueueInv(asked', run) /\ (~Scanning(asked) => ~Scanning(asked'))
    BY <1>0, <2>3, <2>8, AskFor
  <2>10. QueueInv(asked', run')
    BY <2>2, <2>9
  <2>11. StateTypes'
    BY <1>0, <2>2, <2>5, <2>6, <2>7 DEF StateTypes, Running
  <2> QED
    BY <2>2, <2>5, <2>9, <2>10, <2>11, QuietStep DEF Dormant
<1> QED
  BY <1>1, <1>2, <1>3

\* The steps that make no request and read no answer.
LEMMA OthersKeep ==
    ASSUME IInv,
           Stop \/ \E j \in Jobs : BackoffEnds(j) \/ AddRunning(j) \/ Cancel(j) \/ CancelGivesUp(j)
    PROVE  IInv'
<1>0. StateTypes /\ QueueInv(asked, run)
  BY DEF IInv
<1>1. CASE Stop
  <2>1. /\ enabled' = FALSE /\ timer' = "none" /\ paused' = FALSE
        /\ awaited' = awaited \cup Running
        /\ UNCHANGED <<cancelling, batched, waiting, run, asked, rows, fate, tries>>
    BY <1>1 DEF Stop
  <2>2. StateTypes'
    BY <1>0, <2>1 DEF StateTypes, Running
  <2>3. QueueInv(asked', run')
    BY <1>0, <2>1
  <2> QED
    BY <2>1, <2>2, <2>3, QuietStep DEF Dormant, Scanning
<1>2. ASSUME NEW j \in Jobs, BackoffEnds(j) PROVE IInv'
  <2>1. /\ rows' = [rows EXCEPT ![j].due = TRUE]
        /\ UNCHANGED <<enabled, timer, awaited, cancelling, batched, waiting, run, asked,
                       fate, tries, paused>>
    BY <1>2 DEF BackoffEnds, manager
  <2>2. rows' \in [Jobs -> RowType] /\ \A x \in Jobs : rows'[x].active => rows[x].active
    BY <1>0, <2>1 DEF StateTypes, RowType
  <2>3. StateTypes' /\ QueueInv(asked', run')
    BY <1>0, <2>1, <2>2 DEF StateTypes, Running
  <2> QED
    BY <2>1, <2>2, <2>3, QuietStep DEF Dormant, Scanning
<1>3. ASSUME NEW j \in Jobs, AddRunning(j) PROVE IInv'
  <2>1. /\ run' = [run EXCEPT ![j].attempts = 0]
        /\ fate' = [fate EXCEPT ![j] = "wanted"]
        /\ tries' = [tries EXCEPT ![j] = IF j \in Running THEN 1 ELSE 0]
        /\ UNCHANGED <<enabled, timer, awaited, cancelling, waiting, paused, rows, asked, batched>>
    BY <1>3 DEF AddRunning, Asks
  <2>2. run' \in [Jobs -> RunType] /\ \A x \in Jobs : run'[x].phase = run[x].phase
    BY <1>0, <2>1 DEF StateTypes, RunType
  <2>3. fate' \in [Jobs -> {"none", "wanted", "finished", "given up", "cancelled"}]
    BY <1>0, <2>1 DEF StateTypes
  <2>4. tries' \in [Jobs -> Nat]
    BY <1>0, <2>1 DEF StateTypes
  <2>5. Running' = Running
    BY <2>2 DEF Running
  <2>6. StateTypes'
    BY <1>0, <2>1, <2>2, <2>3, <2>4, <2>5 DEF StateTypes
  <2>7. \A i \in DOMAIN asked : DOMAIN asked[i].jobs \subseteq Jobs
    BY <1>0, RequestFacts DEF QueueInv
  <2>8. QueueInv(asked, run')
    BY <1>0, <2>2, <2>7, SameQueue
  <2>9. QueueInv(asked', run')
    BY <2>1, <2>8
  <2> QED
    BY <2>1, <2>2, <2>6, <2>9, QuietStep DEF Dormant, Scanning
<1>4. ASSUME NEW j \in Jobs, Cancel(j) PROVE IInv'
  <2>1. /\ cancelling' = cancelling \cup {j} /\ j \in Running
        /\ UNCHANGED <<enabled, timer, awaited, batched, waiting, run, asked, rows, fate,
                       tries, paused>>
    BY <1>4 DEF Cancel
  <2>2. StateTypes' /\ QueueInv(asked', run')
    BY <1>0, <2>1 DEF StateTypes, Running
  <2> QED
    BY <2>1, <2>2, QuietStep DEF Dormant, Scanning
<1>5. ASSUME NEW j \in Jobs, CancelGivesUp(j) PROVE IInv'
  <2>1. /\ cancelling' = cancelling \ {j}
        /\ rows' = [rows EXCEPT ![j] = NoRow]
        /\ fate' = [fate EXCEPT ![j] = "cancelled"]
        /\ UNCHANGED <<enabled, timer, awaited, batched, waiting, run, asked, tries, paused>>
    BY <1>5 DEF CancelGivesUp
  <2>2. rows' \in [Jobs -> RowType] /\ \A x \in Jobs : rows'[x].active => rows[x].active
    BY <1>0, <2>1, Records DEF StateTypes
  <2>3. fate' \in [Jobs -> {"none", "wanted", "finished", "given up", "cancelled"}]
    BY <1>0, <2>1 DEF StateTypes
  <2>4. StateTypes' /\ QueueInv(asked', run')
    BY <1>0, <2>1, <2>2, <2>3 DEF StateTypes, Running
  <2> QED
    BY <2>1, <2>2, <2>4, QuietStep DEF Dormant, Scanning
<1> QED
  BY <1>1, <1>2, <1>3, <1>4, <1>5

\* The queue of a process that has just begun is empty.
LEMMA EmptyQueue == ASSUME NEW r PROVE QueueInv(<<>>, r)
BY DEF QueueInv, OneScan, RunsWait, WaitOnce, AddsFlagged

\* The process dies: rows may stay active, and the manager is dormant.
LEMMA CrashKeeps == ASSUME IInv, Crash PROVE IInv'
<1>1. /\ enabled' = FALSE /\ timer' = "none" /\ asked' = <<>>
      /\ run' = [j \in Jobs |-> NoRun] /\ awaited' = {} /\ cancelling' = {}
      /\ batched' = {} /\ waiting' = FALSE /\ paused' = FALSE
      /\ UNCHANGED <<rows, fate, tries>>
  BY DEF Crash
<1>2. run' \in [Jobs -> RunType] /\ Running' = {}
  BY <1>1, Records DEF Running
<1>3. StateTypes'
  BY <1>1, <1>2 DEF IInv, StateTypes
<1>4. QueueInv(asked', run') /\ ~Scanning(asked')
  BY <1>1, EmptyQueue DEF Scanning
<1> QED
  BY <1>1, <1>2, <1>3, <1>4 DEF IInv, ActiveRuns, Dormant

\* The invariant holds of an empty table.
LEMMA Initially == Init => IInv
<1> SUFFICES ASSUME Init PROVE IInv
  OBVIOUS
<1>1. /\ enabled = FALSE /\ timer = "none" /\ asked = <<>>
      /\ run = [j \in Jobs |-> NoRun] /\ awaited = {} /\ cancelling = {}
      /\ batched = {} /\ waiting = FALSE /\ paused = FALSE
      /\ rows = [j \in Jobs |-> NoRow]
      /\ fate = [j \in Jobs |-> "none"] /\ tries = [j \in Jobs |-> 0]
  BY DEF Init, InitProcess
<1>2. run \in [Jobs -> RunType] /\ Running = {} /\ rows \in [Jobs -> RowType]
  BY <1>1, Records DEF Running
<1>3. StateTypes
  BY <1>1, <1>2 DEF StateTypes
<1>4. QueueInv(asked, run) /\ ~Scanning(asked)
  BY <1>1, EmptyQueue DEF Scanning
<1> QED
  BY <1>1, <1>2, <1>3, <1>4 DEF IInv, ActiveRuns, Dormant

\* Every step preserves the invariant.
LEMMA Inductive == IInv /\ [Next]_vars => IInv'
<1> SUFFICES ASSUME IInv, [Next]_vars PROVE IInv'
  OBVIOUS
<1>1. CASE Answers
  BY <1>1, ScanReturnsKeeps, AddReturnsKeeps, ScansKeep, RunJobKeeps,
     CloseKeeps DEF Answers
<1>2. CASE StartEnabled \/ WaitForIdle \/ TickFires \/ PauseEnds
  BY <1>2, ScansKeep
<1>3. CASE StartDisabled \/ Flush
  BY <1>3, RequestsKeep
<1>4. CASE Stop
  BY <1>4, OthersKeep
<1>5. CASE Crash
  BY <1>5, CrashKeeps
<1>6. ASSUME NEW j \in Jobs,
             \/ BackoffEnds(j) \/ RunEnds(j) \/ Add(j) \/ Cancel(j) \/ CancelGivesUp(j)
      PROVE  IInv'
  BY <1>6, OthersKeep, RunEndsKeeps, ScansKeep, RequestsKeep DEF Add
<1>7. CASE UNCHANGED vars
  BY <1>7
     DEF IInv, StateTypes, ActiveRuns, Dormant, Running, ActiveAt, vars,
         manager
<1> QED
  BY <1>1, <1>2, <1>3, <1>4, <1>5, <1>6, <1>7 DEF Next

\* What the queue, the runs and the rows have in common always holds.
THEOREM Invariance == Spec => []IInv
BY Initially, Inductive, PTL DEF Spec

\* Every variable has its type: a run that somebody waits for is in progress, and
\* every request is about jobs.
THEOREM TypeCorrect == Spec => []TypeOK
<1>1. IInv => TypeOK
  <2> SUFFICES ASSUME IInv PROVE TypeOK
    OBVIOUS
  <2>1. StateTypes /\ asked \in Seq(RequestType)
    BY DEF IInv, QueueInv
  <2>2. \A i \in 1..Len(asked) :
          /\ asked[i].kind \in Requests /\ asked[i].flag \in BOOLEAN
          /\ DOMAIN asked[i].jobs \subseteq Jobs
          /\ \A j \in DOMAIN asked[i].jobs : asked[i].jobs[j] \in Nat
    BY <2>1, LenProperties, RequestFacts
  <2>3. {enabled, waiting, paused} \subseteq BOOLEAN
    BY <2>1 DEF StateTypes
  <2>4. /\ timer \in {"none", "tick", "resume"}
        /\ run \in [Jobs -> RunType] /\ rows \in [Jobs -> RowType]
        /\ awaited \cup cancelling \subseteq Running /\ batched \subseteq Jobs
        /\ fate \in [Jobs -> {"none", "wanted", "finished", "given up", "cancelled"}]
        /\ tries \in [Jobs -> Nat]
    BY <2>1 DEF StateTypes
  <2> QED
    BY <2>2, <2>3, <2>4 DEF TypeOK, RunType, RowType
<1> QED
  BY Invariance, <1>1, PTL

\* While the manager is enabled, a row that the scans pass over has a run.
THEOREM ActiveRowsRun == Spec => []ActiveRowIsRunning
<1>1. IInv => ActiveRowIsRunning
  BY DEF IInv, ActiveRuns, Dormant, ActiveAt, ActiveRowIsRunning, Running
<1> QED
  BY Invariance, <1>1, PTL
-----------------------------------------------------------------------------
\* The number of running jobs.

\* The slots that a scan has counted are still free when it is answered.
SlotsKept(q, running) ==
    /\ Cardinality(running) <= MaxConcurrentJobs
    /\ \A i \in DOMAIN q : q[i].kind = "scan" =>
          Cardinality(DOMAIN q[i].jobs) + Cardinality(running) <= MaxConcurrentJobs

SlotsInv == SlotsKept(asked, Running)

\* Sets of jobs have a size.
LEMMA JobsAreCounted ==
    ASSUME NEW S \in SUBSET Jobs PROVE IsFiniteSet(S) /\ Cardinality(S) \in Nat
BY FS_Subset, FS_CardinalityType, JobManagerAssumption

\* A scan that joins takes no more than the free slots.
LEMMA SlotsScan ==
    ASSUME NEW q \in Seq(RequestType), NEW running \in SUBSET Jobs, SlotsKept(q, running),
           NEW flag \in BOOLEAN, NEW on, NEW table \in [Jobs -> RowType],
           MaybeStartJobs(flag, q, on, running, table)
    PROVE  SlotsKept(asked', running)
<1>1. CASE asked' = q
  BY <1>1 DEF SlotsKept
<1>2. ASSUME NEW e \in RequestType, asked' = Append(q, e), e.kind = "scan",
             Cardinality(DOMAIN e.jobs) <= FreeSlots(running), FreeSlots(running) > 0
      PROVE  SlotsKept(asked', running)
  <2>1. /\ Cardinality(DOMAIN e.jobs) \in Nat /\ Cardinality(running) \in Nat
        /\ MaxConcurrentJobs \in Nat
    BY JobsAreCounted, JobManagerAssumption DEF RequestType, JobMaps
  <2>2. Cardinality(DOMAIN e.jobs) + Cardinality(running) <= MaxConcurrentJobs
    BY <1>2, <2>1 DEF FreeSlots
  <2> DEFINE a == Append(q, e)
  <2>3. /\ a[Len(q) + 1] = e
        /\ \A i \in DOMAIN q : a[i] = q[i]
        /\ \A i \in DOMAIN a : i \in DOMAIN q \/ i = Len(q) + 1
    BY AppendPlaces
  <2>4. asked' = a
    BY <1>2
  <2> HIDE DEF a
  <2>5. SlotsKept(a, running)
    BY <2>2, <2>3 DEF SlotsKept
  <2> QED
    BY <2>4, <2>5 DEF SlotsKept
<1> QED
  BY <1>1, <1>2, ScanFacts

\* Fewer running jobs leave more slots.
LEMMA SlotsFewer ==
    ASSUME NEW q \in Seq(RequestType), NEW running \in SUBSET Jobs, NEW fewer \in SUBSET running,
           SlotsKept(q, running)
    PROVE  SlotsKept(q, fewer)
<1>1. /\ Cardinality(fewer) <= Cardinality(running)
      /\ Cardinality(fewer) \in Nat /\ Cardinality(running) \in Nat /\ MaxConcurrentJobs \in Nat
  BY JobsAreCounted, FS_Subset, JobManagerAssumption
<1>2. \A i \in DOMAIN q : Cardinality(DOMAIN q[i].jobs) \in Nat
  BY RequestFacts, JobsAreCounted
<1> QED
  BY <1>1, <1>2 DEF SlotsKept

\* A request is answered, or one that is no scan is made.
LEMMA SlotsQueue ==
    ASSUME NEW q \in Seq(RequestType), NEW running, SlotsKept(q, running)
    PROVE  /\ q # <<>> => SlotsKept(Tail(q), running)
           /\ \A e \in RequestType : e.kind # "scan" => SlotsKept(Append(q, e), running)
           /\ \A t \in Seq(RequestType) :
                 (\A i \in DOMAIN t : t[i].kind # "scan") => SlotsKept(q \o t, running)
<1>1. ASSUME q # <<>> PROVE SlotsKept(Tail(q), running)
  BY <1>1, TailPlaces DEF SlotsKept
<1>2. ASSUME NEW e \in RequestType, e.kind # "scan"
      PROVE  SlotsKept(Append(q, e), running)
  BY <1>2, AppendPlaces DEF SlotsKept
<1>3. ASSUME NEW t \in Seq(RequestType), \A i \in DOMAIN t : t[i].kind # "scan"
      PROVE  SlotsKept(q \o t, running)
  <2>1. \A i \in DOMAIN (q \o t) : \/ i \in DOMAIN q /\ (q \o t)[i] = q[i]
                                   \/ (q \o t)[i].kind # "scan"
    BY <1>3, ConcatPlaces
  <2> QED
    BY <2>1 DEF SlotsKept
<1> QED
  BY <1>1, <1>2, <1>3

\* The answer to a scan begins as many runs as it has counted slots.
LEMMA ScanReturnsSlots == ASSUME IInv, SlotsInv, ScanReturns PROVE SlotsInv'
<1>0. /\ StateTypes /\ QueueInv(asked, run) /\ asked \in Seq(RequestType)
      /\ Running \in SUBSET Jobs
  BY DEF IInv, QueueInv, Running
<1>1. asked # <<>> /\ Answer.kind = "scan" /\ Answer = Head(asked)
  BY DEF ScanReturns, Answered, Answer
<1>2. /\ Tail(asked) \in Seq(RequestType) /\ 1 \in DOMAIN asked /\ Answer = asked[1]
      /\ Answer \in RequestType
      /\ ~Scanning(Tail(asked))
  BY <1>0, <1>1, TailQueue DEF QueueInv
<1>3. PICK jobs \in {Nothing, Answer.jobs} :
         /\ StartJobs(jobs)
         /\ IF Answer.flag
            THEN Tick(Tail(asked) \o Saves(jobs), enabled, Running', rows')
            ELSE asked' = Tail(asked) \o Saves(jobs)
  BY DEF ScanReturns
<1>4. jobs \in JobMaps
  BY <1>2, MapFacts DEF RequestType
<1>5. rows' \in [Jobs -> RowType] /\ Running' = Running \cup DOMAIN jobs
  BY <1>0, <1>3, <1>4, StartJobsFacts
<1>6. DOMAIN jobs \in SUBSET Jobs
  BY <1>4 DEF JobMaps
<1> DEFINE running == Running'
           q == Tail(asked) \o Saves(jobs)
<1>7. Cardinality(Running \cup DOMAIN jobs) <= MaxConcurrentJobs
  <2>1. /\ Cardinality(Running \cup DOMAIN jobs) <= Cardinality(Running) + Cardinality(DOMAIN jobs)
        /\ Cardinality(Running \cup DOMAIN jobs) \in Nat
        /\ Cardinality(Running) \in Nat /\ Cardinality(DOMAIN jobs) \in Nat
        /\ MaxConcurrentJobs \in Nat
    <3>1. /\ IsFiniteSet(Running) /\ IsFiniteSet(DOMAIN jobs)
          /\ Cardinality(Running) \in Nat /\ Cardinality(DOMAIN jobs) \in Nat
          /\ Cardinality(Running \cup DOMAIN jobs) \in Nat
      BY <1>0, <1>6, JobsAreCounted
    <3>2. Cardinality(Running \cap DOMAIN jobs) \in Nat
      BY <1>0, JobsAreCounted
    <3>3. Cardinality(Running \cup DOMAIN jobs)
            = Cardinality(Running) + Cardinality(DOMAIN jobs)
              - Cardinality(Running \cap DOMAIN jobs)
      BY <3>1, FS_Union
    <3>4. MaxConcurrentJobs \in Nat
      BY JobManagerAssumption
    <3> QED
      BY <3>1, <3>2, <3>3, <3>4
  <2>2. Cardinality(DOMAIN jobs) + Cardinality(Running) <= MaxConcurrentJobs
    <3>1. CASE jobs = Nothing
      BY <2>1, <3>1, MapFacts, FS_EmptySet DEF SlotsInv, SlotsKept
    <3>2. CASE jobs = Answer.jobs
      BY <1>1, <1>2, <3>2 DEF SlotsInv, SlotsKept
    <3> QED
      BY <3>1, <3>2
  <2> QED
    BY <2>1, <2>2
<1>8. running \in SUBSET Jobs /\ Cardinality(running) <= MaxConcurrentJobs
  BY <1>0, <1>5, <1>6, <1>7
<1>9. q \in Seq(RequestType) /\ \A i \in DOMAIN q : q[i].kind # "scan"
  <2>1. /\ Saves(jobs) \in Seq(RequestType)
        /\ \A i \in DOMAIN Saves(jobs) : Saves(jobs)[i].kind # "scan"
    BY <1>4, SavesFacts
  <2>2. \A i \in DOMAIN Tail(asked) : Tail(asked)[i].kind # "scan"
    BY <1>2 DEF Scanning
  <2> QED
    BY <1>2, <2>1, <2>2, ConcatPlaces
<1>10. SlotsKept(q, running)
  BY <1>8, <1>9 DEF SlotsKept
<1>11. CASE Answer.flag
  <2> DEFINE table == rows'
  <2>1. MaybeStartJobs(FALSE, q, enabled, running, table) /\ table \in [Jobs -> RowType]
    BY <1>3, <1>5, <1>11 DEF Tick
  <2> HIDE DEF q, running, table
  <2>2. SlotsKept(asked', running)
    BY <1>8, <1>9, <1>10, <2>1, SlotsScan
  <2> QED
    BY <2>2 DEF SlotsInv, running
<1>12. CASE ~Answer.flag
  BY <1>3, <1>10, <1>12 DEF SlotsInv
<1> QED
  BY <1>11, <1>12

\* Every step keeps the slots, unless an add may exceed them.
LEMMA SlotsStep == ASSUME ~Forces, IInv, SlotsInv, [Next]_vars PROVE SlotsInv'
<1>0. /\ asked \in Seq(RequestType) /\ Running \in SUBSET Jobs /\ rows \in [Jobs -> RowType]
      /\ IInv' /\ StateTypes
  BY Inductive DEF IInv, StateTypes, QueueInv, Running
<1>1. ASSUME NEW q, q = asked \/ (asked # <<>> /\ q = Tail(asked)), NEW fewer \in SUBSET Running,
             NEW flag \in BOOLEAN, NEW on, MaybeStartJobs(flag, q, on, fewer, rows),
             Running' = fewer
      PROVE  SlotsInv'
  <2>1. q \in Seq(RequestType) /\ SlotsKept(q, Running)
    BY <1>0, <1>1, TailPlaces, SlotsQueue DEF SlotsInv
  <2>2. SlotsKept(q, fewer) /\ fewer \in SUBSET Jobs
    BY <1>0, <2>1, SlotsFewer
  <2>3. SlotsKept(asked', fewer)
    BY <1>0, <1>1, <2>1, <2>2, SlotsScan
  <2> QED
    BY <1>1, <2>3 DEF SlotsInv, SlotsKept
<1>2. ASSUME Running' = Running,
             \/ asked' = asked
             \/ asked # <<>> /\ asked' = Tail(asked)
             \/ \E e \in RequestType : e.kind # "scan" /\ asked' = Append(asked, e)
      PROVE  SlotsInv'
  <2>1. CASE asked' = asked
    BY <1>2, <2>1 DEF SlotsInv, SlotsKept
  <2>2. CASE asked # <<>> /\ asked' = Tail(asked)
    <3>1. SlotsKept(Tail(asked), Running)
      BY <1>0, <2>2, SlotsQueue DEF SlotsInv
    <3> QED
      BY <1>2, <2>2, <3>1 DEF SlotsInv, SlotsKept
  <2>3. ASSUME NEW e \in RequestType, e.kind # "scan", asked' = Append(asked, e)
        PROVE  SlotsInv'
    <3>1. SlotsKept(Append(asked, e), Running)
      BY <1>0, <2>3, SlotsQueue DEF SlotsInv
    <3> QED
      BY <1>2, <2>3, <3>1 DEF SlotsInv, SlotsKept
  <2> QED
    BY <1>2, <2>1, <2>2, <2>3
<1>3. ASSUME NEW kind \in Requests, NEW flag, flag \in BOOLEAN, NEW m \in JobMaps
      PROVE  /\ Request(kind, flag, m) \in RequestType
             /\ Request(kind, flag, m).kind = kind
  BY <1>3 DEF Request, RequestType, Requests
<1>4. CASE ScanReturns
  BY <1>4, ScanReturnsSlots
<1>5. CASE StartEnabled
  BY <1>1, <1>5 DEF StartEnabled, StartScans, Running
<1>6. CASE StartMarked
  BY <1>1, <1>6 DEF StartMarked, StartScans, Running, Answered
<1>7. CASE WaitForIdle \/ TickFires
  BY <1>1, <1>7 DEF WaitForIdle, TickFires, Tick, Running
<1>8. CASE PauseEnds
  BY <1>1, <1>8 DEF PauseEnds, Tick, Running
<1>9. CASE FlushReturns
  BY <1>1, <1>9 DEF FlushReturns, Answered, Running
<1>10. CASE AddReturns
  <2>1. Answer = Head(asked) /\ asked # <<>> /\ Answer.kind = "add"
    BY <1>10 DEF AddReturns, Answered, Answer
  <2>2. 1 \in DOMAIN asked /\ Answer = asked[1]
    BY <1>0, <2>1, TailPlaces
  <2>3. ~Answer.flag
    BY <2>1, <2>2 DEF IInv, QueueInv, AddsFlagged
  <2> DEFINE on == enabled /\ ~Answer.flag
  <2>4. MaybeStartJobs(FALSE, Tail(asked), on, Running, rows) /\ run' = run
    BY <1>10, <2>3 DEF AddReturns
  <2> HIDE DEF on
  <2> QED
    BY <1>1, <2>1, <2>4 DEF Running
<1>11. CASE \E j \in Jobs : RunJob(j)
  <2>1. PICK j \in Jobs : RunJob(j)
    BY <1>11
  <2>2. /\ asked # <<>> /\ Head(asked).kind = "save" /\ j \in DOMAIN Head(asked).jobs
        /\ asked' = Tail(asked) /\ run' = [run EXCEPT ![j].phase = "running"]
    BY <2>1 DEF RunJob, Answered, Answer
  <2>3. QueueInv(asked, run)
    BY DEF IInv
  <2>4. run[j].phase = "saving"
    BY <2>2, <2>3, TailQueue DEF Awaits, Phase
  <2>5. run[j] \in RunType /\ run \in [Jobs -> RunType]
    BY <1>0 DEF StateTypes
  <2>6. \A x \in Jobs : (run'[x].phase # "none") <=> (run[x].phase # "none")
    BY <2>2, <2>4, <2>5 DEF RunType
  <2>7. Running' = Running
    BY <2>6 DEF Running
  <2> QED
    BY <1>2, <2>2, <2>7
<1>12. CASE \E j \in Jobs : Close(j)
  <2>1. PICK j \in Jobs : Close(j)
    BY <1>12
  <2>2. /\ asked # <<>> /\ run' = [run EXCEPT ![j] = NoRun]
        /\ MaybeStartJobs(FALSE, Tail(asked), enabled, Running \ {j}, rows)
    BY <2>1 DEF Close, Answered
  <2>3. Running' = Running \ {j}
    BY <1>0, <2>2 DEF Running, StateTypes, NoRun
  <2> QED
    BY <1>1, <2>2, <2>3
<1>13. CASE StartDisabled \/ Flush
  <2>1. Nothing \in JobMaps /\ "mark" \in Requests /\ "flush" \in Requests
    BY MapFacts DEF Requests
  <2>2. /\ Request("mark", TRUE, Nothing) \in RequestType
        /\ Request("mark", TRUE, Nothing).kind = "mark"
        /\ Request("flush", FALSE, Nothing) \in RequestType
        /\ Request("flush", FALSE, Nothing).kind = "flush"
    BY <2>1 DEF Request, RequestType
  <2>3. Running' = Running
    BY <1>13 DEF StartDisabled, Flush, Running
  <2> QED
    BY <1>2, <1>13, <2>2, <2>3 DEF StartDisabled, Flush
<1>14. CASE Stop \/ UNCHANGED vars
  BY <1>2, <1>14 DEF Stop, vars, Running
<1>15. CASE Crash
  <2>1. asked' = <<>> /\ Running' = {}
    BY <1>15 DEF Crash, Running, NoRun
  <2> QED
    BY <2>1, FS_EmptySet, JobManagerAssumption DEF SlotsInv, SlotsKept
<1>16. ASSUME NEW j \in Jobs, BackoffEnds(j) \/ AddRunning(j) \/ Cancel(j) \/ CancelGivesUp(j)
       PROVE  SlotsInv'
  <2>1. asked' = asked
    BY <1>16 DEF BackoffEnds, AddRunning, Cancel, CancelGivesUp
  <2>2. \A x \in Jobs : run'[x].phase = run[x].phase
    <3>1. run' = run \/ run' = [run EXCEPT ![j].attempts = 0]
      BY <1>16 DEF BackoffEnds, AddRunning, Cancel, CancelGivesUp
    <3>2. run \in [Jobs -> RunType]
      BY <1>0 DEF StateTypes
    <3> QED
      BY <3>1, <3>2 DEF RunType
  <2>3. Running' = Running
    BY <2>2 DEF Running
  <2> QED
    BY <1>2, <2>1, <2>3
<1>17. ASSUME NEW j \in Jobs, RunEnds(j) PROVE SlotsInv'
  <2>1. /\ run[j].phase = "running" /\ run' = [run EXCEPT ![j].phase = "settling"]
        /\ asked' = Append(asked, Request("settle", FALSE, Of(j, 0)))
    BY <1>17 DEF RunEnds, Finish, Fail, Update, RateLimit, Settle
  <2>2. \A x \in Jobs : (run'[x].phase # "none") <=> (run[x].phase # "none")
    BY <1>0, <2>1 DEF StateTypes, RunType
  <2>3. Running' = Running
    BY <2>2 DEF Running
  <2>4. Of(j, 0) \in JobMaps /\ "settle" \in Requests
    BY MapFacts DEF Requests
  <2> QED
    BY <1>2, <1>3, <2>1, <2>3, <2>4
<1>18. ASSUME NEW j \in Jobs, AddBatched(j) PROVE SlotsInv'
  BY <1>1, <1>18 DEF AddBatched, Running
<1>19. ASSUME NEW j \in Jobs, AddJob(j) PROVE SlotsInv'
  <2>1. PICK force \in {FALSE, Forces} : asked' = Append(asked, Request("add", force, Of(j, 0)))
    BY <1>19 DEF AddJob
  <2>2. Running' = Running
    BY <1>19 DEF AddJob, Running
  <2>3. Of(j, 0) \in JobMaps /\ "add" \in Requests
    BY MapFacts DEF Requests
  <2>4. force \in BOOLEAN
    BY JobManagerAssumption
  <2> QED
    BY <1>2, <1>3, <2>1, <2>2, <2>3, <2>4
<1> QED
  BY <1>4, <1>5, <1>6, <1>7, <1>8, <1>9, <1>10, <1>11, <1>12, <1>13, <1>14,
     <1>15, <1>16,
     <1>17, <1>18, <1>19 DEF Next, Answers, Add

\* Unless an add starts its job at once whatever runs (forceStart), no more than
\* maxConcurrentJobs run at a time.
THEOREM SlotsRespected == ASSUME ~Forces PROVE Spec => []NotTooMany
<1>1. Init => SlotsInv
  <2> SUFFICES ASSUME Init PROVE SlotsInv
    OBVIOUS
  <2>1. asked = <<>> /\ Running = {}
    BY DEF Init, InitProcess, Running, NoRun
  <2> QED
    BY <2>1, FS_EmptySet, JobManagerAssumption DEF SlotsInv, SlotsKept
<1>2. IInv /\ SlotsInv /\ [Next]_vars => SlotsInv'
  BY SlotsStep
<1>3. SlotsInv => NotTooMany
  BY DEF SlotsInv, SlotsKept, NotTooMany
<1> QED
  BY Invariance, <1>1, <1>2, <1>3, PTL DEF Spec
-----------------------------------------------------------------------------
\* What becomes of a job, when no job is added while it is known.

\* Every request that would begin a run of j is answered before one that settles
\* a run of j.
Behind(q, j) ==
    \A i \in DOMAIN q : q[i].kind \in {"scan", "add"} /\ j \in DOMAIN q[i].jobs =>
        \E k \in DOMAIN q : k > i /\ q[k].kind = "settle" /\ j \in DOMAIN q[k].jobs

\* The requests about a job: none while it is batched, no more attempts than
\* runs, and none that brings it back when it has finished.
QueueOk(j, q, t, bs, f) ==
    /\ \A i \in DOMAIN q : j \in DOMAIN q[i].jobs => q[i].jobs[j] <= t /\ j \notin bs
    /\ f = "finished" => Behind(q, j)

\* The row and the run of a job: no more attempts than runs, nothing while it is
\* batched, no row when it has finished.
RunOk(j, row, r, t, bs, f) ==
    /\ row.here => row.attempts <= t
    /\ r.phase # "none" =>
          r.attempts + 1 <= t /\ (r.last => r.attempts + 1 >= MaxAttempts)
    /\ j \in bs => ~row.here /\ r.phase = "none" /\ f # "finished"
    /\ f = "finished" => ~row.here /\ r.phase \in {"none", "settling"}
    /\ f = "wanted" => row.here \/ Batches

JobOk(j) ==
    /\ RunOk(j, rows[j], run[j], tries[j], batched, fate[j])
    /\ QueueOk(j, asked, tries[j], batched, fate[j])

JobInv == \A j \in Jobs : JobOk(j)

\* A request is answered.
LEMMA TailOk ==
    ASSUME NEW q \in Seq(RequestType), q # <<>>, NEW j, NEW t, NEW bs, NEW f,
           QueueOk(j, q, t, bs, f)
    PROVE  QueueOk(j, Tail(q), t, bs, f)
<1>1. /\ \A i \in DOMAIN Tail(q) : /\ i \in Nat /\ i + 1 \in DOMAIN q
                                   /\ Tail(q)[i] = q[i + 1]
      /\ \A i \in DOMAIN q : i # 1 => i \in Nat /\ i - 1 \in DOMAIN Tail(q)
      /\ \A i \in DOMAIN q : i \in Nat
  BY TailPlaces, LenProperties
<1>2. ASSUME Behind(q, j) PROVE Behind(Tail(q), j)
  <2> SUFFICES ASSUME NEW i \in DOMAIN Tail(q), Tail(q)[i].kind \in {"scan", "add"},
                      j \in DOMAIN Tail(q)[i].jobs
               PROVE  \E k \in DOMAIN Tail(q) :
                         k > i /\ Tail(q)[k].kind = "settle" /\ j \in DOMAIN Tail(q)[k].jobs
    BY DEF Behind
  <2>1. PICK k \in DOMAIN q : k > i + 1 /\ q[k].kind = "settle" /\ j \in DOMAIN q[k].jobs
    BY <1>1, <1>2 DEF Behind
  <2>2. i \in Nat /\ k \in Nat /\ k # 1 /\ k - 1 > i
    BY <1>1, <2>1
  <2>3. k - 1 \in DOMAIN Tail(q)
    BY <1>1, <2>2
  <2>4. Tail(q)[k - 1] = q[k - 1 + 1] /\ k - 1 + 1 = k
    BY <1>1, <2>2, <2>3
  <2> QED
    BY <2>1, <2>2, <2>3, <2>4
<1> QED
  BY <1>1, <1>2 DEF QueueOk

\* A request is made that respects the job.
LEMMA AppendOk ==
    ASSUME NEW q \in Seq(RequestType), NEW e \in RequestType, NEW j, NEW t, NEW bs, NEW f,
           QueueOk(j, q, t, bs, f),
           j \in DOMAIN e.jobs => /\ e.jobs[j] <= t /\ j \notin bs
                                  /\ f = "finished" => e.kind \notin {"scan", "add"}
    PROVE  QueueOk(j, Append(q, e), t, bs, f)
<1> DEFINE a == Append(q, e)
<1>1. /\ a[Len(q) + 1] = e
      /\ \A i \in DOMAIN q : i \in DOMAIN a /\ a[i] = q[i]
      /\ \A i \in DOMAIN a : i \in DOMAIN q \/ i = Len(q) + 1
  BY AppendPlaces
<1> HIDE DEF a
<1>2. f = "finished" => Behind(a, j)
  BY <1>1 DEF QueueOk, Behind
<1>3. \A i \in DOMAIN a : j \in DOMAIN a[i].jobs => a[i].jobs[j] <= t /\ j \notin bs
  BY <1>1 DEF QueueOk
<1> QED
  BY <1>2, <1>3 DEF QueueOk, a

\* The request that settles a run comes after every other.
LEMMA SettleOk ==
    ASSUME NEW q \in Seq(RequestType), NEW j \in Jobs, NEW t \in Nat, NEW bs, NEW f, NEW g,
           QueueOk(j, q, t, bs, f), j \notin bs
    PROVE  QueueOk(j, Append(q, Request("settle", FALSE, Of(j, 0))), t, bs, g)
<1> DEFINE m == Of(j, 0)
           e == Request("settle", FALSE, m)
           a == Append(q, e)
<1>1. m \in JobMaps /\ DOMAIN m = {j} /\ m[j] = 0
  BY MapFacts
<1> HIDE DEF m
<1>2. e \in RequestType /\ e.kind = "settle" /\ e.jobs = m
  BY <1>1 DEF Request, RequestType, Requests
<1> HIDE DEF e
<1>3. /\ Len(q) + 1 \in DOMAIN a /\ a[Len(q) + 1] = e
      /\ \A i \in DOMAIN q : i \in Nat /\ i < Len(q) + 1 /\ a[i] = q[i]
      /\ \A i \in DOMAIN a : i \in DOMAIN q \/ i = Len(q) + 1
  BY <1>2, AppendPlaces
<1> HIDE DEF a
<1>4. Behind(a, j)
  <2> SUFFICES ASSUME NEW i \in DOMAIN a, a[i].kind \in {"scan", "add"}
               PROVE  \E k \in DOMAIN a : k > i /\ a[k].kind = "settle" /\ j \in DOMAIN a[k].jobs
    BY DEF Behind
  <2>1. i \in DOMAIN q
    BY <1>2, <1>3
  <2>2. Len(q) + 1 > i
    BY <1>3, <2>1, LenProperties
  <2> QED
    BY <1>1, <1>2, <1>3, <2>2
<1>5. \A i \in DOMAIN a : j \in DOMAIN a[i].jobs => a[i].jobs[j] <= t /\ j \notin bs
  BY <1>1, <1>2, <1>3 DEF QueueOk
<1> QED
  BY <1>4, <1>5 DEF QueueOk, a, e, m

\* A scan asks only for rows that are in the table.
LEMMA ScanOk ==
    ASSUME NEW q \in Seq(RequestType), NEW j, NEW t, NEW bs, NEW f, QueueOk(j, q, t, bs, f),
           NEW flag \in BOOLEAN, NEW on, NEW running, NEW table \in [Jobs -> RowType],
           MaybeStartJobs(flag, q, on, running, table),
           table[j].here => table[j].attempts <= t /\ j \notin bs /\ f # "finished"
    PROVE  QueueOk(j, asked', t, bs, f)
<1>1. CASE asked' = q
  BY <1>1 DEF QueueOk, Behind
<1>2. ASSUME NEW e \in RequestType, asked' = Append(q, e),
             \A x \in DOMAIN e.jobs : table[x].here /\ e.jobs[x] = table[x].attempts
      PROVE  QueueOk(j, asked', t, bs, f)
  <2> DEFINE a == Append(q, e)
  <2>1. QueueOk(j, a, t, bs, f)
    BY <1>2, AppendOk
  <2>2. asked' = a
    BY <1>2
  <2> HIDE DEF a
  <2> QED
    BY <2>1, <2>2 DEF QueueOk, Behind
<1> QED
  BY <1>1, <1>2, ScanFacts

\* More runs, a job that is batched no more, and one that has not finished.
LEMMA WeakerOk ==
    ASSUME NEW q \in Seq(RequestType), NEW j, NEW t \in Nat, NEW bs, NEW f,
           QueueOk(j, q, t, bs, f),
           NEW u \in Nat, t <= u, NEW cs, j \in cs => j \in bs, NEW g, g = "finished" => f = g
    PROVE  QueueOk(j, q, u, cs, g)
<1>1. \A i \in DOMAIN q : j \in DOMAIN q[i].jobs => q[i].jobs[j] \in Nat
  BY RequestFacts
<1>2. \A i \in DOMAIN q : j \in DOMAIN q[i].jobs => q[i].jobs[j] <= u /\ j \notin cs
  BY <1>1 DEF QueueOk
<1> QED
  BY <1>2 DEF QueueOk

\* A job that is not known.
LEMMA UnknownOk ==
    ASSUME NEW q, NEW j, \A i \in DOMAIN q : j \notin DOMAIN q[i].jobs,
           NEW t, NEW bs, NEW f
    PROVE  QueueOk(j, q, t, bs, f)
BY DEF QueueOk, Behind

\* The requests that save the rows of new runs.
LEMMA SavesOk ==
    ASSUME NEW q \in Seq(RequestType), NEW jobs \in JobMaps, NEW j, NEW t, NEW bs, NEW f,
           QueueOk(j, q, t, bs, f), j \in DOMAIN jobs => jobs[j] <= t /\ j \notin bs
    PROVE  QueueOk(j, q \o Saves(jobs), t, bs, f)
<1> DEFINE s == Saves(jobs)
           a == q \o s
<1>1. /\ s \in Seq(RequestType)
      /\ \A i \in DOMAIN s : /\ s[i].kind = "save"
                             /\ j \in DOMAIN s[i].jobs => s[i].jobs[j] <= t /\ j \notin bs
  <2>1. /\ s \in Seq(RequestType)
        /\ \A i \in DOMAIN s : /\ s[i].kind = "save"
                               /\ \E x \in DOMAIN jobs \ Running :
                                     s[i].jobs = Of(x, jobs[x]) /\ DOMAIN s[i].jobs = {x}
    BY SavesFacts
  <2>2. \A x \in DOMAIN jobs : x \in Jobs /\ jobs[x] \in Nat
    BY DEF JobMaps
  <2>3. \A x \in DOMAIN jobs : Of(x, jobs[x])[x] = jobs[x]
    BY <2>2, MapFacts
  <2> HIDE DEF s
  <2> QED
    BY <2>1, <2>3
<1> HIDE DEF s
<1>2. /\ \A i \in DOMAIN q : i \in DOMAIN a /\ a[i] = q[i]
      /\ \A i \in DOMAIN a : \/ i \in DOMAIN q
                             \/ i - Len(q) \in DOMAIN s /\ a[i] = s[i - Len(q)]
  BY <1>1, ConcatPlaces
<1> HIDE DEF a
<1>3. f = "finished" => Behind(a, j)
  BY <1>1, <1>2 DEF QueueOk, Behind
<1>4. \A i \in DOMAIN a : j \in DOMAIN a[i].jobs => a[i].jobs[j] <= t /\ j \notin bs
  BY <1>1, <1>2 DEF QueueOk
<1> QED
  BY <1>3, <1>4 DEF QueueOk, a, s

\* The answer that would begin a run: its job has not finished, or still runs.
LEMMA BeginsOk ==
    ASSUME NEW r, QueueInv(asked, r), asked # <<>>, Head(asked).kind \in {"scan", "add"},
           NEW j \in DOMAIN Head(asked).jobs, NEW t, NEW bs, NEW f, QueueOk(j, asked, t, bs, f)
    PROVE  /\ Head(asked).jobs[j] <= t /\ j \notin bs
           /\ f = "finished" => r[j].phase = "settling"
<1>1. 1 \in DOMAIN asked /\ Head(asked) = asked[1]
  BY TailPlaces DEF QueueInv
<1>2. ASSUME f = "finished" PROVE r[j].phase = "settling"
  <2>1. PICK k \in DOMAIN asked : asked[k].kind = "settle" /\ j \in DOMAIN asked[k].jobs
    BY <1>1, <1>2 DEF QueueOk, Behind
  <2> QED
    BY <2>1 DEF QueueInv, RunsWait, Awaits, Phase
<1> QED
  BY <1>1, <1>2 DEF QueueOk

\* The answer to a scan, or to an add that starts its job at once.
LEMMA StartOk ==
    ASSUME IInv, NEW j \in Jobs, JobOk(j),
           asked # <<>>, Head(asked).kind \in {"scan", "add"},
           NEW jobs \in {Nothing, Head(asked).jobs}, StartJobs(jobs)
    PROVE  /\ RunOk(j, rows'[j], run'[j], tries'[j], batched, fate[j])
           /\ QueueOk(j, Tail(asked) \o Saves(jobs), tries'[j], batched, fate[j])
           /\ Tail(asked) \o Saves(jobs) \in Seq(RequestType)
           /\ rows' \in [Jobs -> RowType] /\ jobs \in JobMaps
<1>0. /\ StateTypes /\ QueueInv(asked, run) /\ asked \in Seq(RequestType)
      /\ tries[j] \in Nat /\ run[j] \in RunType /\ rows[j] \in RowType
  BY DEF IInv, QueueInv, StateTypes
<1>1. Tail(asked) \in Seq(RequestType) /\ Head(asked) \in RequestType
  BY <1>0, TailPlaces
<1>2. jobs \in JobMaps /\ \A x \in DOMAIN jobs : x \in Jobs /\ jobs[x] \in Nat
  <2>1. Nothing \in JobMaps /\ Head(asked).jobs \in JobMaps
    BY <1>1, MapFacts DEF RequestType
  <2>2. jobs \in JobMaps
    BY <2>1
  <2> QED
    BY <2>2 DEF JobMaps
<1>3. rows' \in [Jobs -> RowType] /\ tries' \in [Jobs -> Nat]
  BY <1>0, <1>2, StartJobsFacts
<1>4. QueueOk(j, asked, tries[j], batched, fate[j])
  BY DEF JobOk
<1>5. ASSUME j \in DOMAIN jobs
      PROVE  /\ jobs[j] <= tries[j] /\ j \notin batched
             /\ fate[j] = "finished" => run[j].phase = "settling"
  <2>1. jobs = Head(asked).jobs
    BY <1>5, MapFacts
  <2> QED
    BY <1>0, <1>4, <1>5, <2>1, BeginsOk
<1>6. CASE j \in DOMAIN jobs \ Running
  <2>1. /\ run'[j] = NewRun(jobs[j]) /\ rows'[j] = Row(TRUE, jobs[j], TRUE)
        /\ tries'[j] = tries[j] + 1
    BY <1>6 DEF StartJobs
  <2>2. /\ jobs[j] \in Nat /\ jobs[j] <= tries[j] /\ j \notin batched
        /\ fate[j] # "finished"
    BY <1>2, <1>5, <1>6 DEF Running
  <2> DEFINE n == jobs[j]
             t == tries[j]
  <2>3. n \in Nat /\ t \in Nat /\ n <= t /\ n <= t + 1 /\ n + 1 <= t + 1 /\ t <= t + 1
        /\ t + 1 \in Nat
    BY <1>0, <2>2
  <2>4. /\ rows'[j].here = TRUE /\ rows'[j].attempts = n
    BY <2>1 DEF Row
  <2>5. /\ run'[j].phase = "saving" /\ run'[j].attempts = n
        /\ run'[j].last => n + 1 >= MaxAttempts
    <3>1. /\ NewRun(n).phase = "saving" /\ NewRun(n).attempts = n
          /\ NewRun(n).last = (n + 1 >= MaxAttempts)
      BY DEF NewRun
    <3> QED
      BY <2>1, <3>1
  <2>6. tries'[j] = t + 1
    BY <2>1
  <2> HIDE DEF n, t
  <2>7. RunOk(j, rows'[j], run'[j], tries'[j], batched, fate[j])
    BY <2>2, <2>3, <2>4, <2>5, <2>6 DEF RunOk
  <2>8. QueueOk(j, asked, t + 1, batched, fate[j])
    BY <1>0, <1>4, <2>3, WeakerOk DEF t
  <2>9. QueueOk(j, Tail(asked) \o Saves(jobs), t + 1, batched, fate[j])
    <3>1. QueueOk(j, Tail(asked), t + 1, batched, fate[j])
      BY <1>0, <2>8, TailOk
    <3>2. jobs[j] <= t + 1
      BY <2>3 DEF n
    <3> QED
      BY <1>1, <1>2, <2>2, <3>1, <3>2, SavesOk
  <2>10. Tail(asked) \o Saves(jobs) \in Seq(RequestType)
    BY <1>1, <1>2, SavesFacts, ConcatPlaces
  <2> QED
    BY <1>2, <1>3, <2>6, <2>7, <2>9, <2>10
<1>7. CASE j \notin DOMAIN jobs \ Running
  <2>1. run'[j] = run[j] /\ rows'[j] = rows[j] /\ tries'[j] = tries[j]
    <3>1. run'[j] = run[j] /\ rows'[j] = rows[j]
      BY <1>7 DEF StartJobs
    <3>2. tries'[j] = tries[j] + 0
      BY <1>7 DEF StartJobs
    <3> QED
      BY <1>0, <3>1, <3>2
  <2>2. RunOk(j, rows'[j], run'[j], tries'[j], batched, fate[j])
    BY <2>1 DEF JobOk
  <2>3. QueueOk(j, Tail(asked) \o Saves(jobs), tries[j], batched, fate[j])
    BY <1>0, <1>1, <1>2, <1>4, <1>5, TailOk, SavesOk
  <2>4. Tail(asked) \o Saves(jobs) \in Seq(RequestType)
    BY <1>1, <1>2, SavesFacts, ConcatPlaces
  <2> QED
    BY <1>2, <1>3, <2>1, <2>2, <2>3, <2>4
<1> QED
  BY <1>6, <1>7

\* A step that leaves a job alone, but for a scan.
LEMMA ScansOk ==
    ASSUME IInv, NEW j \in Jobs, JobOk(j), NEW q, q = asked \/ (asked # <<>> /\ q = Tail(asked)),
           NEW flag \in BOOLEAN, NEW on, NEW running, MaybeStartJobs(flag, q, on, running, rows)
    PROVE  QueueOk(j, asked', tries[j], batched, fate[j])
<1>1. q \in Seq(RequestType) /\ QueueOk(j, q, tries[j], batched, fate[j])
  BY TailPlaces, TailOk DEF IInv, QueueInv, JobOk
<1>2. rows \in [Jobs -> RowType]
  BY DEF IInv, StateTypes
<1>3. rows[j].here => /\ rows[j].attempts <= tries[j] /\ j \notin batched
                      /\ fate[j] # "finished"
  BY DEF JobOk, RunOk
<1> QED
  BY <1>1, <1>2, <1>3, ScanOk

\* Nothing changes for a job but the requests.
LEMMA SameJob ==
    ASSUME NEW j \in Jobs, JobOk(j),
           rows'[j] = rows[j], run'[j] = run[j], tries'[j] = tries[j], fate'[j] = fate[j],
           j \in batched' <=> j \in batched, QueueOk(j, asked', tries[j], batched, fate[j])
    PROVE  JobOk(j)'
<1>1. RunOk(j, rows'[j], run'[j], tries'[j], batched', fate'[j])
  BY DEF JobOk, RunOk
<1>2. QueueOk(j, asked', tries'[j], batched', fate'[j])
  BY DEF QueueOk
<1> QED
  BY <1>1, <1>2 DEF JobOk

\* The answers that begin runs.
LEMMA JobsStart ==
    ASSUME IInv, NEW j \in Jobs, JobOk(j), ScanReturns \/ AddReturns PROVE JobOk(j)'
<1>1. CASE ScanReturns
  <2>1. asked # <<>> /\ Head(asked).kind \in {"scan", "add"} /\ Answer = Head(asked)
    BY <1>1 DEF ScanReturns, Answered, Answer
  <2>2. PICK jobs \in {Nothing, Answer.jobs} :
           /\ StartJobs(jobs)
           /\ IF Answer.flag
              THEN Tick(Tail(asked) \o Saves(jobs), enabled, Running', rows')
              ELSE asked' = Tail(asked) \o Saves(jobs)
    BY <1>1 DEF ScanReturns
  <2>3. /\ RunOk(j, rows'[j], run'[j], tries'[j], batched, fate[j])
        /\ QueueOk(j, Tail(asked) \o Saves(jobs), tries'[j], batched, fate[j])
        /\ Tail(asked) \o Saves(jobs) \in Seq(RequestType)
        /\ rows' \in [Jobs -> RowType]
    BY <2>1, <2>2, StartOk
  <2>4. batched' = batched /\ fate' = fate
    BY <1>1 DEF ScanReturns
  <2>5. QueueOk(j, asked', tries'[j], batched, fate[j])
    <3>1. CASE Answer.flag
      <4> DEFINE q == Tail(asked) \o Saves(jobs)
                 table == rows'
                 t == tries'[j]
                 running == Running'
      <4>1. MaybeStartJobs(FALSE, q, enabled, running, table)
        BY <2>2, <3>1 DEF Tick
      <4>2. /\ q \in Seq(RequestType) /\ QueueOk(j, q, t, batched, fate[j])
            /\ table \in [Jobs -> RowType]
        BY <2>3
      <4>3. table[j].here => table[j].attempts <= t /\ j \notin batched /\ fate[j] # "finished"
        BY <2>3 DEF RunOk
      <4> HIDE DEF q, table, t, running
      <4>4. QueueOk(j, asked', t, batched, fate[j])
        BY <4>1, <4>2, <4>3, ScanOk
      <4> QED
        BY <4>4 DEF t
    <3>2. CASE ~Answer.flag
      BY <2>2, <2>3, <3>2
    <3> QED
      BY <3>1, <3>2
  <2> QED
    BY <2>3, <2>4, <2>5 DEF JobOk
<1>2. CASE AddReturns
  <2>1. asked # <<>> /\ Head(asked).kind \in {"scan", "add"} /\ Answer = Head(asked)
    BY <1>2 DEF AddReturns, Answered, Answer
  <2>2. batched' = batched /\ fate' = fate
    BY <1>2 DEF AddReturns, manager
  <2>3. CASE Answer.flag /\ enabled
    <3>1. StartJobs(Answer.jobs) /\ asked' = Tail(asked) \o Saves(Answer.jobs)
      BY <1>2, <2>3 DEF AddReturns
    <3>2. /\ RunOk(j, rows'[j], run'[j], tries'[j], batched, fate[j])
          /\ QueueOk(j, Tail(asked) \o Saves(Answer.jobs), tries'[j], batched, fate[j])
      BY <2>1, <3>1, StartOk
    <3> QED
      BY <2>2, <3>1, <3>2 DEF JobOk
  <2>4. CASE ~(Answer.flag /\ enabled)
    <3> DEFINE on == enabled /\ ~Answer.flag
    <3>1. /\ MaybeStartJobs(FALSE, Tail(asked), on, Running, rows)
          /\ UNCHANGED <<run, rows, tries>>
      BY <1>2, <2>4 DEF AddReturns
    <3> HIDE DEF on
    <3>2. QueueOk(j, asked', tries[j], batched, fate[j])
      BY <2>1, <3>1, ScansOk
    <3> QED
      BY <2>2, <3>1, <3>2, SameJob
  <2> QED
    BY <2>3, <2>4
<1> QED
  BY <1>1, <1>2

\* The steps that only scan.
LEMMA JobsScan ==
    ASSUME IInv, NEW j \in Jobs, JobOk(j),
           \/ StartEnabled \/ StartMarked \/ WaitForIdle \/ TickFires \/ PauseEnds \/ FlushReturns
    PROVE  JobOk(j)'
<1>1. PICK q \in {asked, Tail(asked)}, flag \in BOOLEAN, on \in BOOLEAN :
         /\ q = asked \/ (asked # <<>> /\ q = Tail(asked))
         /\ MaybeStartJobs(flag, q, on, Running, rows)
  <2>0. enabled \in BOOLEAN
    BY DEF IInv, StateTypes
  <2>1. CASE StartEnabled \/ WaitForIdle \/ TickFires
    BY <2>0, <2>1 DEF StartEnabled, StartScans, WaitForIdle, TickFires, Tick
  <2>2. CASE PauseEnds
    BY <2>2 DEF PauseEnds, Tick
  <2>3. CASE StartMarked \/ FlushReturns
    BY <2>0, <2>3 DEF StartMarked, StartScans, FlushReturns, Answered
  <2> QED
    BY <2>1, <2>2, <2>3
<1>2. UNCHANGED <<rows, run, tries, fate, batched>>
  BY
     DEF StartEnabled, StartMarked, WaitForIdle, TickFires, PauseEnds,
         FlushReturns, manager
<1>3. QueueOk(j, asked', tries[j], batched, fate[j])
  BY <1>1, ScansOk
<1> QED
  BY <1>2, <1>3, SameJob

\* A run ends: its attempts are counted in its row, and its removal comes after
\* every request that has seen the row.
LEMMA SettleJobs ==
    ASSUME IInv, JobInv, NEW x \in Jobs, NEW row, NEW end, Settle(x, row, end),
           row.here => row.attempts = run[x].attempts + 1 /\ end = "wanted",
           ~row.here => end # "wanted", NEW j \in Jobs
    PROVE  JobOk(j)'
<1>0. /\ asked \in Seq(RequestType) /\ tries[j] \in Nat /\ run[x] \in RunType
      /\ run \in [Jobs -> RunType] /\ rows \in [Jobs -> RowType]
      /\ fate \in [Jobs -> {"none", "wanted", "finished", "given up", "cancelled"}]
      /\ QueueOk(j, asked, tries[j], batched, fate[j]) /\ QueueInv(asked, run)
      /\ RunOk(j, rows[j], run[j], tries[j], batched, fate[j])
  BY DEF IInv, StateTypes, QueueInv, JobInv, JobOk
<1>1. /\ run[x].phase = "running" /\ run' = [run EXCEPT ![x].phase = "settling"]
      /\ rows' = [rows EXCEPT ![x] = row]
      /\ asked' = Append(asked, Request("settle", FALSE, Of(x, 0)))
      /\ fate' = [fate EXCEPT ![x] = IF fate[x] = "wanted" THEN end ELSE fate[x]]
      /\ batched' = batched /\ tries' = tries
  BY DEF Settle
<1>2. CASE j = x
  <2>1. /\ j \notin batched /\ run[j].attempts + 1 <= tries[j]
        /\ run[j].last => run[j].attempts + 1 >= MaxAttempts
        /\ fate[j] # "finished"
    BY <1>0, <1>1, <1>2 DEF RunOk
  <2>2. QueueOk(j, asked', tries[j], batched, fate'[j])
    BY <1>0, <1>1, <1>2, <2>1, SettleOk
  <2>3. /\ run'[j].phase = "settling" /\ run'[j].attempts = run[j].attempts
        /\ run'[j].last = run[j].last /\ rows'[j] = row
        /\ fate'[j] = IF fate[j] = "wanted" THEN end ELSE fate[j]
    BY <1>0, <1>1, <1>2 DEF RunType
  <2>4. RunOk(j, rows'[j], run'[j], tries[j], batched, fate'[j])
    BY <1>2, <2>1, <2>3 DEF RunOk
  <2> QED
    BY <1>1, <2>2, <2>4 DEF JobOk
<1>3. CASE j # x
  <2> DEFINE m == Of(x, 0)
             e == Request("settle", FALSE, m)
  <2>1. m \in JobMaps /\ DOMAIN m = {x}
    BY MapFacts
  <2> HIDE DEF m
  <2>2. e \in RequestType /\ e.kind = "settle" /\ e.jobs = m
    BY <2>1 DEF Request, RequestType, Requests
  <2>3. asked' = Append(asked, e)
    BY <1>1 DEF m
  <2> HIDE DEF e
  <2>4. QueueOk(j, Append(asked, e), tries[j], batched, fate[j])
    BY <1>0, <1>3, <2>1, <2>2, AppendOk
  <2>5. QueueOk(j, asked', tries[j], batched, fate[j])
    BY <2>3, <2>4 DEF QueueOk, Behind
  <2>6. run'[j] = run[j] /\ rows'[j] = rows[j] /\ fate'[j] = fate[j]
    BY <1>0, <1>1, <1>3
  <2> QED
    BY <1>1, <2>5, <2>6, SameJob DEF JobInv
<1> QED
  BY <1>2, <1>3

\* The ends of a run, for any job.
LEMMA JobsEnd ==
    ASSUME IInv, JobInv, NEW x \in Jobs, RunEnds(x), NEW j \in Jobs PROVE JobOk(j)'
<1>1. /\ ~NoRow.here
      /\ \A due \in BOOLEAN :
            Retry(x, due).here /\ Retry(x, due).attempts = run[x].attempts + 1
  BY DEF NoRow, Retry, Row
<1>2. run[x].first \in BOOLEAN
  <2>1. run[x] \in RunType
    BY DEF IInv, StateTypes
  <2> QED
    BY <2>1 DEF RunType
<1>3. CASE Finish(x)
  BY <1>1, <1>3, SettleJobs DEF Finish
<1>4. CASE Fail(x)
  BY <1>1, <1>4, SettleJobs DEF Fail
<1>5. CASE Update(x)
  <2>1. Retry(x, run[x].first).here /\ Retry(x, run[x].first).attempts = run[x].attempts + 1
    BY <1>1, <1>2
  <2> QED
    BY <1>5, <2>1, SettleJobs DEF Update
<1>6. CASE RateLimit(x)
  BY <1>1, <1>6, SettleJobs DEF RateLimit
<1> QED
  BY <1>3, <1>4, <1>5, <1>6 DEF RunEnds

\* A run begins its work, or leaves.
LEMMA JobsRunAndClose ==
    ASSUME IInv, JobInv, NEW x \in Jobs, RunJob(x) \/ Close(x), NEW j \in Jobs PROVE JobOk(j)'
<1>0. /\ asked \in Seq(RequestType) /\ tries[j] \in Nat
      /\ run \in [Jobs -> RunType] /\ rows \in [Jobs -> RowType]
      /\ fate \in [Jobs -> {"none", "wanted", "finished", "given up", "cancelled"}]
      /\ QueueInv(asked, run)
      /\ QueueOk(j, asked, tries[j], batched, fate[j])
      /\ RunOk(j, rows[j], run[j], tries[j], batched, fate[j])
  BY DEF IInv, StateTypes, QueueInv, JobInv, JobOk
<1>1. CASE RunJob(x)
  <2>1. /\ asked # <<>> /\ Head(asked).kind = "save" /\ x \in DOMAIN Head(asked).jobs
        /\ asked' = Tail(asked) /\ run' = [run EXCEPT ![x].phase = "running"]
        /\ UNCHANGED <<rows, fate, tries, batched>>
    BY <1>1 DEF RunJob, Answered, Answer, manager
  <2>2. run[x].phase = "saving"
    BY <1>0, <2>1, TailQueue DEF Awaits, Phase
  <2>3. QueueOk(j, asked', tries[j], batched, fate[j])
    BY <1>0, <2>1, TailOk
  <2>4. CASE j # x
    BY <1>0, <2>1, <2>3, <2>4, SameJob DEF JobInv
  <2>5. CASE j = x
    <3>1. /\ run'[j].phase = "running" /\ run'[j].attempts = run[j].attempts
          /\ run'[j].last = run[j].last
      BY <1>0, <2>1, <2>5 DEF RunType
    <3>2. RunOk(j, rows[j], run'[j], tries[j], batched, fate[j])
      BY <1>0, <2>2, <2>5, <3>1 DEF RunOk
    <3> QED
      BY <2>1, <2>3, <3>2 DEF JobOk
  <2> QED
    BY <2>4, <2>5
<1>2. CASE Close(x)
  <2>1. /\ asked # <<>> /\ run' = [run EXCEPT ![x] = NoRun]
        /\ MaybeStartJobs(FALSE, Tail(asked), enabled, Running \ {x}, rows)
        /\ \/ rows' = rows /\ fate' = fate
           \/ /\ rows' = [rows EXCEPT ![x] = NoRow]
              /\ fate' = [fate EXCEPT ![x] = "cancelled"]
        /\ batched' = batched /\ tries' = tries
    BY <1>2 DEF Close, Answered
  <2>2. QueueOk(j, asked', tries[j], batched, fate[j])
    BY <2>1, ScansOk DEF JobInv
  <2>3. CASE j # x
    BY <1>0, <2>1, <2>2, <2>3, SameJob DEF JobInv
  <2>4. CASE j = x
    <3>1. run'[j].phase = "none"
      BY <1>0, <2>1, <2>4 DEF NoRun
    <3>2. \/ rows'[j] = rows[j] /\ fate'[j] = fate[j]
          \/ ~rows'[j].here /\ fate'[j] = "cancelled"
      <4>1. NoRow.here = FALSE
        BY Records
      <4>2. CASE rows' = [rows EXCEPT ![x] = NoRow] /\ fate' = [fate EXCEPT ![x] = "cancelled"]
        BY <1>0, <2>4, <4>1, <4>2
      <4> QED
        BY <2>1, <4>2
    <3>3. RunOk(j, rows'[j], run'[j], tries[j], batched, fate'[j])
      BY <1>0, <3>1, <3>2 DEF RunOk
    <3>4. QueueOk(j, asked', tries[j], batched, fate'[j])
      BY <2>2, <3>2 DEF QueueOk
    <3> QED
      BY <2>1, <3>3, <3>4 DEF JobOk
  <2> QED
    BY <2>3, <2>4
<1> QED
  BY <1>1, <1>2

\* A job that nobody knows is added.
LEMMA JobsAdd ==
    ASSUME ~ReAdds, IInv, JobInv, NEW x \in Jobs, Add(x), NEW j \in Jobs PROVE JobOk(j)'
<1>0. /\ asked \in Seq(RequestType) /\ tries \in [Jobs -> Nat]
      /\ rows \in [Jobs -> RowType]
      /\ fate \in [Jobs -> {"none", "wanted", "finished", "given up", "cancelled"}]
      /\ QueueOk(j, asked, tries[j], batched, fate[j])
      /\ RunOk(j, rows[j], run[j], tries[j], batched, fate[j])
  BY DEF IInv, StateTypes, QueueInv, JobInv, JobOk
<1>1. Asks(x)
  BY DEF Add, AddRunning, AddBatched, AddJob
<1>2. /\ ~rows[x].here /\ x \notin Running /\ x \notin batched
      /\ \A i \in DOMAIN asked : x \notin DOMAIN asked[i].jobs
  BY <1>1 DEF Asks, Known
<1>3. /\ fate' = [fate EXCEPT ![x] = "wanted"]
      /\ tries' = [tries EXCEPT ![x] = 0]
  BY <1>1, <1>2 DEF Asks
<1>4. fate'[x] = "wanted" /\ tries'[x] = 0 /\ run[x].phase = "none"
  BY <1>0, <1>2, <1>3 DEF Running
<1>5. j # x => fate'[j] = fate[j] /\ tries'[j] = tries[j]
  BY <1>0, <1>3
<1>6. CASE AddBatched(x)
  <2>1. /\ Batches /\ batched' = batched \cup {x} /\ UNCHANGED <<rows, run>>
        /\ MaybeStartJobs(FALSE, asked, enabled, Running, rows)
    BY <1>6 DEF AddBatched
  <2>2. CASE j # x
    <3>1. QueueOk(j, asked', tries[j], batched, fate[j])
      BY <2>1, ScansOk DEF JobInv
    <3> QED
      BY <1>5, <2>1, <2>2, <3>1, SameJob DEF JobInv
  <2>3. CASE j = x
    <3>1. RunOk(j, rows[j], run[j], 0, batched', "wanted")
      BY <1>2, <1>4, <2>1, <2>3 DEF RunOk
    <3> DEFINE bs == batched'
               f == "wanted"
    <3>2. QueueOk(j, asked, 0, bs, f) /\ ~rows[j].here
      BY <1>2, <2>3, UnknownOk
    <3> HIDE DEF bs, f
    <3>4. QueueOk(j, asked', 0, bs, f)
      BY <1>0, <2>1, <3>2, ScanOk
    <3>3. QueueOk(j, asked', 0, batched', "wanted")
      BY <3>4 DEF bs, f
    <3> QED
      BY <1>4, <2>1, <2>3, <3>1, <3>3 DEF JobOk
  <2> QED
    BY <2>2, <2>3
<1>7. CASE AddJob(x)
  <2>1. /\ rows' = [rows EXCEPT ![x] = Row(FALSE, 0, TRUE)] /\ UNCHANGED <<run, batched>>
    BY <1>7 DEF AddJob
  <2>2. PICK force \in {FALSE, Forces} : asked' = Append(asked, Request("add", force, Of(x, 0)))
    BY <1>7 DEF AddJob
  <2> DEFINE m == Of(x, 0)
             e == Request("add", force, m)
  <2>3. m \in JobMaps /\ DOMAIN m = {x} /\ m[x] = 0
    BY MapFacts
  <2>4. force \in BOOLEAN
    BY JobManagerAssumption
  <2> HIDE DEF m
  <2>5. e \in RequestType /\ e.kind = "add" /\ e.jobs = m
    BY <2>3, <2>4 DEF Request, RequestType, Requests
  <2>6. asked' = Append(asked, e)
    BY <2>2 DEF m
  <2> HIDE DEF e
  <2>7. CASE j # x
    <3>1. QueueOk(j, Append(asked, e), tries[j], batched, fate[j])
      BY <1>0, <2>3, <2>5, <2>7, AppendOk
    <3>2. QueueOk(j, asked', tries[j], batched, fate[j])
      BY <2>6, <3>1 DEF QueueOk, Behind
    <3> QED
      BY <1>0, <1>5, <2>1, <2>7, <3>2, SameJob DEF JobInv
  <2>8. CASE j = x
    <3>1. rows'[j].here /\ rows'[j].attempts = 0
      BY <1>0, <2>1, <2>8 DEF Row
    <3>2. RunOk(j, rows'[j], run[j], 0, batched, "wanted")
      BY <1>2, <1>4, <2>8, <3>1 DEF RunOk
    <3>3. QueueOk(j, asked, 0, batched, "wanted")
      BY <1>2, <2>8, UnknownOk
    <3>6. e.jobs[j] <= 0 /\ j \notin batched
      BY <1>2, <2>3, <2>5, <2>8
    <3> DEFINE f == "wanted"
    <3>7. QueueOk(j, asked, 0, batched, f) /\ f # "finished"
      BY <3>3
    <3> HIDE DEF f
    <3>8. QueueOk(j, Append(asked, e), 0, batched, f)
      BY <1>0, <2>5, <3>6, <3>7, AppendOk
    <3>4. QueueOk(j, Append(asked, e), 0, batched, "wanted")
      BY <3>8 DEF f
    <3>5. QueueOk(j, asked', 0, batched, "wanted")
      BY <2>6, <3>4 DEF QueueOk
    <3> QED
      BY <1>4, <2>1, <2>8, <3>2, <3>5 DEF JobOk
  <2> QED
    BY <2>7, <2>8
<1>8. CASE AddRunning(x)
  BY <1>2, <1>8 DEF AddRunning
<1> QED
  BY <1>6, <1>7, <1>8 DEF Add

\* Every step keeps what is known of a job.
LEMMA JobsStep == ASSUME ~ReAdds, IInv, JobInv, [Next]_vars PROVE JobInv'
<1> SUFFICES ASSUME NEW j \in Jobs PROVE JobOk(j)'
  BY DEF JobInv
<1>0. /\ asked \in Seq(RequestType) /\ tries[j] \in Nat /\ JobOk(j)
      /\ rows \in [Jobs -> RowType] /\ run \in [Jobs -> RunType]
      /\ fate \in [Jobs -> {"none", "wanted", "finished", "given up", "cancelled"}]
      /\ QueueOk(j, asked, tries[j], batched, fate[j])
      /\ RunOk(j, rows[j], run[j], tries[j], batched, fate[j])
  BY DEF IInv, StateTypes, QueueInv, JobInv, JobOk
<1>1. CASE ScanReturns \/ AddReturns
  BY <1>0, <1>1, JobsStart
<1>2. CASE \/ StartEnabled \/ StartMarked \/ WaitForIdle \/ TickFires \/ PauseEnds \/ FlushReturns
  BY <1>0, <1>2, JobsScan
<1>3. ASSUME NEW x \in Jobs, RunJob(x) \/ Close(x) PROVE JobOk(j)'
  BY <1>3, JobsRunAndClose
<1>4. ASSUME NEW x \in Jobs, RunEnds(x) PROVE JobOk(j)'
  BY <1>4, JobsEnd
<1>5. ASSUME NEW x \in Jobs, Add(x) PROVE JobOk(j)'
  BY <1>5, JobsAdd
<1>6. CASE StartDisabled
  <2>1. /\ rows' = MarkedInactive(rows) /\ asked' = Append(asked, Request("mark", TRUE, Nothing))
        /\ UNCHANGED <<batched, run, fate, tries>>
    BY <1>6 DEF StartDisabled
  <2>2. rows'[j].here = rows[j].here /\ rows'[j].attempts = rows[j].attempts
    BY <1>0, <2>1 DEF MarkedInactive, RowType
  <2>3. RunOk(j, rows'[j], run[j], tries[j], batched, fate[j])
    BY <1>0, <2>2 DEF RunOk
  <2> DEFINE e == Request("mark", TRUE, Nothing)
  <2>4. e \in RequestType /\ DOMAIN e.jobs = {}
    BY MapFacts DEF Request, RequestType, Requests
  <2>5. asked' = Append(asked, e)
    BY <2>1
  <2> HIDE DEF e
  <2>6. QueueOk(j, Append(asked, e), tries[j], batched, fate[j])
    BY <1>0, <2>4, AppendOk
  <2> QED
    BY <2>1, <2>3, <2>5, <2>6 DEF JobOk
<1>7. CASE Flush
  <2>1. /\ batched' = {} /\ asked' = Append(asked, Request("flush", FALSE, Nothing))
        /\ rows' = [x \in Jobs |-> IF x \in batched THEN Row(FALSE, 0, TRUE) ELSE rows[x]]
        /\ UNCHANGED <<run, fate, tries>>
    BY <1>7 DEF Flush
  <2>2. \/ rows'[j] = rows[j]
        \/ j \in batched /\ rows'[j].here /\ rows'[j].attempts = 0
    BY <2>1 DEF Row
  <2>3. RunOk(j, rows'[j], run[j], tries[j], {}, fate[j])
    <3>1. CASE rows'[j] = rows[j]
      BY <1>0, <3>1 DEF RunOk
    <3>2. CASE j \in batched /\ rows'[j].here /\ rows'[j].attempts = 0
      <4>1. tries[j] >= 0
        <5>1. tries[j] \in Nat
          BY DEF IInv, StateTypes
        <5> QED
          BY <5>1
      <4>2. run[j].phase = "none" /\ fate[j] # "finished"
        BY <1>0, <3>2 DEF RunOk
      <4> QED
        BY <3>2, <4>1, <4>2 DEF RunOk
    <3> QED
      BY <2>2, <3>1, <3>2
  <2> DEFINE e == Request("flush", FALSE, Nothing)
  <2>4. e \in RequestType /\ DOMAIN e.jobs = {}
    BY MapFacts DEF Request, RequestType, Requests
  <2>5. asked' = Append(asked, e)
    BY <2>1
  <2> HIDE DEF e
  <2>6. QueueOk(j, Append(asked, e), tries[j], batched, fate[j])
    BY <1>0, <2>4, AppendOk
  <2>7. QueueOk(j, Append(asked, e), tries[j], {}, fate[j])
    BY <2>6 DEF QueueOk
  <2> QED
    BY <2>1, <2>3, <2>5, <2>7 DEF JobOk
<1>8. CASE Crash
  <2>1. /\ asked' = <<>> /\ batched' = {} /\ run' = [x \in Jobs |-> NoRun]
        /\ UNCHANGED <<rows, fate, tries>>
    BY <1>8 DEF Crash
  <2>2. run'[j].phase = "none"
    BY <2>1 DEF NoRun
  <2>3. RunOk(j, rows[j], run'[j], tries[j], {}, fate[j])
    BY <1>0, <2>2 DEF RunOk
  <2>4. QueueOk(j, <<>>, tries[j], {}, fate[j])
    BY UnknownOk
  <2> QED
    BY <2>1, <2>3, <2>4 DEF JobOk
<1>9. CASE Stop \/ UNCHANGED vars
  <2>1. UNCHANGED <<rows, run, tries, fate, batched, asked>>
    BY <1>9 DEF Stop, vars, manager
  <2> QED
    BY <1>0, <2>1, SameJob DEF QueueOk, Behind
<1>10. ASSUME NEW x \in Jobs, BackoffEnds(x) \/ Cancel(x) PROVE JobOk(j)'
  <2>1. /\ rows' = rows \/ rows' = [rows EXCEPT ![x].due = TRUE]
        /\ UNCHANGED <<run, tries, fate, batched, asked>>
    BY <1>10 DEF BackoffEnds, Cancel, manager
  <2>2. rows'[j].here = rows[j].here /\ rows'[j].attempts = rows[j].attempts
    <3>1. CASE rows' = rows
      BY <3>1
    <3>2. CASE rows' = [rows EXCEPT ![x].due = TRUE]
      BY <1>0, <3>2 DEF RowType
    <3> QED
      BY <2>1, <3>1, <3>2
  <2>3. RunOk(j, rows'[j], run[j], tries[j], batched, fate[j])
    BY <1>0, <2>2 DEF RunOk
  <2> QED
    BY <1>0, <2>1, <2>3 DEF JobOk
<1>11. ASSUME NEW x \in Jobs, CancelGivesUp(x) PROVE JobOk(j)'
  <2>1. /\ rows' = [rows EXCEPT ![x] = NoRow] /\ fate' = [fate EXCEPT ![x] = "cancelled"]
        /\ UNCHANGED <<run, tries, batched, asked>>
    BY <1>11 DEF CancelGivesUp
  <2>2. \/ rows'[j] = rows[j] /\ fate'[j] = fate[j]
        \/ ~rows'[j].here /\ fate'[j] = "cancelled"
    <3>1. NoRow.here = FALSE
      BY Records
    <3> QED
      BY <1>0, <2>1, <3>1
  <2>3. RunOk(j, rows'[j], run[j], tries[j], batched, fate'[j])
    BY <1>0, <2>2 DEF RunOk
  <2>4. QueueOk(j, asked, tries[j], batched, fate'[j])
    BY <1>0, <2>2 DEF QueueOk
  <2> QED
    BY <2>1, <2>3, <2>4 DEF JobOk
<1> QED
  BY <1>1, <1>2, <1>3, <1>4, <1>5, <1>6, <1>7, <1>8, <1>9, <1>10, <1>11
  DEF Next, Answers

\* Nothing is known of any job at first.
LEMMA JobsInitially == Init => JobInv
<1> SUFFICES ASSUME Init, NEW j \in Jobs PROVE JobOk(j)
  BY DEF JobInv
<1>1. /\ asked = <<>> /\ batched = {} /\ run[j].phase = "none" /\ ~rows[j].here
      /\ fate[j] = "none"
  BY DEF Init, InitProcess, NoRun, NoRow
<1>2. RunOk(j, rows[j], run[j], tries[j], batched, fate[j])
  BY <1>1 DEF RunOk
<1>3. QueueOk(j, asked, tries[j], batched, fate[j])
  BY <1>1, UnknownOk
<1> QED
  BY <1>2, <1>3 DEF JobOk

\* When no job is added while it is known, requests, runs and rows agree on its
\* attempts, and nothing brings back a job that has finished.
THEOREM JobInvariance == ASSUME ~ReAdds PROVE Spec => []JobInv
<1>1. IInv /\ JobInv /\ [Next]_vars => JobInv'
  BY JobsStep
<1> QED
  BY Invariance, JobsInitially, <1>1, PTL DEF Spec

\* A job that is added is in the table until it has ended, whenever the process
\* dies; unless adds are batched, which keeps them in memory for a while.
THEOREM WantedIsInTable == ASSUME ~ReAdds, ~Batches PROVE Spec => []WantedIsKept
<1>1. JobInv => WantedIsKept
  BY DEF JobInv, JobOk, RunOk, WantedIsKept
<1> QED
  BY JobInvariance, <1>1, PTL

\* Who gives a job up has run it maxAttempts times since it was added.
THEOREM AttemptsAreMade == ASSUME ~ReAdds PROVE Spec => GivenUpAfterAllAttempts
<1>1. ASSUME IInv, JobInv, [Next]_vars, NEW j \in Jobs,
             fate[j] = "wanted", fate'[j] = "given up"
      PROVE  tries[j] >= MaxAttempts
  <2>0. fate \in [Jobs -> {"none", "wanted", "finished", "given up", "cancelled"}]
    BY <1>1 DEF IInv, StateTypes
  <2>1. CASE \E x \in Jobs : RunEnds(x)
    <3>1. PICK x \in Jobs : RunEnds(x)
      BY <2>1
    <3>2. /\ run[x].phase = "running"
          /\ \E end \in {"finished", "given up", "wanted"} :
                /\ fate' = [fate EXCEPT ![x] = IF fate[x] = "wanted" THEN end ELSE fate[x]]
                /\ end = "given up" => run[x].last
      BY <3>1 DEF RunEnds, Finish, Fail, Update, RateLimit, Settle
    <3>3. j = x /\ run[j].last
      BY <1>1, <2>0, <3>2
    <3>4. RunOk(j, rows[j], run[j], tries[j], batched, fate[j])
      BY <1>1 DEF JobInv, JobOk
    <3>5. run[j].attempts + 1 <= tries[j] /\ run[j].attempts + 1 >= MaxAttempts
      BY <3>2, <3>3, <3>4 DEF RunOk
    <3>6. run[j].attempts \in Nat /\ tries[j] \in Nat /\ MaxAttempts \in Nat
      <4>1. run[j] \in RunType /\ tries[j] \in Nat
        BY <1>1 DEF IInv, StateTypes
      <4> QED
        BY <4>1, JobManagerAssumption DEF RunType
    <3> QED
      BY <3>5, <3>6
  <2>2. CASE ~\E x \in Jobs : RunEnds(x)
    <3>1. \/ fate' = fate
          \/ \E x \in Jobs : \/ fate' = [fate EXCEPT ![x] = "wanted"]
                             \/ fate' = [fate EXCEPT ![x] = "cancelled"]
      BY <1>1, <2>2
         DEF Next, Answers, ScanReturns, StartMarked, AddReturns,
             FlushReturns,
         RunJob, Close, StartEnabled, StartDisabled, Stop, WaitForIdle,
         TickFires, PauseEnds,
         BackoffEnds, Add, AddRunning, AddBatched, AddJob, Asks, Cancel,
         CancelGivesUp, Flush,
         Crash, vars
    <3> QED
      BY <1>1, <2>0, <3>1
  <2> QED
    BY <2>1, <2>2
<1>2. IInv /\ JobInv /\ [Next]_vars
      => [\A j \in Jobs : fate[j] = "wanted" /\ fate'[j] = "given up"
                          => tries[j] >= MaxAttempts]_vars
  BY <1>1
<1> QED
  BY Invariance, JobInvariance, <1>2, PTL DEF GivenUpAfterAllAttempts, Spec

\* No scan, no add and no restart begins a run of a job that has finished.
THEOREM FinishedIsFinal == ASSUME ~ReAdds PROVE Spec => FinishedStaysFinished
<1>1. ASSUME IInv, JobInv, [Next]_vars, NEW j \in Jobs, Begins(j)
      PROVE  fate[j] # "finished"
  <2>0. /\ run \in [Jobs -> RunType] /\ run[j].phase = "none" /\ run'[j].phase # "none"
        /\ QueueInv(asked, run) /\ QueueOk(j, asked, tries[j], batched, fate[j])
    BY <1>1 DEF IInv, StateTypes, JobInv, JobOk, Begins
  <2>1. ASSUME asked # <<>>, Head(asked).kind \in {"scan", "add"},
               NEW jobs \in {Nothing, Head(asked).jobs}, StartJobs(jobs)
        PROVE  fate[j] # "finished"
    <3>1. j \in DOMAIN jobs
      BY <2>0, <2>1 DEF StartJobs
    <3>2. j \in DOMAIN Head(asked).jobs
      BY <2>1, <3>1, MapFacts
    <3> QED
      BY <2>0, <2>1, <3>2, BeginsOk
  <2>2. CASE ScanReturns
    BY <2>1, <2>2 DEF ScanReturns, Answered, Answer
  <2>3. CASE AddReturns /\ Answer.flag /\ enabled
    BY <2>1, <2>3 DEF AddReturns, Answered, Answer
  <2>4. CASE ~ScanReturns /\ ~(AddReturns /\ Answer.flag /\ enabled)
    <3>1. \/ run' = run \/ run' = [x \in Jobs |-> NoRun]
          \/ \E x \in Jobs : \/ run' = [run EXCEPT ![x] = NoRun]
                             \/ run' = [run EXCEPT ![x].attempts = 0]
                             \/ run' = [run EXCEPT ![x].phase = "settling"] /\ run[x].phase # "none"
                             \/ RunJob(x)
      BY <1>1, <2>4 DEF Next, Answers, StartMarked, AddReturns, FlushReturns,
         Close, StartEnabled, StartDisabled, Stop, WaitForIdle, TickFires,
         PauseEnds,
         BackoffEnds, Add, AddRunning, AddBatched, AddJob, Cancel,
         CancelGivesUp, Flush,
         Crash, RunEnds, Finish, Fail, Update, RateLimit, Settle, vars
    <3>2. ASSUME NEW x \in Jobs, RunJob(x) PROVE FALSE
      <4>1. /\ asked # <<>> /\ Head(asked).kind = "save" /\ x \in DOMAIN Head(asked).jobs
            /\ run' = [run EXCEPT ![x].phase = "running"]
        BY <3>2 DEF RunJob, Answered, Answer
      <4>2. run[x].phase = "saving"
        BY <2>0, <4>1, TailQueue DEF Awaits, Phase
      <4> QED
        BY <2>0, <4>1, <4>2
    <3> QED
      BY <2>0, <3>1, <3>2 DEF NoRun, RunType
  <2> QED
    BY <2>2, <2>3, <2>4
<1>2. IInv /\ JobInv /\ [Next]_vars
      => [\A j \in Jobs : Begins(j) => fate[j] # "finished"]_vars
  BY <1>1
<1> QED
  BY Invariance, JobInvariance, <1>2, PTL DEF FinishedStaysFinished, Spec
=============================================================================
