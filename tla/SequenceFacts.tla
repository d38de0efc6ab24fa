---------------------------- MODULE SequenceFacts ----------------------------
(***************************************************************************)
(* What the queues' operations (Append, Tail, \o) do to the elements of a  *)
(* sequence, to how often one occurs, and to the order of two of them.     *)
(***************************************************************************)
EXTENDS Naturals, SequencesExt, SequenceTheorems, FiniteSetTheorems, TLAPS

\* j occurs in s at most once.
Once(s, j) == \A m, n \in DOMAIN s : s[m] = j /\ s[n] = j => m = n

\* Wherever j occurs in s, an i is before it.
Follows(s, j, i) ==
    \A n \in DOMAIN s : s[n] = j => \E m \in DOMAIN s : m < n /\ s[m] = i

-----------------------------------------------------------------------------
\* The empty sequence has no elements, hence nothing twice or out of order.
LEMMA EmptyFacts ==
    /\ ToSet(<<>>) = {}
    /\ \A j : Once(<<>>, j)
    /\ \A j, i : Follows(<<>>, j, i)
BY DEF ToSet, Once, Follows

\* What Append does to the elements.
LEMMA AppendFacts ==
    ASSUME NEW S, NEW s \in Seq(S), NEW e \in S
    PROVE  /\ Append(s, e) \in Seq(S)
           /\ ToSet(Append(s, e)) = ToSet(s) \cup {e}
           /\ Append(s, e) # <<>>
           /\ s # <<>> => Head(Append(s, e)) = Head(s)
           /\ s = <<>> => Head(Append(s, e)) = e
<1>1. /\ Append(s, e) \in Seq(S)
      /\ DOMAIN Append(s, e) = 1..(Len(s) + 1)
      /\ DOMAIN s = 1..Len(s) /\ Len(s) \in Nat
      /\ \A i \in 1..Len(s) : Append(s, e)[i] = s[i]
      /\ Append(s, e)[Len(s) + 1] = e
  BY AppendProperties, LenProperties
<1>2. ToSet(Append(s, e)) = ToSet(s) \cup {e}
  <2>1. ASSUME NEW x \in ToSet(Append(s, e)) PROVE x \in ToSet(s) \cup {e}
    BY <1>1, <2>1 DEF ToSet
  <2>2. ASSUME NEW x \in ToSet(s) PROVE x \in ToSet(Append(s, e))
    <3>1. PICK n \in 1..Len(s) : x = s[n]
      BY <1>1 DEF ToSet
    <3>2. n \in DOMAIN Append(s, e) /\ Append(s, e)[n] = x
      BY <1>1, <3>1
    <3>. QED
      BY <3>2 DEF ToSet
  <2>3. e \in ToSet(Append(s, e))
    <3>1. Len(s) + 1 \in DOMAIN Append(s, e)
      BY <1>1
    <3>. QED
      BY <1>1, <3>1 DEF ToSet
  <2>. QED
    BY <2>1, <2>2, <2>3
<1>3. Append(s, e) # <<>>
  BY AppendProperties
<1>4. Head(Append(s, e)) = IF s = <<>> THEN e ELSE Head(s)
  BY HeadTailAppend
<1>. QED
  BY <1>1, <1>2, <1>3, <1>4

\* What Tail does to the elements.
LEMMA TailFacts ==
    ASSUME NEW S, NEW s \in Seq(S), s # <<>>
    PROVE  /\ Tail(s) \in Seq(S) /\ Head(s) \in S
           /\ Head(s) \in ToSet(s)
           /\ ToSet(s) = {Head(s)} \cup ToSet(Tail(s))
<1>1. /\ Tail(s) \in Seq(S) /\ Head(s) \in S
      /\ Len(s) \in Nat \ {0} /\ DOMAIN s = 1..Len(s)
      /\ DOMAIN Tail(s) = 1..(Len(s) - 1)
      /\ \A i \in 1..(Len(s) - 1) : Tail(s)[i] = s[i + 1]
      /\ Head(s) = s[1]
  BY HeadTailProperties, LenProperties, EmptySeq
<1>2. Head(s) \in ToSet(s)
  BY <1>1 DEF ToSet
<1>3. ASSUME NEW x \in ToSet(s) PROVE x \in {Head(s)} \cup ToSet(Tail(s))
  <2>1. PICK n \in 1..Len(s) : x = s[n]
    BY <1>1 DEF ToSet
  <2>2. CASE n = 1
    BY <1>1, <2>1, <2>2
  <2>3. CASE n # 1
    <3>1. n - 1 \in 1..(Len(s) - 1) /\ Tail(s)[n - 1] = x
      BY <1>1, <2>1, <2>3
    <3>. QED
      BY <1>1, <3>1 DEF ToSet
  <2>. QED
    BY <2>2, <2>3
<1>4. ASSUME NEW x \in ToSet(Tail(s)) PROVE x \in ToSet(s)
  <2>1. PICK n \in 1..(Len(s) - 1) : x = Tail(s)[n]
    BY <1>1 DEF ToSet
  <2>2. n + 1 \in DOMAIN s /\ s[n + 1] = x
    BY <1>1, <2>1
  <2>. QED
    BY <2>2 DEF ToSet
<1>. QED
  BY <1>1, <1>2, <1>3, <1>4

\* What concatenation does to the elements.
LEMMA ConcatFacts ==
    ASSUME NEW S, NEW s \in Seq(S), NEW t \in Seq(S)
    PROVE  s \o t \in Seq(S) /\ ToSet(s \o t) = ToSet(s) \cup ToSet(t)
<1>1. /\ s \o t \in Seq(S)
      /\ DOMAIN (s \o t) = 1..(Len(s) + Len(t))
      /\ DOMAIN s = 1..Len(s) /\ DOMAIN t = 1..Len(t)
      /\ Len(s) \in Nat /\ Len(t) \in Nat
      /\ \A i \in 1..(Len(s) + Len(t)) :
            (s \o t)[i] = IF i <= Len(s) THEN s[i] ELSE t[i - Len(s)]
  BY ConcatProperties, LenProperties
<1>2. ASSUME NEW x \in ToSet(s \o t) PROVE x \in ToSet(s) \cup ToSet(t)
  <2>1. PICK n \in 1..(Len(s) + Len(t)) : x = (s \o t)[n]
    BY <1>1 DEF ToSet
  <2>2. CASE n <= Len(s)
    BY <1>1, <2>1, <2>2 DEF ToSet
  <2>3. CASE n > Len(s)
    <3>1. n - Len(s) \in 1..Len(t) /\ x = t[n - Len(s)]
      BY <1>1, <2>1, <2>3
    <3>. QED
      BY <1>1, <3>1 DEF ToSet
  <2>. QED
    BY <1>1, <2>2, <2>3
<1>3. ASSUME NEW x \in ToSet(s) PROVE x \in ToSet(s \o t)
  <2>1. PICK n \in 1..Len(s) : x = s[n]
    BY <1>1 DEF ToSet
  <2>2. n \in DOMAIN (s \o t) /\ (s \o t)[n] = x
    BY <1>1, <2>1
  <2>. QED
    BY <2>2 DEF ToSet
<1>4. ASSUME NEW x \in ToSet(t) PROVE x \in ToSet(s \o t)
  <2>1. PICK n \in 1..Len(t) : x = t[n]
    BY <1>1 DEF ToSet
  <2>2. n + Len(s) \in DOMAIN (s \o t) /\ (s \o t)[n + Len(s)] = x
    BY <1>1, <2>1
  <2>. QED
    BY <2>2 DEF ToSet
<1>. QED
  BY <1>1, <1>2, <1>3, <1>4

-----------------------------------------------------------------------------
\* Appending what is not there yet repeats nothing.
LEMMA OnceAppend ==
    ASSUME NEW S, NEW s \in Seq(S), NEW e \in S, NEW j,
           Once(s, j), e = j => j \notin ToSet(s)
    PROVE  Once(Append(s, e), j)
<1>1. /\ DOMAIN Append(s, e) = 1..(Len(s) + 1)
      /\ DOMAIN s = 1..Len(s) /\ Len(s) \in Nat
      /\ \A i \in 1..Len(s) : Append(s, e)[i] = s[i]
      /\ Append(s, e)[Len(s) + 1] = e
  BY AppendProperties, LenProperties
<1>. QED
  BY <1>1 DEF Once, ToSet

\* The head of a sequence is gone from its tail if it was there once.
LEMMA OnceTail ==
    ASSUME NEW S, NEW s \in Seq(S), s # <<>>, NEW j, Once(s, j)
    PROVE  Once(Tail(s), j) /\ (Head(s) = j => j \notin ToSet(Tail(s)))
<1>1. /\ Len(s) \in Nat \ {0} /\ DOMAIN s = 1..Len(s)
      /\ DOMAIN Tail(s) = 1..(Len(s) - 1)
      /\ \A i \in 1..(Len(s) - 1) : Tail(s)[i] = s[i + 1]
      /\ Head(s) = s[1]
  BY HeadTailProperties, LenProperties, EmptySeq
<1>2. Once(Tail(s), j)
  BY <1>1 DEF Once
<1>3. ASSUME Head(s) = j PROVE j \notin ToSet(Tail(s))
  <2>1. ASSUME NEW n \in 1..(Len(s) - 1), Tail(s)[n] = j PROVE FALSE
    <3>1. n + 1 \in DOMAIN s /\ 1 \in DOMAIN s /\ s[n + 1] = j /\ s[1] = j
      BY <1>1, <1>3, <2>1
    <3>. QED
      BY <3>1 DEF Once
  <2>. QED
    BY <1>1, <2>1 DEF ToSet
<1>. QED
  BY <1>2, <1>3

\* What is once in one of two sequences, and not in the other, is once in both.
LEMMA OnceConcat ==
    ASSUME NEW S, NEW s \in Seq(S), NEW t \in Seq(S), NEW j,
           Once(s, j), Once(t, j), j \notin ToSet(s) \/ j \notin ToSet(t)
    PROVE  Once(s \o t, j)
<1>1. /\ DOMAIN (s \o t) = 1..(Len(s) + Len(t))
      /\ DOMAIN s = 1..Len(s) /\ DOMAIN t = 1..Len(t)
      /\ Len(s) \in Nat /\ Len(t) \in Nat
      /\ \A i \in 1..(Len(s) + Len(t)) :
            (s \o t)[i] = IF i <= Len(s) THEN s[i] ELSE t[i - Len(s)]
  BY ConcatProperties, LenProperties
<1>2. SUFFICES ASSUME NEW m \in DOMAIN (s \o t), NEW n \in DOMAIN (s \o t),
                      (s \o t)[m] = j, (s \o t)[n] = j
               PROVE  m = n
  BY DEF Once
<1>3. ASSUME NEW x \in 1..(Len(s) + Len(t)), (s \o t)[x] = j
      PROVE  \/ x \in DOMAIN s /\ s[x] = j /\ j \in ToSet(s)
             \/ x - Len(s) \in DOMAIN t /\ t[x - Len(s)] = j /\ j \in ToSet(t)
  <2>1. CASE x <= Len(s)
    <3>1. x \in DOMAIN s /\ s[x] = j
      BY <1>1, <1>3, <2>1
    <3>. QED
      BY <3>1 DEF ToSet
  <2>2. CASE x > Len(s)
    <3>1. x - Len(s) \in DOMAIN t /\ t[x - Len(s)] = j
      BY <1>1, <1>3, <2>2
    <3>. QED
      BY <3>1 DEF ToSet
  <2>. QED
    BY <1>1, <2>1, <2>2
<1>4. /\ \/ m \in DOMAIN s /\ s[m] = j /\ j \in ToSet(s)
         \/ m - Len(s) \in DOMAIN t /\ t[m - Len(s)] = j /\ j \in ToSet(t)
      /\ \/ n \in DOMAIN s /\ s[n] = j /\ j \in ToSet(s)
         \/ n - Len(s) \in DOMAIN t /\ t[n - Len(s)] = j /\ j \in ToSet(t)
  BY <1>1, <1>2, <1>3
<1>5. CASE j \notin ToSet(t)
  BY <1>4, <1>5 DEF Once
<1>6. CASE j \notin ToSet(s)
  <2>1. m - Len(s) = n - Len(s)
    BY <1>4, <1>6 DEF Once
  <2>. QED
    BY <1>1, <1>2, <2>1
<1>. QED
  BY <1>5, <1>6

\* What is in a sequence once is counted once.
LEMMA OnceIsOnePlace ==
    ASSUME NEW s, NEW j, Once(s, j)
    PROVE  Cardinality({n \in DOMAIN s : s[n] = j})
               = IF j \in ToSet(s) THEN 1 ELSE 0
<1> DEFINE places == {n \in DOMAIN s : s[n] = j}
<1>1. CASE j \notin ToSet(s)
  <2>1. places = {}
    BY <1>1 DEF ToSet
  <2>. QED
    BY <1>1, <2>1, FS_EmptySet
<1>2. CASE j \in ToSet(s)
  <2>1. PICK n \in DOMAIN s : s[n] = j
    BY <1>2 DEF ToSet
  <2>2. places = {n}
    BY <2>1 DEF Once
  <2>3. Cardinality(places) = 1
    BY <2>2, FS_Singleton
  <2>. QED
    BY <1>2, <2>3
<1>. QED
  BY <1>1, <1>2

-----------------------------------------------------------------------------
\* The order of a sequence to which an element is appended.
LEMMA FollowsAppend ==
    ASSUME NEW S, NEW s \in Seq(S), NEW e \in S, NEW j, NEW i,
           Follows(s, j, i), e = j => i \in ToSet(s)
    PROVE  Follows(Append(s, e), j, i)
<1>1. /\ DOMAIN Append(s, e) = 1..(Len(s) + 1)
      /\ DOMAIN s = 1..Len(s) /\ Len(s) \in Nat
      /\ \A k \in 1..Len(s) : Append(s, e)[k] = s[k]
      /\ Append(s, e)[Len(s) + 1] = e
  BY AppendProperties, LenProperties
<1>2. SUFFICES ASSUME NEW n \in 1..(Len(s) + 1), Append(s, e)[n] = j
               PROVE  \E m \in 1..Len(s) : m < n /\ s[m] = i
  BY <1>1 DEF Follows
<1>3. CASE n \in 1..Len(s)
  BY <1>1, <1>2, <1>3 DEF Follows
<1>4. CASE n = Len(s) + 1
  <2>1. PICK m \in 1..Len(s) : s[m] = i
    BY <1>1, <1>2, <1>4 DEF ToSet
  <2>. QED
    BY <1>1, <1>4, <2>1
<1>. QED
  BY <1>1, <1>3, <1>4

\* The order of a tail; what follows another element is no head.
LEMMA FollowsTail ==
    ASSUME NEW S, NEW s \in Seq(S), s # <<>>, NEW j, NEW i,
           Follows(s, j, i)
    PROVE  Head(s) # j /\ (Head(s) # i => Follows(Tail(s), j, i))
<1>1. /\ Len(s) \in Nat \ {0} /\ DOMAIN s = 1..Len(s)
      /\ DOMAIN Tail(s) = 1..(Len(s) - 1)
      /\ \A k \in 1..(Len(s) - 1) : Tail(s)[k] = s[k + 1]
      /\ Head(s) = s[1]
  BY HeadTailProperties, LenProperties, EmptySeq
<1>2. Head(s) # j
  BY <1>1 DEF Follows
<1>3. ASSUME Head(s) # i PROVE Follows(Tail(s), j, i)
  <2>1. SUFFICES ASSUME NEW n \in 1..(Len(s) - 1), Tail(s)[n] = j
                 PROVE  \E m \in 1..(Len(s) - 1) : m < n /\ Tail(s)[m] = i
    BY <1>1 DEF Follows
  <2>2. n + 1 \in DOMAIN s /\ s[n + 1] = j
    BY <1>1, <2>1
  <2>3. PICK m \in DOMAIN s : m < n + 1 /\ s[m] = i
    BY <2>2 DEF Follows
  <2>4. m # 1
    BY <1>1, <1>3, <2>3
  <2>5. m - 1 \in 1..(Len(s) - 1) /\ m - 1 < n /\ Tail(s)[m - 1] = i
    BY <1>1, <2>1, <2>3, <2>4
  <2>. QED
    BY <2>5
<1>. QED
  BY <1>2, <1>3

\* The order of a concatenation.
LEMMA FollowsConcat ==
    ASSUME NEW S, NEW s \in Seq(S), NEW t \in Seq(S), NEW j, NEW i,
           Follows(s, j, i),
           j \in ToSet(t) => Follows(t, j, i) \/ i \in ToSet(s)
    PROVE  Follows(s \o t, j, i)
<1>1. /\ DOMAIN (s \o t) = 1..(Len(s) + Len(t))
      /\ DOMAIN s = 1..Len(s) /\ DOMAIN t = 1..Len(t)
      /\ Len(s) \in Nat /\ Len(t) \in Nat
      /\ \A k \in 1..(Len(s) + Len(t)) :
            (s \o t)[k] = IF k <= Len(s) THEN s[k] ELSE t[k - Len(s)]
  BY ConcatProperties, LenProperties
<1>2. SUFFICES ASSUME NEW n \in 1..(Len(s) + Len(t)), (s \o t)[n] = j
               PROVE  \E m \in 1..(Len(s) + Len(t)) :
                          m < n /\ (s \o t)[m] = i
  BY <1>1 DEF Follows
<1>3. CASE n <= Len(s)
  <2>1. n \in DOMAIN s /\ s[n] = j
    BY <1>1, <1>2, <1>3
  <2>2. PICK m \in DOMAIN s : m < n /\ s[m] = i
    BY <2>1 DEF Follows
  <2>. QED
    BY <1>1, <2>2
<1>4. CASE n > Len(s)
  <2>1. n - Len(s) \in DOMAIN t /\ t[n - Len(s)] = j
    BY <1>1, <1>2, <1>4
  <2>2. j \in ToSet(t)
    BY <2>1 DEF ToSet
  <2>3. CASE i \in ToSet(s)
    <3>1. PICK m \in DOMAIN s : s[m] = i
      BY <2>3 DEF ToSet
    <3>. QED
      BY <1>1, <1>4, <3>1
  <2>4. CASE Follows(t, j, i)
    <3>1. PICK m \in DOMAIN t : m < n - Len(s) /\ t[m] = i
      BY <2>1, <2>4 DEF Follows
    <3>2. /\ m + Len(s) \in 1..(Len(s) + Len(t))
          /\ m + Len(s) < n /\ (s \o t)[m + Len(s)] = i
      BY <1>1, <1>2, <3>1
    <3>. QED
      BY <3>2
  <2>. QED
    BY <2>2, <2>3, <2>4
<1>. QED
  BY <1>1, <1>3, <1>4

-----------------------------------------------------------------------------
\* s lists the numbers of T, each once, the smallest first.
Sorting(s, T) ==
    /\ s \in [1..Cardinality(T) -> T]
    /\ \A m, n \in DOMAIN s : m < n => s[m] < s[n]

\* Every finite set of numbers can be sorted: a number's place is how many there
\* are up to it.
LEMMA SortExists ==
    ASSUME NEW T \in SUBSET Nat, IsFiniteSet(T)
    PROVE  \E s : Sorting(s, T)
<1> DEFINE n == Cardinality(T)
           R(x) == {y \in T : y <= x}
           rank == [x \in T |-> Cardinality(R(x))]
<1>1. T \subseteq Nat /\ IsFiniteSet(T) /\ n \in Nat
  BY FS_CardinalityType
<1>2. IsFiniteSet(1..n) /\ Cardinality(1..n) = n
  BY <1>1, FS_Interval
<1>3. ASSUME NEW x \in T
      PROVE  IsFiniteSet(R(x)) /\ rank[x] \in 1..n /\ rank[x] = Cardinality(R(x))
  <2>1. R(x) \in SUBSET T /\ x \in R(x)
    BY <1>1
  <2>2. IsFiniteSet(R(x)) /\ Cardinality(R(x)) <= n
    BY <1>1, <2>1, FS_Subset
  <2>3. Cardinality(R(x)) \in Nat /\ Cardinality(R(x)) # 0
    BY <2>1, <2>2, FS_CardinalityType, FS_EmptySet
  <2>. QED
    BY <1>1, <2>2, <2>3
<1>4. ASSUME NEW x \in T, NEW y \in T, x < y PROVE rank[x] < rank[y]
  <2>1. R(x) \in SUBSET R(y) /\ y \in R(y) /\ y \notin R(x)
    <3>1. x \in Nat /\ y \in Nat /\ \A z \in T : z \in Nat
      BY <1>1
    <3>2. ASSUME NEW z \in R(x) PROVE z \in R(y)
      BY <1>4, <3>1, <3>2
    <3>3. y \in R(y) /\ y \notin R(x)
      BY <1>4, <3>1
    <3> HIDE DEF R
    <3>. QED
      BY <3>2, <3>3
  <2>2. Cardinality(R(x)) <= Cardinality(R(y)) /\ Cardinality(R(x)) # Cardinality(R(y))
    BY <1>3, <2>1, FS_Subset
  <2>3. rank[x] \in Nat /\ rank[y] \in Nat
    BY <1>3
  <2>. QED
    BY <1>3, <2>2, <2>3
<1>5. rank \in Injection(T, 1..n)
  <2>1. ASSUME NEW x \in T, NEW y \in T, rank[x] = rank[y] PROVE x = y
    <3>1. ~(x < y) /\ ~(y < x)
      <4>1. rank[x] \in Nat /\ rank[y] \in Nat
        BY <1>3
      <4>. QED
        BY <1>4, <2>1, <4>1
    <3>. QED
      BY <1>1, <3>1
  <2>2. rank \in [T -> 1..n]
    BY <1>3
  <2>. QED
    BY <2>1, <2>2 DEF Injection, IsInjective
<1>6. rank \in Surjection(T, 1..n)
  BY <1>1, <1>2, <1>5, FS_Injection
<1> DEFINE g == [k \in 1..n |-> CHOOSE x \in T : rank[x] = k]
<1>7. ASSUME NEW k \in 1..n PROVE g[k] \in T /\ rank[g[k]] = k
  BY <1>6 DEF Surjection
<1> DEFINE Sorted(s) == \A a, b \in DOMAIN s : a < b => s[a] < s[b]
<1>8. g \in [1..n -> T] /\ Sorted(g)
  <2>1. ASSUME NEW a \in 1..n, NEW b \in 1..n, a < b PROVE g[a] < g[b]
    <3>1. g[a] \in T /\ g[b] \in T /\ rank[g[a]] = a /\ rank[g[b]] = b
      BY <1>7
    <3> HIDE DEF g, rank
    <3>2. ~(g[b] < g[a])
      <4>1. SUFFICES ASSUME g[b] < g[a] PROVE FALSE
        OBVIOUS
      <4>2. b < a
        BY <1>4, <3>1, <4>1
      <4>. QED
        BY <1>1, <2>1, <4>2
    <3>3. g[a] \in Nat /\ g[b] \in Nat
      BY <1>1, <3>1
    <3>4. g[b] # g[a]
      BY <1>1, <2>1, <3>1
    <3>. QED
      BY <3>2, <3>3, <3>4
  <2>. QED
    BY <1>7, <2>1
<1>. QED
  <2> HIDE DEF g
  <2>. QED
    BY <1>8 DEF Sorting

\* What sorting gives.
LEMMA SortedFacts ==
    ASSUME NEW T \in SUBSET Nat, IsFiniteSet(T), NEW t, Sorting(t, T)
    PROVE  /\ t \in Seq(T) /\ ToSet(t) = T
           /\ \A j : Once(t, j)
           /\ \A i, j \in T : i < j => Follows(t, j, i)
<1> DEFINE n == Cardinality(T)
           Sorted(s) == \A a, b \in DOMAIN s : a < b => s[a] < s[b]
<1>1. T \subseteq Nat /\ IsFiniteSet(T) /\ n \in Nat
  BY FS_CardinalityType
<1>2. IsFiniteSet(1..n) /\ Cardinality(1..n) = n
  BY <1>1, FS_Interval
<1>9. t \in [1..n -> T] /\ Sorted(t)
  BY DEF Sorting
<1>10. t \in Seq(T) /\ DOMAIN t = 1..n
  BY <1>1, <1>9, SeqDef
<1>11. ASSUME NEW a \in 1..n, NEW b \in 1..n, t[a] = t[b] PROVE a = b
  <2>1. ~(a < b) /\ ~(b < a)
    <3>1. t[a] \in Nat /\ t[b] \in Nat
      BY <1>1, <1>9
    <3>. QED
      BY <1>9, <1>11, <3>1
  <2>. QED
    BY <1>1, <2>1
<1>12. t \in Surjection(1..n, T)
  <2>1. t \in Injection(1..n, T)
    BY <1>9, <1>11 DEF Injection, IsInjective
  <2>. QED
    BY <1>1, <1>2, <2>1, FS_Injection
<1>13. ToSet(t) = T
  <2>1. ASSUME NEW x \in T PROVE x \in ToSet(t)
    <3>1. \E k \in 1..n : t[k] = x
      BY <1>12 DEF Surjection
    <3>. QED
      BY <1>10, <3>1 DEF ToSet
  <2>2. ASSUME NEW x \in ToSet(t) PROVE x \in T
    BY <1>9, <1>10, <2>2 DEF ToSet
  <2>. QED
    BY <2>1, <2>2
<1>14. ASSUME NEW i \in T, NEW j \in T, i < j PROVE Follows(t, j, i)
  <2>1. SUFFICES ASSUME NEW b \in 1..n, t[b] = j
                 PROVE  \E a \in 1..n : a < b /\ t[a] = i
    BY <1>10 DEF Follows
  <2>2. PICK a \in 1..n : t[a] = i
    BY <1>12 DEF Surjection
  <2>3. ~(b < a) /\ a # b
    <3>1. i \in Nat /\ j \in Nat
      BY <1>1
    <3>. QED
      BY <1>9, <1>10, <1>14, <2>1, <2>2, <3>1
  <2>. QED
    BY <1>1, <2>2, <2>3
<1>15. \A j : Once(t, j)
  BY <1>10, <1>11 DEF Once
<1>. QED
  BY <1>10, <1>13, <1>14, <1>15

\* A finite set of numbers has a largest one.
LEMMA LargestExists ==
    ASSUME NEW T \in SUBSET Nat, IsFiniteSet(T), T # {}
    PROVE  \E m \in T : \A x \in T : x <= m
<1>1. PICK s : Sorting(s, T)
  BY SortExists
<1> DEFINE n == Cardinality(T)
<1>2. n \in Nat /\ n # 0
  BY FS_CardinalityType, FS_EmptySet
<1>3. DOMAIN s = 1..n /\ (\A i \in 1..n : s[i] \in T)
  BY <1>1 DEF Sorting
<1>4. ToSet(s) = T
  BY <1>1, SortedFacts
<1>5. n \in 1..n
  BY <1>2
<1>6. ASSUME NEW x \in T PROVE x <= s[n]
  <2>1. PICK i \in 1..n : s[i] = x
    BY <1>3, <1>4 DEF ToSet
  <2>2. i < n => s[i] < s[n]
    BY <1>1, <1>3, <1>5 DEF Sorting
  <2>3. s[n] \in Nat /\ x \in Nat
    BY <1>3, <1>5
  <2>4. i < n \/ i = n
    BY <1>2
  <2> HIDE DEF n
  <2>. QED
    BY <2>1, <2>2, <2>3, <2>4
<1>. QED
  BY <1>3, <1>5, <1>6

\* And a smallest one.
LEMMA SmallestExists ==
    ASSUME NEW T \in SUBSET Nat, IsFiniteSet(T), T # {}
    PROVE  \E m \in T : \A x \in T : m <= x
<1>1. PICK s : Sorting(s, T)
  BY SortExists
<1> DEFINE n == Cardinality(T)
<1>2. n \in Nat /\ n # 0
  BY FS_CardinalityType, FS_EmptySet
<1>3. DOMAIN s = 1..n /\ (\A i \in 1..n : s[i] \in T)
  BY <1>1 DEF Sorting
<1>4. ToSet(s) = T
  BY <1>1, SortedFacts
<1>5. 1 \in 1..n
  BY <1>2
<1>6. ASSUME NEW x \in T PROVE s[1] <= x
  <2>1. PICK i \in 1..n : s[i] = x
    BY <1>3, <1>4 DEF ToSet
  <2>2. 1 < i => s[1] < s[i]
    BY <1>1, <1>3, <1>5 DEF Sorting
  <2>3. s[1] \in Nat /\ x \in Nat
    BY <1>3, <1>5
  <2>4. 1 < i \/ i = 1
    BY <1>2
  <2> HIDE DEF n
  <2>. QED
    BY <2>1, <2>2, <2>3, <2>4
<1>. QED
  BY <1>3, <1>5, <1>6

-----------------------------------------------------------------------------
\* Any two elements of s, in their order, are in the relation R.
Pairwise(s, R) == \A m, n \in DOMAIN s : m < n => <<s[m], s[n]>> \in R

\* R holds from every element of A to every one of B.
Cross(A, B, R) == \A x \in A, y \in B : <<x, y>> \in R

\* The empty sequence has no pairs.
LEMMA PairwiseEmpty == \A R : Pairwise(<<>>, R)
BY DEF Pairwise

\* An appended element comes after all others.
LEMMA PairwiseAppend ==
    ASSUME NEW S, NEW s \in Seq(S), NEW e \in S, NEW R,
           Pairwise(s, R), Cross(ToSet(s), {e}, R)
    PROVE  Pairwise(Append(s, e), R)
<1>1. /\ DOMAIN Append(s, e) = 1..(Len(s) + 1)
      /\ DOMAIN s = 1..Len(s) /\ Len(s) \in Nat
      /\ \A i \in 1..Len(s) : Append(s, e)[i] = s[i]
      /\ Append(s, e)[Len(s) + 1] = e
  BY AppendProperties, LenProperties
<1>2. ASSUME NEW m \in 1..(Len(s) + 1), NEW n \in 1..(Len(s) + 1), m < n
      PROVE  <<Append(s, e)[m], Append(s, e)[n]>> \in R
  <2>1. m \in 1..Len(s) /\ s[m] \in ToSet(s)
    BY <1>1, <1>2 DEF ToSet
  <2>2. CASE n \in 1..Len(s)
    BY <1>1, <1>2, <2>1, <2>2 DEF Pairwise
  <2>3. CASE n = Len(s) + 1
    BY <1>1, <2>1, <2>3 DEF Cross
  <2>. QED
    BY <1>1, <2>2, <2>3
<1>. QED
  BY <1>1, <1>2 DEF Pairwise

\* The head comes before the tail.
LEMMA PairwiseTail ==
    ASSUME NEW S, NEW s \in Seq(S), s # <<>>, NEW R, Pairwise(s, R)
    PROVE  Pairwise(Tail(s), R) /\ Cross({Head(s)}, ToSet(Tail(s)), R)
<1>1. /\ Len(s) \in Nat \ {0} /\ DOMAIN s = 1..Len(s)
      /\ DOMAIN Tail(s) = 1..(Len(s) - 1)
      /\ \A i \in 1..(Len(s) - 1) : Tail(s)[i] = s[i + 1]
      /\ Head(s) = s[1]
  BY HeadTailProperties, LenProperties, EmptySeq
<1>2. Pairwise(Tail(s), R)
  BY <1>1 DEF Pairwise
<1>3. ASSUME NEW y \in ToSet(Tail(s)) PROVE <<Head(s), y>> \in R
  <2>1. PICK n \in 1..(Len(s) - 1) : y = Tail(s)[n]
    BY <1>1 DEF ToSet
  <2>2. n + 1 \in DOMAIN s /\ 1 \in DOMAIN s /\ 1 < n + 1 /\ y = s[n + 1]
    BY <1>1, <2>1
  <2>. QED
    BY <1>1, <2>2 DEF Pairwise
<1>. QED
  BY <1>2, <1>3 DEF Cross

\* In a concatenation the elements of s come before those of t.
LEMMA PairwiseConcat ==
    ASSUME NEW S, NEW s \in Seq(S), NEW t \in Seq(S), NEW R,
           Pairwise(s, R), Pairwise(t, R), Cross(ToSet(s), ToSet(t), R)
    PROVE  Pairwise(s \o t, R)
<1>1. /\ DOMAIN (s \o t) = 1..(Len(s) + Len(t))
      /\ DOMAIN s = 1..Len(s) /\ DOMAIN t = 1..Len(t)
      /\ Len(s) \in Nat /\ Len(t) \in Nat
      /\ \A k \in 1..(Len(s) + Len(t)) :
            (s \o t)[k] = IF k <= Len(s) THEN s[k] ELSE t[k - Len(s)]
  BY ConcatProperties, LenProperties
<1>2. ASSUME NEW m \in 1..(Len(s) + Len(t)), NEW n \in 1..(Len(s) + Len(t)),
             m < n
      PROVE  <<(s \o t)[m], (s \o t)[n]>> \in R
  <2>1. CASE n <= Len(s)
    BY <1>1, <1>2, <2>1 DEF Pairwise
  <2>2. CASE m > Len(s)
    <3>1. /\ m - Len(s) \in DOMAIN t /\ n - Len(s) \in DOMAIN t
          /\ m - Len(s) < n - Len(s)
          /\ (s \o t)[m] = t[m - Len(s)] /\ (s \o t)[n] = t[n - Len(s)]
      BY <1>1, <1>2, <2>2
    <3>. QED
      BY <3>1 DEF Pairwise
  <2>3. CASE m <= Len(s) /\ n > Len(s)
    <3>1. /\ m \in DOMAIN s /\ n - Len(s) \in DOMAIN t
          /\ (s \o t)[m] = s[m] /\ (s \o t)[n] = t[n - Len(s)]
      BY <1>1, <1>2, <2>3
    <3>2. s[m] \in ToSet(s) /\ t[n - Len(s)] \in ToSet(t)
      BY <3>1 DEF ToSet
    <3>. QED
      BY <3>1, <3>2 DEF Cross
  <2>. QED
    <3>1. n <= Len(s) \/ m > Len(s) \/ (m <= Len(s) /\ n > Len(s))
      BY <1>1
    <3>. QED
      BY <2>1, <2>2, <2>3, <3>1
<1>. QED
  BY <1>1, <1>2 DEF Pairwise

\* A sequence cut in two: the elements, and the order within and across.
LEMMA SplitFacts ==
    ASSUME NEW S, NEW s \in Seq(S), NEW k \in 1..Len(s)
    PROVE  /\ SubSeq(s, 1, k) \in Seq(S) /\ SubSeq(s, k + 1, Len(s)) \in Seq(S)
           /\ ToSet(SubSeq(s, 1, k)) \subseteq ToSet(s)
           /\ ToSet(SubSeq(s, k + 1, Len(s))) \subseteq ToSet(s)
           /\ \A R : Pairwise(s, R) =>
                 /\ Pairwise(SubSeq(s, 1, k), R)
                 /\ Pairwise(SubSeq(s, k + 1, Len(s)), R)
                 /\ Cross(ToSet(SubSeq(s, 1, k)),
                          ToSet(SubSeq(s, k + 1, Len(s))), R)
<1> DEFINE a == SubSeq(s, 1, k)
           b == SubSeq(s, k + 1, Len(s))
<1>0. Len(s) \in Nat /\ k \in Nat /\ k <= Len(s)
  BY LenProperties
<1>1. /\ Len(s) \in Nat /\ DOMAIN s = 1..Len(s) /\ k \in Int
      /\ \A i \in 1..Len(s) : s[i] \in S
  BY LenProperties, ElementOfSeq
<1>2. a \in Seq(S) /\ DOMAIN a = 1..k /\ (\A i \in 1..k : a[i] = s[i])
  <2>1. \A i \in 1..k : s[i] \in S
    BY <1>1
  <2>2. /\ a \in Seq(S) /\ Len(a) = IF 1 <= k THEN k - 1 + 1 ELSE 0
        /\ \A i \in 1..(k - 1 + 1) : a[i] = s[1 + i - 1]
    BY <1>1, <2>1, SubSeqProperties
  <2>3. DOMAIN a = 1..Len(a)
    BY <2>2, LenProperties
  <2> HIDE DEF a
  <2>. QED
    BY <1>1, <2>2, <2>3
<1>3. /\ b \in Seq(S) /\ DOMAIN b = 1..(Len(s) - k)
      /\ \A i \in 1..(Len(s) - k) : b[i] = s[k + i]
  <2>1. (\A i \in (k + 1)..Len(s) : s[i] \in S) /\ k + 1 \in Int /\ Len(s) \in Int
    BY <1>1
  <2>2. /\ b \in Seq(S)
        /\ Len(b) = IF k + 1 <= Len(s) THEN Len(s) - (k + 1) + 1 ELSE 0
        /\ \A i \in 1..(Len(s) - (k + 1) + 1) : b[i] = s[(k + 1) + i - 1]
    BY <2>1, SubSeqProperties
  <2>3. DOMAIN b = 1..Len(b)
    BY <2>2, LenProperties
  <2> HIDE DEF b
  <2>4. Len(b) = Len(s) - k
    <3>1. CASE k + 1 <= Len(s)
      BY <1>1, <2>2, <3>1
    <3>2. CASE ~(k + 1 <= Len(s))
      <4>1. Len(b) = 0
        BY <2>2, <3>2
      <4>2. k = Len(s)
        BY <1>0, <3>2
      <4>. QED
        BY <1>0, <4>1, <4>2
    <3>. QED
      BY <3>1, <3>2
  <2>5. ASSUME NEW i \in 1..(Len(s) - k) PROVE b[i] = s[k + i]
    <3>1. i \in 1..(Len(s) - (k + 1) + 1) /\ (k + 1) + i - 1 = k + i
      BY <1>1
    <3>. QED
      BY <2>2, <3>1
  <2>. QED
    BY <2>2, <2>3, <2>4, <2>5
<1> HIDE DEF a, b
<1>4. ASSUME NEW x \in ToSet(a) PROVE \E i \in 1..k : a[i] = x /\ s[i] = x
  BY <1>2, <1>4 DEF ToSet
<1>5. ASSUME NEW x \in ToSet(b)
      PROVE  \E i \in (k + 1)..Len(s) : s[i] = x
  <2>1. PICK i \in 1..(Len(s) - k) : x = b[i]
    BY <1>3, <1>5 DEF ToSet
  <2>. QED
    BY <1>1, <1>3, <2>1
<1>6. ToSet(a) \subseteq ToSet(s) /\ ToSet(b) \subseteq ToSet(s)
  <2>1. 1..k \subseteq 1..Len(s) /\ (k + 1)..Len(s) \subseteq 1..Len(s)
    BY <1>1
  <2>. QED
    BY <1>1, <1>4, <1>5, <2>1 DEF ToSet
<1>7. ASSUME NEW R, Pairwise(s, R)
      PROVE  Pairwise(a, R) /\ Pairwise(b, R) /\ Cross(ToSet(a), ToSet(b), R)
  <2>1. Pairwise(a, R)
    BY <1>1, <1>2, <1>7 DEF Pairwise
  <2>2. Pairwise(b, R)
    <3>1. ASSUME NEW m \in 1..(Len(s) - k), NEW n \in 1..(Len(s) - k), m < n
          PROVE  <<b[m], b[n]>> \in R
      <4>1. /\ k + m \in DOMAIN s /\ k + n \in DOMAIN s /\ k + m < k + n
            /\ b[m] = s[k + m] /\ b[n] = s[k + n]
        BY <1>1, <1>3, <3>1
      <4>. QED
        BY <1>7, <4>1 DEF Pairwise
    <3>. QED
      BY <1>3, <3>1 DEF Pairwise
  <2>3. ASSUME NEW x \in ToSet(a), NEW y \in ToSet(b) PROVE <<x, y>> \in R
    <3>1. PICK i \in 1..k : s[i] = x
      BY <1>4
    <3>2. PICK j \in (k + 1)..Len(s) : s[j] = y
      BY <1>5
    <3>3. i \in DOMAIN s /\ j \in DOMAIN s /\ i < j
      BY <1>1
    <3>. QED
      BY <1>7, <3>1, <3>2, <3>3 DEF Pairwise
  <2>. QED
    BY <2>1, <2>2, <2>3 DEF Cross
<1>. QED
  BY <1>2, <1>3, <1>6, <1>7 DEF a, b
=============================================================================
