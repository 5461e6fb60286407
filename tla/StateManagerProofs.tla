------------------------- MODULE StateManagerProofs -------------------------
(***************************************************************************)
(* Type correctness, exact pool accounting, absence of aliasing and of     *)
(* leaks, and isolation of contents, for every size of the pools.          *)
(***************************************************************************)
EXTENDS StateManager, SequenceTheorems, TLAPS

-----------------------------------------------------------------------------
(* What the operators of IdPool return and preserve, for every capacity.   *)
Pool(capacity) ==
  [free : Seq(0..capacity - 1), live : SUBSET (0..capacity - 1)]

(* A new pool (FixedIdPool's constructor) accounts for all of its ids.     *)
LEMMA NewPoolPartitioned ==
  ASSUME NEW capacity \in Nat
  PROVE  /\ NewPool(capacity) \in Pool(capacity)
         /\ Partitioned(NewPool(capacity), capacity)
PROOF
<1> DEFINE f == [i \in 1..capacity |-> capacity - i]
<1>1. f \in Seq(0..capacity - 1)
  <2>1. f \in [1..capacity -> 0..capacity - 1]
    OBVIOUS
  <2> QED BY <2>1
<1>2. IsInjective(f)
  BY DEF IsInjective
<1>3. Range(f) = 0..capacity - 1
  <2>1. ASSUME NEW x \in 0..capacity - 1 PROVE x \in Range(f)
    <3>1. capacity - x \in 1..capacity /\ f[capacity - x] = x
      OBVIOUS
    <3> QED BY <3>1 DEF Range
  <2> QED BY <2>1 DEF Range
<1> QED BY <1>1, <1>2, <1>3 DEF NewPool, Pool, Partitioned

(* The first k elements of a list are a list of them, in the same order.   *)
LEMMA PrefixFacts ==
  ASSUME NEW S, NEW f \in Seq(S), NEW k \in Nat, k <= Len(f)
  PROVE  /\ SubSeq(f, 1, k) \in Seq(S)
         /\ Len(SubSeq(f, 1, k)) = k
         /\ \A i \in 1..k : SubSeq(f, 1, k)[i] = f[i]
PROOF
<1>1. \A i \in 1..k : f[i] \in S
  BY LenProperties, ElementOfSeq
<1>2. /\ SubSeq(f, 1, k) \in Seq(S)
      /\ Len(SubSeq(f, 1, k)) = IF 1 <= k THEN k - 1 + 1 ELSE 0
      /\ \A i \in 1..k - 1 + 1 : SubSeq(f, 1, k)[i] = f[1 + i - 1]
  <2>1. 1 \in Int /\ k \in Int
    OBVIOUS
  <2> QED BY <1>1, <2>1, SubSeqProperties
<1>3. k - 1 + 1 = k /\ (~(1 <= k) => k = 0) /\ \A i \in 1..k : 1 + i - 1 = i
  OBVIOUS
<1> QED BY <1>2, <1>3

(* Splitting an injective list f into the last n elements, in reverse (a), *)
(* and the rest (g): what acquire() does to the free list.                 *)
LEMMA PopFacts ==
  ASSUME NEW S, NEW f \in Seq(S), IsInjective(f), NEW n \in Nat, n <= Len(f),
         NEW a \in Seq(S), Len(a) = n,
         \A i \in 1..n : a[i] = f[Len(f) + 1 - i]
  PROVE  /\ IsInjective(a)
         /\ SubSeq(f, 1, Len(f) - n) \in Seq(S)
         /\ IsInjective(SubSeq(f, 1, Len(f) - n))
         /\ Range(a) \subseteq Range(f)
         /\ \A x : x \in Range(SubSeq(f, 1, Len(f) - n))
                   <=> x \in Range(f) /\ x \notin Range(a)
PROOF
<1>0. PICK g : g = SubSeq(f, 1, Len(f) - n)
  OBVIOUS
<1>1. PICK m \in Nat : m = Len(f) /\ f \in [1..m -> S]
  BY LenProperties
<1>2. a \in [1..n -> S] /\ \A i \in 1..n : a[i] = f[m + 1 - i]
  BY <1>1, LenProperties
<1>4. PICK k \in Nat : k = m - n /\ k <= m
  <2>1. m \in Nat /\ n <= m
    BY <1>1
  <2>2. m - n \in Nat /\ m - n <= m
    BY <2>1
  <2> QED BY <2>2
<1>5. /\ g \in Seq(S) /\ Len(g) = k
      /\ \A i \in 1..k : g[i] = f[i]
  <2>1. g = SubSeq(f, 1, k) /\ k <= Len(f)
    BY <1>0, <1>1, <1>4
  <2> QED BY <2>1, PrefixFacts
<1>6. g \in [1..k -> S]
  BY <1>1, <1>5, LenProperties
<1>7. \A i, j \in 1..m : f[i] = f[j] => i = j
  BY <1>1 DEF IsInjective
<1>8. IsInjective(a)
  <2> SUFFICES ASSUME NEW i \in 1..n, NEW j \in 1..n, a[i] = a[j]
               PROVE  i = j
    BY <1>2 DEF IsInjective
  <2>1. m + 1 - i \in 1..m /\ m + 1 - j \in 1..m
    BY <1>1
  <2>2. f[m + 1 - i] = f[m + 1 - j]
    BY <1>2
  <2>3. m + 1 - i = m + 1 - j
    BY <1>7, <2>1, <2>2
  <2> QED BY <1>1, <2>3
<1>9. IsInjective(g)
  <2>1. \A i \in 1..k : i \in 1..m
    BY <1>4
  <2> QED BY <1>5, <1>6, <1>7, <2>1 DEF IsInjective
<1>10. Range(a) \subseteq Range(f)
  <2>1. \A i \in 1..n : m + 1 - i \in 1..m
    BY <1>1
  <2> QED BY <1>1, <1>2, <2>1 DEF Range
<1>11. Range(g) \subseteq Range(f) \ Range(a)
  <2> SUFFICES ASSUME NEW i \in 1..k
               PROVE  g[i] \in Range(f) /\ g[i] \notin Range(a)
    BY <1>6 DEF Range
  <2>1. i \in 1..m /\ g[i] = f[i]
    BY <1>4, <1>5
  <2>2. ASSUME NEW j \in 1..n PROVE a[j] # g[i]
    <3>1. m + 1 - j \in 1..m /\ m + 1 - j # i
      BY <1>1, <1>4
    <3> QED BY <1>2, <1>7, <2>1, <3>1
  <2> QED BY <1>1, <1>2, <2>1, <2>2 DEF Range
<1>12. Range(f) \ Range(a) \subseteq Range(g)
  <2> SUFFICES ASSUME NEW i \in 1..m, f[i] \notin Range(a)
               PROVE  f[i] \in Range(g)
    BY <1>1 DEF Range
  <2>1. i \in 1..k
    <3> SUFFICES ASSUME i > k PROVE FALSE
      BY <1>4
    <3>1. m + 1 - i \in 1..n /\ m + 1 - (m + 1 - i) = i
      BY <1>1, <1>4
    <3>2. a[m + 1 - i] = f[i]
      BY <1>2, <3>1
    <3> QED BY <1>2, <3>1, <3>2 DEF Range
  <2> QED BY <1>5, <1>6, <2>1 DEF Range
<1> QED BY <1>0, <1>5, <1>8, <1>9, <1>10, <1>11, <1>12

(* Appending a list to a disjoint one: what release() does.                *)
LEMMA PushFacts ==
  ASSUME NEW S, NEW f \in Seq(S), NEW r \in Seq(S),
         IsInjective(f), IsInjective(r), Range(f) \cap Range(r) = {}
  PROVE  /\ f \o r \in Seq(S)
         /\ IsInjective(f \o r)
         /\ Range(f \o r) = Range(f) \cup Range(r)
PROOF
<1>1. PICK m \in Nat : m = Len(f) /\ f \in [1..m -> S]
  BY LenProperties
<1>2. PICK k \in Nat : k = Len(r) /\ r \in [1..k -> S]
  BY LenProperties
<1>3. PICK g : g = f \o r
  OBVIOUS
<1>4. /\ g \in Seq(S) /\ Len(g) = m + k
      /\ \A i \in 1..m + k : g[i] = IF i <= m THEN f[i] ELSE r[i - m]
  BY <1>1, <1>2, <1>3, ConcatProperties
<1>5. g \in [1..m + k -> S]
  BY <1>4, LenProperties
<1>6. /\ \A i, j \in 1..m : f[i] = f[j] => i = j
      /\ \A i, j \in 1..k : r[i] = r[j] => i = j
      /\ \A i \in 1..m, j \in 1..k : f[i] # r[j]
  BY <1>1, <1>2 DEF IsInjective, Range
<1>7. \A i \in 1..m + k : i > m => i - m \in 1..k
  BY <1>1, <1>2
<1>8. IsInjective(g)
  <2> SUFFICES ASSUME NEW i \in 1..m + k, NEW j \in 1..m + k, g[i] = g[j]
               PROVE  i = j
    BY <1>5 DEF IsInjective
  <2>1. CASE i <= m /\ j <= m
    <3>1. i \in 1..m /\ j \in 1..m
      BY <2>1
    <3>2. g[i] = f[i] /\ g[j] = f[j]
      BY <1>4, <2>1
    <3> QED BY <1>6, <3>1, <3>2
  <2>2. CASE i <= m /\ j > m
    BY <1>4, <1>6, <1>7, <2>2
  <2>3. CASE i > m /\ j <= m
    BY <1>4, <1>6, <1>7, <2>3
  <2>4. CASE i > m /\ j > m
    <3>1. i - m \in 1..k /\ j - m \in 1..k
      BY <1>7, <2>4
    <3>2. g[i] = r[i - m] /\ g[j] = r[j - m]
      BY <1>4, <2>4
    <3>3. i - m = j - m
      BY <1>6, <3>1, <3>2
    <3> QED BY <3>3
  <2> QED BY <2>1, <2>2, <2>3, <2>4
<1>9. Range(g) \subseteq Range(f) \cup Range(r)
  BY <1>1, <1>2, <1>4, <1>5, <1>7 DEF Range
<1>10. Range(f) \subseteq Range(g)
  <2>1. \A i \in 1..m : i \in 1..m + k /\ g[i] = f[i]
    BY <1>4
  <2> QED BY <1>1, <1>5, <2>1 DEF Range
<1>11. Range(r) \subseteq Range(g)
  <2>1. \A i \in 1..k : m + i \in 1..m + k /\ g[m + i] = r[i]
    <3> TAKE i \in 1..k
    <3>1. m + i \in 1..m + k /\ ~(m + i <= m) /\ (m + i) - m = i
      OBVIOUS
    <3> QED BY <1>4, <3>1
  <2> QED BY <1>2, <1>5, <2>1 DEF Range
<1> QED BY <1>3, <1>4, <1>8, <1>9, <1>10, <1>11

(* n acquire() calls on a pool with n free ids return n distinct ids that  *)
(* were free, and leave an exactly accounted pool.                         *)
LEMMA AcquireFacts ==
  ASSUME NEW capacity \in Nat, NEW pool \in Pool(capacity),
         Partitioned(pool, capacity),
         NEW n \in Nat, CanAcquire(pool, n)
  PROVE  /\ AfterAcquire(pool, n) \in Pool(capacity)
         /\ Partitioned(AfterAcquire(pool, n), capacity)
         /\ Acquired(pool, n) \in Seq(0..capacity - 1)
         /\ Len(Acquired(pool, n)) = n
         /\ IsInjective(Acquired(pool, n))
         /\ Range(Acquired(pool, n)) \cap pool.live = {}
         /\ AfterAcquire(pool, n).live = pool.live \cup Range(Acquired(pool, n))
PROOF
<1>1. PICK f \in Seq(0..capacity - 1), live \in SUBSET (0..capacity - 1) :
        pool.free = f /\ pool.live = live
  BY DEF Pool
<1>2. PICK a : a = [i \in 1..n |-> f[Len(f) + 1 - i]]
  OBVIOUS
<1>3. PICK g : g = SubSeq(f, 1, Len(f) - n)
  OBVIOUS
<1>4. Acquired(pool, n) = a
  BY <1>1, <1>2 DEF Acquired
<1>5. AfterAcquire(pool, n) = [free |-> g, live |-> live \cup Range(a)]
  BY <1>1, <1>3, <1>4 DEF AfterAcquire
<1>6. IsInjective(f) /\ Range(f) = (0..capacity - 1) \ live
  BY <1>1 DEF Partitioned
<1>7. n <= Len(f)
  BY <1>1 DEF CanAcquire
<1>8. /\ a \in Seq(0..capacity - 1) /\ Len(a) = n /\ IsInjective(a)
      /\ g \in Seq(0..capacity - 1) /\ IsInjective(g)
      /\ Range(a) \subseteq Range(f)
      /\ Range(g) = Range(f) \ Range(a)
  <2> DEFINE S == 0..capacity - 1
  <2>1. f \in Seq(S) /\ IsInjective(f) /\ n <= Len(f)
    BY <1>6, <1>7
  <2>2. /\ a \in Seq(S) /\ Len(a) = n
        /\ \A i \in 1..n : a[i] = f[Len(f) + 1 - i]
    <3>1. \A i \in 1..n : Len(f) + 1 - i \in 1..Len(f)
      BY <1>7, LenProperties
    <3>2. \A i \in 1..n : f[Len(f) + 1 - i] \in S
      BY <2>1, <3>1, ElementOfSeq
    <3>3. a \in [1..n -> S]
      BY <1>2, <3>2
    <3> QED BY <1>2, <3>3
  <2> HIDE DEF S
  <2>3. /\ IsInjective(a)
        /\ SubSeq(f, 1, Len(f) - n) \in Seq(S)
        /\ IsInjective(SubSeq(f, 1, Len(f) - n))
        /\ Range(a) \subseteq Range(f)
        /\ Range(SubSeq(f, 1, Len(f) - n)) = Range(f) \ Range(a)
    <3>1. \A i \in 1..n : a[i] = f[Len(f) + 1 - i]
      BY <2>2
    <3>2. f \in Seq(S) /\ IsInjective(f) /\ n <= Len(f) /\ a \in Seq(S) /\ Len(a) = n
      BY <2>1, <2>2
    <3>3. IsInjective(a)
      BY <3>1, <3>2, PopFacts
    <3>4. SubSeq(f, 1, Len(f) - n) \in Seq(S)
      BY <3>1, <3>2, PopFacts
    <3>5. IsInjective(SubSeq(f, 1, Len(f) - n))
      BY <3>1, <3>2, PopFacts
    <3>6. Range(a) \subseteq Range(f)
      BY <3>1, <3>2, PopFacts
    <3>7. \A x : x \in Range(SubSeq(f, 1, Len(f) - n))
                <=> x \in Range(f) /\ x \notin Range(a)
      BY <3>1, <3>2, PopFacts
    <3>8. Range(SubSeq(f, 1, Len(f) - n)) = Range(f) \ Range(a)
      BY <3>7
    <3> QED BY <3>3, <3>4, <3>5, <3>6, <3>8
  <2> QED BY <1>3, <2>2, <2>3 DEF S
<1>9. /\ live \cup Range(a) \subseteq 0..capacity - 1
      /\ Range(g) = (0..capacity - 1) \ (live \cup Range(a))
      /\ Range(a) \cap live = {}
  BY <1>6, <1>8
<1> QED BY <1>1, <1>4, <1>5, <1>8, <1>9 DEF Pool, Partitioned

(* Releasing distinct live ids, in any order, leaves an exactly accounted  *)
(* pool in which they are free.                                            *)
LEMMA ReleaseFacts ==
  ASSUME NEW capacity \in Nat, NEW pool \in Pool(capacity),
         Partitioned(pool, capacity),
         NEW ids \in Seq(0..capacity - 1),
         IsInjective(ids), Range(ids) \subseteq pool.live
  PROVE  /\ AfterRelease(pool, ids) \in Pool(capacity)
         /\ Partitioned(AfterRelease(pool, ids), capacity)
         /\ AfterRelease(pool, ids).live = pool.live \ Range(ids)
PROOF
<1>1. PICK f \in Seq(0..capacity - 1), live \in SUBSET (0..capacity - 1) :
        pool.free = f /\ pool.live = live
  BY DEF Pool
<1>2. IsInjective(f) /\ Range(f) = (0..capacity - 1) \ live
  BY <1>1 DEF Partitioned
<1>3. Range(f) \cap Range(ids) = {}
  BY <1>1, <1>2
<1>4. PICK g : g = f \o ids
  OBVIOUS
<1>5. /\ g \in Seq(0..capacity - 1)
      /\ IsInjective(g)
      /\ Range(g) = Range(f) \cup Range(ids)
  BY <1>2, <1>3, <1>4, PushFacts
<1>6. AfterRelease(pool, ids) = [free |-> g, live |-> live \ Range(ids)]
  BY <1>1, <1>4 DEF AfterRelease
<1>7. Range(g) = (0..capacity - 1) \ (live \ Range(ids))
  BY <1>1, <1>2, <1>5
<1> QED BY <1>1, <1>5, <1>6, <1>7 DEF Pool, Partitioned

(* ensure_capacity's rollback, releasing in reverse what it acquired,      *)
(* restores the pool exactly, the order of the free list included.         *)
LEMMA RollbackRestoresPool ==
  ASSUME NEW capacity \in Nat, NEW pool \in Pool(capacity),
         Partitioned(pool, capacity),
         NEW n \in Nat, CanAcquire(pool, n)
  PROVE  AfterRelease(AfterAcquire(pool, n), Reverse(Acquired(pool, n))) = pool
PROOF
<1> DEFINE S == 0..capacity - 1
<1>1. PICK f \in Seq(S), live \in SUBSET S :
        /\ pool.free = f /\ pool.live = live
        /\ pool = [free |-> f, live |-> live]
  BY DEF Pool
<1>2. PICK m \in Nat : m = Len(f) /\ f \in [1..m -> S] /\ n <= m
  BY <1>1, LenProperties DEF CanAcquire
<1>3. PICK a : a = Acquired(pool, n)
  OBVIOUS
<1>4. a \in Seq(S) /\ Len(a) = n /\ Range(a) \cap live = {}
  BY <1>1, <1>3, AcquireFacts
<1>5. a \in [1..n -> S] /\ \A i \in 1..n : a[i] = f[m + 1 - i]
  BY <1>1, <1>2, <1>3, <1>4, LenProperties DEF Acquired
<1>6. PICK r : r = [i \in 1..n |-> a[(n - i) + 1]]
  OBVIOUS
<1>7. Reverse(a) = r
  BY <1>4, <1>6 DEF Reverse
<1>8. /\ r \in [1..n -> S]
      /\ \A i \in 1..n : r[i] = f[m - n + i]
  <2> SUFFICES ASSUME NEW i \in 1..n PROVE r[i] \in S /\ r[i] = f[m - n + i]
    BY <1>6
  <2>1. (n - i) + 1 \in 1..n /\ m + 1 - ((n - i) + 1) = m - n + i
    BY <1>2
  <2> QED BY <1>5, <1>6, <2>1
<1>9. r \in Seq(S) /\ Len(r) = n
  BY <1>8
<1>10. PICK g : g = SubSeq(f, 1, m - n)
  OBVIOUS
<1>11. /\ g \in Seq(S) /\ Len(g) = m - n
       /\ \A i \in 1..m - n : g[i] = f[i]
  <2>1. m - n \in Nat /\ m - n <= Len(f)
    BY <1>2
  <2> QED BY <1>10, <2>1, PrefixFacts
<1>12. g \o r = f
  <2>1. PICK h : h = g \o r
    OBVIOUS
  <2>2. /\ h \in Seq(S) /\ Len(h) = m
        /\ \A i \in 1..m : h[i] = IF i <= m - n THEN g[i] ELSE r[i - (m - n)]
    <3>1. (m - n) + n = m
      BY <1>2
    <3>2. /\ h \in Seq(S) /\ Len(h) = Len(g) + Len(r)
          /\ \A i \in 1..Len(g) + Len(r) :
               h[i] = IF i <= Len(g) THEN g[i] ELSE r[i - Len(g)]
      <4> HIDE DEF S
      <4>1. g \in Seq(S) /\ r \in Seq(S)
        BY <1>9, <1>11
      <4>2. /\ g \o r \in Seq(S) /\ Len(g \o r) = Len(g) + Len(r)
            /\ \A i \in 1..Len(g) + Len(r) :
                 (g \o r)[i] = IF i <= Len(g) THEN g[i] ELSE r[i - Len(g)]
        BY <4>1, ConcatProperties
      <4> QED BY <2>1, <4>2
    <3>3. Len(g) + Len(r) = m /\ Len(g) = m - n
      BY <1>9, <1>11, <3>1
    <3> QED BY <3>2, <3>3
  <2>3. \A i \in 1..m : h[i] = f[i]
    <3> TAKE i \in 1..m
    <3>1. CASE i <= m - n
      <4>1. i \in 1..m - n
        BY <1>2, <3>1
      <4> QED BY <1>11, <2>2, <3>1, <4>1
    <3>2. CASE ~(i <= m - n)
      <4>1. i - (m - n) \in 1..n /\ m - n + (i - (m - n)) = i
        BY <1>2, <3>2
      <4> QED BY <1>8, <2>2, <3>2, <4>1
    <3> QED BY <3>1, <3>2
  <2> QED BY <1>2, <2>1, <2>2, <2>3, SeqEqual
<1>13. Range(r) = Range(a)
  <2>1. Range(r) \subseteq Range(a)
    <3>1. \A i \in 1..n : (n - i) + 1 \in 1..n
      OBVIOUS
    <3> QED BY <1>5, <1>6, <3>1 DEF Range
  <2>2. ASSUME NEW i \in 1..n PROVE a[i] \in Range(r)
    <3>1. (n - i) + 1 \in 1..n /\ (n - ((n - i) + 1)) + 1 = i
      OBVIOUS
    <3>2. r[(n - i) + 1] = a[i]
      BY <1>6, <3>1
    <3> QED BY <1>8, <3>1, <3>2 DEF Range
  <2> QED BY <1>5, <2>1, <2>2 DEF Range
<1>14. AfterAcquire(pool, n) = [free |-> g, live |-> live \cup Range(a)]
  BY <1>1, <1>2, <1>3, <1>10 DEF AfterAcquire
<1>15. (live \cup Range(a)) \ Range(r) = live
  BY <1>4, <1>13
<1>16. AfterRelease(AfterAcquire(pool, n), r) = [free |-> g \o r, live |-> live]
  <2>1. /\ AfterAcquire(pool, n).free = g
        /\ AfterAcquire(pool, n).live = live \cup Range(a)
    BY <1>14
  <2> QED BY <1>15, <2>1 DEF AfterRelease
<1> QED BY <1>1, <1>3, <1>7, <1>12, <1>16

-----------------------------------------------------------------------------
(* The conjunction is inductive: that acquired pages alias nothing rests   *)
(* on NoLeak (what a table holds is live) and PoolsExact (what is acquired *)
(* was not), and NoLeak under release rests on NoAliasing.                 *)
Ownership == TypeOK /\ PoolsExact /\ NoAliasing /\ NoLeak

Holds(q) == Range(sequences[q].table)

USE ConstantsAssumption

(* The type of the page pool is that of any pool of KvPages ids.           *)
LEMMA PagesAre == Pool(KvPages) = [free : Seq(Pages), live : SUBSET Pages]
  BY DEF Pool, Pages

(* The type of the slot pool is that of any pool of DeltaSlots ids.        *)
LEMMA SlotsAre == Pool(DeltaSlots) = [free : Seq(Slots), live : SUBSET Slots]
  BY DEF Pool, Slots

(* What a record of a live sequence looks like.                            *)
LEMMA RecordFacts ==
  ASSUME TypeOK, NEW q \in Live
  PROVE  /\ sequences[q] \in SequenceRecord
         /\ sequences[q].slot \in Slots
         /\ sequences[q].table \in Seq(Pages)
         /\ sequences[q].length \in 0..MaxSeqLen
         /\ Holds(q) \subseteq Pages
PROOF
<1>1. sequences[q] \in SequenceRecord
  BY DEF TypeOK
<1>2. sequences[q].table \in Seq(Pages)
  BY <1>1 DEF SequenceRecord
<1>3. Holds(q) \subseteq Pages
  BY <1>2, RangeOfSeq DEF Holds
<1> QED BY <1>1, <1>2, <1>3 DEF SequenceRecord

(* Missing is a number of pages, whatever the table and the position.      *)
LEMMA MissingIsNat ==
  ASSUME NEW table \in Seq(Pages), NEW position \in 0..MaxSeqLen - 1
  PROVE  Missing(table, position) \in Nat
PROOF
<1>1. Block(position) \in Int
  BY DEF Block
<1>2. Len(table) \in Nat
  BY LenProperties
<1> QED BY <1>1, <1>2 DEF Missing

(* The constructor leaves two exact pools that nobody holds anything of.   *)
LEMMA InitOwnership == Init => Ownership
PROOF
<1> SUFFICES ASSUME Init PROVE Ownership
  OBVIOUS
<1>1. /\ kv \in Pool(KvPages) /\ Partitioned(kv, KvPages) /\ kv.live = {}
      /\ delta \in Pool(DeltaSlots) /\ Partitioned(delta, DeltaSlots)
      /\ delta.live = {}
  BY NewPoolPartitioned DEF Init, NewPool
<1>2. Live = {}
  BY DEF Init, Live
<1>3. TypeOK
  <2>1. sequences \in [Live -> SequenceRecord]
    BY <1>2 DEF Init
  <2>2. kvData \in [Pages -> [Offsets -> Ids \cup {0}]]
    BY DEF Init, ZeroPage
  <2>3. deltaData \in [Slots -> Seq(Ids)]
    BY DEF Init
  <2> QED BY <1>1, <1>2, <2>1, <2>2, <2>3, PagesAre, SlotsAre DEF TypeOK, Init
<1>4. PoolsExact
  BY <1>1 DEF PoolsExact
<1>5. NoAliasing
  BY <1>2 DEF NoAliasing
<1>6. NoLeak
  BY <1>1, <1>2 DEF NoLeak
<1> QED BY <1>3, <1>4, <1>5, <1>6 DEF Ownership

(* Pages zeroed on release are pages of the same type.                     *)
LEMMA ZeroedType ==
  ASSUME TypeOK, NEW ids
  PROVE  ZeroedPages(ids) \in [Pages -> [Offsets -> Ids \cup {0}]]
  BY DEF TypeOK, ZeroedPages, ZeroPage

(* A growing table takes pages that no sequence holds.                     *)
LEMMA GrowOwnership ==
  ASSUME Ownership, NEW id \in Live, NEW position \in 0..MaxSeqLen - 1,
         GrowTable(id, position),
         UNCHANGED <<delta, next_id, deltaData>>
  PROVE  Ownership'
PROOF
<1> DEFINE n == Missing(sequences[id].table, position)
           a == Acquired(kv, n)
<1>1. TypeOK /\ PoolsExact /\ NoAliasing /\ NoLeak
  BY DEF Ownership
<1>2. kv \in Pool(KvPages) /\ Partitioned(kv, KvPages) /\ KvPages \in Nat
  BY <1>1, PagesAre DEF TypeOK, PoolsExact
<1>3. n \in Nat /\ CanAcquire(kv, n)
  BY <1>1, RecordFacts, MissingIsNat DEF GrowTable
<1>4. /\ kv' \in Pool(KvPages) /\ Partitioned(kv, KvPages)'
      /\ a \in Seq(Pages) /\ IsInjective(a)
      /\ Range(a) \cap kv.live = {}
      /\ kv'.live = kv.live \cup Range(a)
  <2> HIDE DEF n
  <2>1. kv' = AfterAcquire(kv, n)
    BY DEF GrowTable, n
  <2> QED BY <1>2, <1>3, <2>1, AcquireFacts DEF Pages
<1>5. sequences' = [sequences EXCEPT ![id].table = @ \o a] /\ kvData' = kvData
  BY DEF GrowTable
<1> HIDE DEF n, a
<1>6. sequences \in [Live -> SequenceRecord]
  BY <1>1 DEF TypeOK
<1>7. PICK t \in Seq(Pages) : t = sequences[id].table
  BY <1>1, RecordFacts
<1>8. /\ Live' = Live
      /\ \A q \in Live : q # id => sequences'[q] = sequences[q]
      /\ sequences'[id].table = t \o a
      /\ sequences'[id].slot = sequences[id].slot
      /\ sequences'[id].length = sequences[id].length
  BY <1>5, <1>6, <1>7 DEF SequenceRecord, Live
<1>9. IsInjective(t) /\ Range(t) \subseteq kv.live
  BY <1>1, <1>7 DEF NoAliasing, NoLeak
<1>10. /\ t \o a \in Seq(Pages)
       /\ IsInjective(t \o a)
       /\ Range(t \o a) = Range(t) \cup Range(a)
  BY <1>4, <1>7, <1>9, PushFacts
<1>11. TypeOK'
  <2>1. sequences' \in [Live -> SequenceRecord]
    BY <1>5, <1>6, <1>7, <1>10 DEF SequenceRecord
  <2> QED BY <1>1, <1>4, <1>5, <1>8, <2>1, PagesAre DEF TypeOK
<1>12. PoolsExact'
  BY <1>1, <1>4 DEF PoolsExact
<1>13. NoAliasing'
  <2>1. \A q \in Live : q # id => /\ Range(t) \cap Range(sequences[q].table) = {}
                                   /\ Range(sequences[q].table) \subseteq kv.live
    BY <1>1, <1>7 DEF NoAliasing, NoLeak
  <2>2. \A q \in Live : q # id =>
          Range(t \o a) \cap Range(sequences[q].table) = {}
    BY <1>4, <1>10, <2>1
  <2>3. \A q \in Live : IsInjective(sequences'[q].table)
    BY <1>1, <1>8, <1>10 DEF NoAliasing
  <2>4. \A q, r \in Live : q # r =>
          Range(sequences'[q].table) \cap Range(sequences'[r].table) = {}
    BY <1>1, <1>8, <2>2 DEF NoAliasing
  <2>5. \A q \in Live : sequences'[q].slot = sequences[q].slot
    BY <1>8
  <2>6. \A q, r \in Live : q # r => sequences'[q].slot # sequences'[r].slot
    BY <1>1, <2>5 DEF NoAliasing
  <2>7. Live' = Live
    BY <1>8
  <2> QED BY <2>3, <2>4, <2>6, <2>7 DEF NoAliasing
<1>14. NoLeak'
  <2>1. \A q \in Live : sequences'[q].slot = sequences[q].slot
    BY <1>8
  <2>2. \A p : p \in kv'.live
                 <=> \E q \in Live : p \in Range(sequences'[q].table)
    <3> TAKE p
    <3>1. p \in kv.live <=> \E q \in Live : p \in Range(sequences[q].table)
      BY <1>1 DEF NoLeak
    <3> QED BY <1>4, <1>7, <1>8, <1>10, <3>1
  <2> QED BY <1>1, <1>8, <2>1, <2>2 DEF NoLeak
<1> QED BY <1>11, <1>12, <1>13, <1>14 DEF Ownership

(* A failed ensure leaves the pool exactly as it found it.                 *)
LEMMA RollBackRestores ==
  ASSUME Ownership, NEW id \in Live, NEW position, RollBack(id, position)
  PROVE  kv' = kv /\ sequences' = sequences
PROOF
<1>1. kv \in Pool(KvPages) /\ Partitioned(kv, KvPages) /\ KvPages \in Nat
  BY PagesAre DEF Ownership, TypeOK, PoolsExact
<1>2. PICK n : n = Len(kv.free)
  OBVIOUS
<1>3. n \in Nat /\ CanAcquire(kv, n)
  BY <1>1, <1>2 DEF Pool, CanAcquire
<1>4. kv' = AfterRelease(AfterAcquire(kv, n), Reverse(Acquired(kv, n)))
  BY <1>2 DEF RollBack
<1>5. kv' = kv
  BY <1>1, <1>3, <1>4, RollbackRestoresPool
<1> QED BY <1>5 DEF RollBack

(* The tables and slots of the sequences are as they were.                 *)
LEMMA SameHoldings ==
  ASSUME Ownership, UNCHANGED <<kv, delta, next_id>>,
         sequences' \in [Live -> SequenceRecord],
         \A q \in Live : /\ sequences'[q].table = sequences[q].table
                         /\ sequences'[q].slot = sequences[q].slot,
         kvData' \in [Pages -> [Offsets -> Ids \cup {0}]],
         deltaData' \in [Slots -> Seq(Ids)]
  PROVE  Ownership'
PROOF
<1>1. Live' = Live
  BY DEF Live
<1>2. TypeOK'
  BY <1>1 DEF Ownership, TypeOK
<1>3. PoolsExact'
  BY DEF Ownership, PoolsExact
<1>4. NoAliasing'
  <2>1. NoAliasing
    BY DEF Ownership
  <2>2. \A q \in Live : IsInjective(sequences'[q].table)
    BY <2>1 DEF NoAliasing
  <2>3. \A q, r \in Live : q # r =>
          /\ Range(sequences'[q].table) \cap Range(sequences'[r].table) = {}
          /\ sequences'[q].slot # sequences'[r].slot
    BY <2>1 DEF NoAliasing
  <2> QED BY <1>1, <2>2, <2>3 DEF NoAliasing
<1>5. NoLeak'
  BY <1>1 DEF Ownership, NoLeak
<1> QED BY <1>2, <1>3, <1>4, <1>5 DEF Ownership

(* create_sequence gives the new sequence a slot that no other one holds.  *)
LEMMA CreateOwnership ==
  ASSUME Ownership, CreateSequence
  PROVE  Ownership'
PROOF
<1>1. TypeOK /\ PoolsExact /\ NoAliasing /\ NoLeak
  BY DEF Ownership
<1>2. /\ delta \in Pool(DeltaSlots) /\ Partitioned(delta, DeltaSlots)
      /\ DeltaSlots \in Nat /\ CanAcquire(delta, 1)
  BY <1>1, SlotsAre DEF TypeOK, PoolsExact, CreateSequence
<1>3. PICK a : a = Acquired(delta, 1)
  OBVIOUS
<1>4. /\ delta' \in Pool(DeltaSlots) /\ Partitioned(delta, DeltaSlots)'
      /\ a \in Seq(Slots) /\ Len(a) = 1
      /\ Range(a) \cap delta.live = {}
      /\ delta'.live = delta.live \cup Range(a)
  <2>1. delta' = AfterAcquire(delta, 1) /\ 1 \in Nat
    BY DEF CreateSequence
  <2>2. /\ AfterAcquire(delta, 1) \in Pool(DeltaSlots)
        /\ Partitioned(AfterAcquire(delta, 1), DeltaSlots)
        /\ Acquired(delta, 1) \in Seq(0..DeltaSlots - 1)
        /\ Len(Acquired(delta, 1)) = 1
        /\ Range(Acquired(delta, 1)) \cap delta.live = {}
        /\ AfterAcquire(delta, 1).live
             = delta.live \cup Range(Acquired(delta, 1))
    <3>1. \A n \in Nat : CanAcquire(delta, n) =>
            /\ AfterAcquire(delta, n) \in Pool(DeltaSlots)
            /\ Partitioned(AfterAcquire(delta, n), DeltaSlots)
            /\ Acquired(delta, n) \in Seq(0..DeltaSlots - 1)
            /\ Len(Acquired(delta, n)) = n
            /\ Range(Acquired(delta, n)) \cap delta.live = {}
            /\ AfterAcquire(delta, n).live
                 = delta.live \cup Range(Acquired(delta, n))
      BY <1>2, AcquireFacts
    <3> QED BY <1>2, <3>1
  <2> QED BY <1>3, <2>1, <2>2 DEF Slots
<1>5. PICK s \in Slots : s = a[1] /\ Range(a) = {s} /\ s \notin delta.live
  <2>1. DOMAIN a = 1..1 /\ a[1] \in Slots
    BY <1>4, LenProperties, ElementOfSeq
  <2>2. Range(a) = {a[1]}
    BY <2>1 DEF Range
  <2> QED BY <1>4, <2>1, <2>2
<1>6. PICK new \in Ids : new = next_id /\ new <= MaxId /\ new \notin Live
  BY <1>1 DEF TypeOK, CreateSequence, Ids
<1>7. /\ Live' = Live \cup {new}
      /\ sequences'[new] = Fresh(s)
      /\ \A q \in Live : q # new => sequences'[q] = sequences[q]
      /\ next_id' = new + 1
      /\ UNCHANGED <<kv, kvData, deltaData>>
      /\ sequences' = [q \in Live \cup {new} |->
                        IF q = new THEN Fresh(s) ELSE sequences[q]]
  BY <1>3, <1>5, <1>6 DEF CreateSequence, Live, contents
<1>8. Fresh(s) \in SequenceRecord /\ Fresh(s).slot = s /\ Fresh(s).table = <<>>
  BY DEF Fresh, SequenceRecord
<1>9. Range(<<>>) = {} /\ IsInjective(<<>>)
  BY DEF Range, IsInjective
<1>10. \A q \in Live' : q # new => q \in Live
  BY <1>7
<1>11. TypeOK'
  <2>1. sequences' \in [Live' -> SequenceRecord]
    BY <1>1, <1>7, <1>8 DEF TypeOK
  <2>2. new + 1 \in 1..MaxId + 1 /\ Live' \subseteq 1..(new + 1) - 1
    BY <1>1, <1>6, <1>7 DEF TypeOK, Ids
  <2> QED BY <1>1, <1>4, <1>7, <2>1, <2>2, SlotsAre DEF TypeOK
<1>12. PoolsExact'
  BY <1>1, <1>4, <1>7 DEF PoolsExact
<1>13. NoAliasing'
  <2>1. \A q \in Live' : IsInjective(sequences'[q].table)
    BY <1>1, <1>7, <1>8, <1>9, <1>10 DEF NoAliasing
  <2>2. \A q, r \in Live' : q # r =>
          Range(sequences'[q].table) \cap Range(sequences'[r].table) = {}
    BY <1>1, <1>7, <1>8, <1>9, <1>10 DEF NoAliasing
  <2>3. \A q \in Live : sequences[q].slot # s
    BY <1>1, <1>5 DEF NoLeak
  <2>4. \A q, r \in Live' : q # r => sequences'[q].slot # sequences'[r].slot
    BY <1>1, <1>7, <1>8, <1>10, <2>3 DEF NoAliasing
  <2> QED BY <2>1, <2>2, <2>4 DEF NoAliasing
<1>14. NoLeak'
  <2>1. \A p : p \in kv.live
                 <=> \E q \in Live' : p \in Range(sequences'[q].table)
    <3> TAKE p
    <3>1. p \in kv.live <=> \E q \in Live : p \in Range(sequences[q].table)
      BY <1>1 DEF NoLeak
    <3> QED BY <1>6, <1>7, <1>8, <1>9, <3>1
  <2>2. \A x : x \in delta'.live <=> \E q \in Live' : x = sequences'[q].slot
    <3> TAKE x
    <3>1. x \in delta.live <=> \E q \in Live : x = sequences[q].slot
      BY <1>1 DEF NoLeak
    <3> QED BY <1>4, <1>5, <1>6, <1>7, <1>8, <3>1
  <2>3. kv.live = UNION {Range(sequences'[q].table) : q \in Live'}
    BY <2>1
  <2>4. delta'.live = {sequences'[q].slot : q \in Live'}
    BY <2>2
  <2>5. kv' = kv
    BY <1>7
  <2> QED BY <2>3, <2>4, <2>5 DEF NoLeak
<1> QED BY <1>11, <1>12, <1>13, <1>14 DEF Ownership

(* The pages of one table go back to the pool; nobody else held them.      *)
LEMMA ClearFacts ==
  ASSUME Ownership, NEW id \in Live, ClearTable(id)
  PROVE  /\ kv' \in Pool(KvPages) /\ Partitioned(kv, KvPages)'
         /\ kv'.live = UNION {Holds(q) : q \in Live \ {id}}
         /\ kvData' \in [Pages -> [Offsets -> Ids \cup {0}]]
PROOF
<1>1. TypeOK /\ PoolsExact /\ NoAliasing /\ NoLeak
  BY DEF Ownership
<1>2. kv \in Pool(KvPages) /\ Partitioned(kv, KvPages) /\ KvPages \in Nat
  BY <1>1, PagesAre DEF TypeOK, PoolsExact
<1>3. PICK t \in Seq(Pages) : t = sequences[id].table
  BY <1>1, RecordFacts
<1>4. IsInjective(t) /\ Range(t) \subseteq kv.live
  BY <1>1, <1>3 DEF NoAliasing, NoLeak
<1>5. /\ kv' \in Pool(KvPages) /\ Partitioned(kv, KvPages)'
      /\ kv'.live = kv.live \ Range(t)
  <2>1. kv' = AfterRelease(kv, t)
    BY <1>3 DEF ClearTable
  <2>2. t \in Seq(0..KvPages - 1)
    BY DEF Pages
  <2> QED BY <1>2, <1>4, <2>1, <2>2, ReleaseFacts
<1>6. \A q \in Live : q # id => Holds(q) \cap Range(t) = {}
  BY <1>1, <1>3 DEF NoAliasing, Holds
<1>7. \A p : p \in kv'.live <=> \E q \in Live \ {id} : p \in Holds(q)
  <2> TAKE p
  <2>1. p \in kv.live <=> \E q \in Live : p \in Holds(q)
    BY <1>1 DEF NoLeak, Holds
  <2> QED BY <1>3, <1>5, <1>6, <2>1 DEF Holds
<1>8. kvData' \in [Pages -> [Offsets -> Ids \cup {0}]]
  BY <1>1, ZeroedType DEF ClearTable
<1> QED BY <1>5, <1>7, <1>8

(* reset_sequence gives back the pages of one sequence, and keeps its slot. *)
LEMMA ResetOwnership ==
  ASSUME Ownership, NEW id \in Live, ResetSequence(id)
  PROVE  Ownership'
PROOF
<1>1. TypeOK /\ PoolsExact /\ NoAliasing /\ NoLeak
  BY DEF Ownership
<1>2. /\ kv' \in Pool(KvPages) /\ Partitioned(kv, KvPages)'
      /\ kv'.live = UNION {Holds(q) : q \in Live \ {id}}
      /\ kvData' \in [Pages -> [Offsets -> Ids \cup {0}]]
  BY ClearFacts DEF ResetSequence
<1>3. sequences \in [Live -> SequenceRecord]
  BY <1>1 DEF TypeOK
<1>4. sequences' = [sequences EXCEPT ![id] = Fresh(sequences[id].slot)]
  BY DEF ResetSequence
<1>5. /\ Live' = Live
      /\ \A q \in Live : q # id => sequences'[q] = sequences[q]
      /\ sequences'[id].table = <<>>
      /\ \A q \in Live : sequences'[q].slot = sequences[q].slot
      /\ sequences' \in [Live -> SequenceRecord]
  <2>1. sequences[id].slot \in Slots
    BY <1>1, RecordFacts
  <2>2. /\ Fresh(sequences[id].slot) \in SequenceRecord
        /\ Fresh(sequences[id].slot).slot = sequences[id].slot
        /\ Fresh(sequences[id].slot).table = <<>>
    BY <2>1 DEF Fresh, SequenceRecord
  <2> QED BY <1>3, <1>4, <2>2 DEF Live
<1>6. Range(<<>>) = {} /\ IsInjective(<<>>)
  BY DEF Range, IsInjective
<1>7. delta' = delta /\ next_id' = next_id
  BY DEF ResetSequence
<1>8. deltaData' \in [Slots -> Seq(Ids)]
  <2>1. <<>> \in Seq(Ids)
    OBVIOUS
  <2> QED BY <1>1, <2>1 DEF TypeOK, ResetSequence
<1>9. TypeOK'
  BY <1>1, <1>2, <1>5, <1>7, <1>8, PagesAre DEF TypeOK
<1>10. PoolsExact'
  BY <1>1, <1>2, <1>7 DEF PoolsExact
<1>11. NoAliasing'
  <2>1. \A q \in Live : IsInjective(sequences'[q].table)
    BY <1>1, <1>5, <1>6 DEF NoAliasing
  <2>2. \A q, r \in Live : q # r =>
          Range(sequences'[q].table) \cap Range(sequences'[r].table) = {}
    BY <1>1, <1>5, <1>6 DEF NoAliasing
  <2>3. \A q, r \in Live : q # r => sequences'[q].slot # sequences'[r].slot
    BY <1>1, <1>5 DEF NoAliasing
  <2>4. Live' = Live
    BY <1>5
  <2> QED BY <2>1, <2>2, <2>3, <2>4 DEF NoAliasing
<1>12. NoLeak'
  <2>1. kv'.live = UNION {Range(sequences'[q].table) : q \in Live'}
    <3>1. \A q \in Live : Range(sequences'[q].table)
                            = IF q = id THEN {} ELSE Holds(q)
      BY <1>5, <1>6 DEF Holds
    <3>2. Live' = Live
      BY <1>5
    <3> QED BY <1>2, <3>1, <3>2
  <2>2. delta'.live = {sequences'[q].slot : q \in Live'}
    BY <1>1, <1>5, <1>7 DEF NoLeak
  <2> QED BY <2>1, <2>2 DEF NoLeak
<1> QED BY <1>9, <1>10, <1>11, <1>12 DEF Ownership

(* retire_sequence gives back the pages and the slot of one sequence.      *)
LEMMA RetireOwnership ==
  ASSUME Ownership, NEW id \in Live, RetireSequence(id)
  PROVE  Ownership'
PROOF
<1>1. TypeOK /\ PoolsExact /\ NoAliasing /\ NoLeak
  BY DEF Ownership
<1>2. /\ kv' \in Pool(KvPages) /\ Partitioned(kv, KvPages)'
      /\ kv'.live = UNION {Holds(q) : q \in Live \ {id}}
      /\ kvData' \in [Pages -> [Offsets -> Ids \cup {0}]]
  BY ClearFacts DEF RetireSequence
<1>3. /\ delta \in Pool(DeltaSlots) /\ Partitioned(delta, DeltaSlots)
      /\ DeltaSlots \in Nat
  BY <1>1, SlotsAre DEF TypeOK, PoolsExact
<1>4. PICK s \in Slots : s = sequences[id].slot /\ s \in delta.live
  BY <1>1, RecordFacts DEF NoLeak
<1>5. PICK one \in Seq(Slots) : one = <<s>> /\ IsInjective(one) /\ Range(one) = {s}
  <2>1. <<s>> \in Seq(Slots) /\ IsInjective(<<s>>) /\ Range(<<s>>) = {s}
    BY DEF IsInjective, Range
  <2> QED BY <2>1
<1>6. /\ delta' \in Pool(DeltaSlots) /\ Partitioned(delta, DeltaSlots)'
      /\ delta'.live = delta.live \ {s}
  <2>1. delta' = AfterRelease(delta, one)
    BY <1>4, <1>5 DEF RetireSequence
  <2>2. one \in Seq(0..DeltaSlots - 1) /\ Range(one) \subseteq delta.live
    BY <1>4, <1>5 DEF Slots
  <2>3. /\ AfterRelease(delta, one) \in Pool(DeltaSlots)
        /\ Partitioned(AfterRelease(delta, one), DeltaSlots)
        /\ AfterRelease(delta, one).live = delta.live \ Range(one)
    <3>1. \A ids \in Seq(0..DeltaSlots - 1) :
            IsInjective(ids) /\ Range(ids) \subseteq delta.live =>
              /\ AfterRelease(delta, ids) \in Pool(DeltaSlots)
              /\ Partitioned(AfterRelease(delta, ids), DeltaSlots)
              /\ AfterRelease(delta, ids).live = delta.live \ Range(ids)
      BY <1>3, ReleaseFacts
    <3>2. IsInjective(one)
      BY <1>5
    <3> QED BY <2>2, <3>1, <3>2
  <2> QED BY <1>5, <2>1, <2>3
<1>7. sequences' = [q \in Live \ {id} |-> sequences[q]]
  BY DEF RetireSequence, Restrict
<1>8. /\ Live' = Live \ {id}
      /\ \A q \in Live' : sequences'[q] = sequences[q]
      /\ sequences' \in [Live' -> SequenceRecord]
  BY <1>1, <1>7 DEF TypeOK, Live
<1>9. next_id' = next_id
  BY DEF RetireSequence
<1>10. deltaData' \in [Slots -> Seq(Ids)]
  <2>1. <<>> \in Seq(Ids)
    OBVIOUS
  <2> QED BY <1>1, <2>1 DEF TypeOK, RetireSequence
<1>11. TypeOK'
  BY <1>1, <1>2, <1>6, <1>8, <1>9, <1>10, PagesAre, SlotsAre DEF TypeOK
<1>12. PoolsExact'
  BY <1>2, <1>6 DEF PoolsExact
<1>13. NoAliasing'
  <2>1. \A q \in Live' : q \in Live
    BY <1>8
  <2>2. \A q \in Live' : IsInjective(sequences'[q].table)
    BY <1>1, <1>8, <2>1 DEF NoAliasing
  <2>3. \A q, r \in Live' : q # r =>
          /\ Range(sequences'[q].table) \cap Range(sequences'[r].table) = {}
          /\ sequences'[q].slot # sequences'[r].slot
    BY <1>1, <1>8, <2>1 DEF NoAliasing
  <2> QED BY <2>2, <2>3 DEF NoAliasing
<1>14. NoLeak'
  <2>1. kv'.live = UNION {Range(sequences'[q].table) : q \in Live'}
    <3>1. \A q \in Live' : Range(sequences'[q].table) = Holds(q)
      BY <1>8 DEF Holds
    <3> QED BY <1>2, <1>8, <3>1
  <2>2. \A x : x \in delta'.live <=> \E q \in Live' : x = sequences'[q].slot
    <3> TAKE x
    <3>1. x \in delta.live <=> \E q \in Live : x = sequences[q].slot
      BY <1>1 DEF NoLeak
    <3>2. \A q \in Live : q # id => sequences[q].slot # s
      BY <1>1, <1>4 DEF NoAliasing
    <3> QED BY <1>4, <1>6, <1>8, <3>1, <3>2
  <2>3. delta'.live = {sequences'[q].slot : q \in Live'}
    BY <2>2
  <2> QED BY <2>1, <2>3 DEF NoLeak
<1> QED BY <1>11, <1>12, <1>13, <1>14 DEF Ownership

(* Every action of the state manager preserves Ownership.                  *)
LEMMA NextOwnership == Ownership /\ [Next]_vars => Ownership'
PROOF
<1> SUFFICES ASSUME Ownership, [Next]_vars PROVE Ownership'
  OBVIOUS
<1>0. TypeOK
  BY DEF Ownership
<1>1. CASE CreateSequence
  BY <1>1, CreateOwnership
<1>2. ASSUME NEW id \in Ids, NEW position \in -1..MaxSeqLen,
             EnsureKvCapacity(id, position)
      PROVE  Ownership'
  <2>1. id \in Live /\ position \in 0..MaxSeqLen - 1
    BY <1>2 DEF EnsureKvCapacity
  <2>2. UNCHANGED <<delta, next_id, deltaData>>
    BY <1>2 DEF EnsureKvCapacity
  <2>3. CASE GrowTable(id, position)
    BY <2>1, <2>2, <2>3, GrowOwnership
  <2>4. CASE RollBack(id, position)
    <3>1. kv' = kv /\ sequences' = sequences
      BY <2>1, <2>4, RollBackRestores
    <3>2. kvData' \in [Pages -> [Offsets -> Ids \cup {0}]]
      BY <1>0, <2>4, ZeroedType DEF RollBack
    <3> QED BY <1>0, <2>2, <3>1, <3>2, SameHoldings DEF TypeOK
  <2> QED BY <1>2, <2>3, <2>4 DEF EnsureKvCapacity
<1>3. ASSUME NEW id \in Ids, NEW n \in -1..MaxSeqLen + 1,
             SetLength(id, n) \/ Advance(id, n)
      PROVE  Ownership'
  <2>1. id \in Live /\ UNCHANGED <<kv, delta, next_id, kvData, deltaData>>
    BY <1>3 DEF SetLength, Advance, pools, contents
  <2>2. PICK l \in 0..MaxSeqLen :
          sequences' = [sequences EXCEPT ![id].length = l]
    <3>1. CASE SetLength(id, n)
      BY <3>1 DEF SetLength
    <3>2. CASE Advance(id, n)
      <4>1. sequences[id].length \in 0..MaxSeqLen
        BY <1>0, <2>1, RecordFacts
      <4>2. sequences[id].length + n \in 0..MaxSeqLen
        BY <3>2, <4>1 DEF Advance
      <4> QED BY <3>2, <4>2 DEF Advance
    <3> QED BY <1>3, <3>1, <3>2
  <2>3. /\ sequences' \in [Live -> SequenceRecord]
        /\ \A q \in Live : /\ sequences'[q].table = sequences[q].table
                            /\ sequences'[q].slot = sequences[q].slot
    BY <1>0, <2>1, <2>2 DEF TypeOK, SequenceRecord
  <2> QED BY <1>0, <2>1, <2>3, SameHoldings DEF TypeOK
<1>4. ASSUME NEW id \in Ids, WriteToken(id) PROVE Ownership'
  <2>1. /\ id \in Live /\ UNCHANGED <<kv, delta, next_id, sequences>>
    BY <1>4 DEF WriteToken, pools
  <2>2. kvData' \in [Pages -> [Offsets -> Ids \cup {0}]]
    BY <1>0, <1>4 DEF WriteToken, TypeOK
  <2>3. deltaData' \in [Slots -> Seq(Ids)]
    <3>1. sequences[id].slot \in Slots
      BY <1>0, <2>1, RecordFacts
    <3>2. deltaData[sequences[id].slot] \in Seq(Ids)
      BY <1>0, <3>1 DEF TypeOK
    <3>3. Append(deltaData[sequences[id].slot], id) \in Seq(Ids)
      BY <3>2, AppendProperties
    <3> QED BY <1>0, <1>4, <3>1, <3>3 DEF WriteToken, TypeOK
  <2> QED BY <1>0, <2>1, <2>2, <2>3, SameHoldings DEF TypeOK
<1>5. ASSUME NEW id \in Ids, ResetSequence(id) PROVE Ownership'
  BY <1>5, ResetOwnership DEF ResetSequence
<1>6. ASSUME NEW id \in Ids, RetireSequence(id) PROVE Ownership'
  BY <1>6, RetireOwnership DEF RetireSequence
<1>7. CASE UNCHANGED vars
  BY <1>0, <1>7, SameHoldings DEF vars, TypeOK
<1> QED BY <1>1, <1>2, <1>3, <1>4, <1>5, <1>6, <1>7 DEF Next

(* The ownership half of the manager's contract, for every reachable state *)
(* (TypeOK, PoolsExact, NoAliasing and NoLeak).                            *)
THEOREM OwnershipHolds == Spec => []Ownership
PROOF
<1>1. Init => Ownership
  BY InitOwnership
<1>2. Ownership /\ [Next]_vars => Ownership'
  BY NextOwnership
<1> QED BY <1>1, <1>2, PTL DEF Spec

(* The state of the manager has its type: no length passes max_seq_len and *)
(* no table names a page outside the pool.                                 *)
THEOREM TypeCorrect == Spec => []TypeOK
PROOF
<1>1. Ownership => TypeOK
  BY DEF Ownership
<1> QED BY <1>1, OwnershipHolds, PTL

(* Both pools account for every id exactly, whatever calls fail.           *)
THEOREM PoolsExactHolds == Spec => []PoolsExact
PROOF
<1>1. Ownership => PoolsExact
  BY DEF Ownership
<1> QED BY <1>1, OwnershipHolds, PTL

(* No page backs two blocks and no slot serves two sequences.              *)
THEOREM NoAliasingHolds == Spec => []NoAliasing
PROOF
<1>1. Ownership => NoAliasing
  BY DEF Ownership
<1> QED BY <1>1, OwnershipHolds, PTL

(* No call, failed ones included, leaks a page or a slot.                  *)
THEOREM NoLeakHolds == Spec => []NoLeak
PROOF
<1>1. Ownership => NoLeak
  BY DEF Ownership
<1> QED BY <1>1, OwnershipHolds, PTL

-----------------------------------------------------------------------------
(* Isolation, from Ownership: a page that changes hands is zero, because   *)
(* it was not live (Isolation) when it was acquired, and what is released  *)
(* is zeroed.                                                              *)

(* A zeroed page and a zeroed slot show nobody's tokens.                   *)
LEMMA ZeroPageRange ==
  /\ Range(ZeroPage) \subseteq {0}
  /\ Range(<<>>) = {}
  BY DEF ZeroPage, Range

(* A new sequence starts in a slot that was free, hence zero.              *)
LEMMA CreateIsolation ==
  ASSUME Ownership, Isolation, CreateSequence
  PROVE  Isolation'
PROOF
<1>1. TypeOK /\ NoLeak
  BY DEF Ownership
<1>2. PICK new \in Ids : new = next_id /\ new \notin Live
  BY <1>1 DEF TypeOK, CreateSequence, Ids
<1>3. PICK s : s = Acquired(delta, 1)[1]
  OBVIOUS
<1>4. /\ delta \in Pool(DeltaSlots) /\ Partitioned(delta, DeltaSlots)
      /\ DeltaSlots \in Nat /\ CanAcquire(delta, 1)
  BY SlotsAre DEF Ownership, TypeOK, PoolsExact, CreateSequence
<1>5. s \in Slots /\ s \notin delta.live /\ s \in delta'.live
      /\ delta.live \subseteq delta'.live
  <2>1. \A n \in Nat : CanAcquire(delta, n) =>
          /\ Acquired(delta, n) \in Seq(0..DeltaSlots - 1)
          /\ Len(Acquired(delta, n)) = n
          /\ Range(Acquired(delta, n)) \cap delta.live = {}
          /\ AfterAcquire(delta, n).live
               = delta.live \cup Range(Acquired(delta, n))
    BY <1>4, AcquireFacts
  <2>2. PICK a \in Seq(0..DeltaSlots - 1) :
          /\ a = Acquired(delta, 1)
          /\ Len(a) = 1 /\ Range(a) \cap delta.live = {}
          /\ AfterAcquire(delta, 1).live = delta.live \cup Range(a)
    BY <1>4, <2>1
  <2>3. a[1] \in Range(a) /\ a[1] \in 0..DeltaSlots - 1
    BY <2>2, LenProperties, ElementOfSeq DEF Range
  <2>4. delta' = AfterAcquire(delta, 1)
    BY DEF CreateSequence
  <2> QED BY <1>3, <2>2, <2>3, <2>4 DEF Slots
<1>6. /\ Live' = Live \cup {new}
      /\ sequences'[new] = Fresh(s)
      /\ \A q \in Live : sequences'[q] = sequences[q]
      /\ UNCHANGED <<kv, kvData, deltaData>>
  BY <1>2, <1>3 DEF CreateSequence, Live, contents
<1>7. Fresh(s).slot = s /\ Fresh(s).table = <<>>
  BY DEF Fresh
<1>8. \A q \in Live' :
        /\ \A p \in Range(sequences'[q].table) :
             Range(kvData'[p]) \subseteq {0, q}
        /\ Range(deltaData'[sequences'[q].slot]) \subseteq {q}
  <2> TAKE q \in Live'
  <2>1. CASE q = new
    <3>1. deltaData[s] = <<>>
      BY <1>5 DEF Isolation
    <3> QED BY <1>6, <1>7, <2>1, <3>1, ZeroPageRange
  <2>2. CASE q # new
    BY <1>6, <2>2 DEF Isolation
  <2> QED BY <2>1, <2>2
<1>9. \A p \in Pages \ kv'.live : kvData'[p] = ZeroPage
  BY <1>6 DEF Isolation
<1>10. \A x \in Slots \ delta'.live : deltaData'[x] = <<>>
  BY <1>5, <1>6 DEF Isolation
<1> QED BY <1>8, <1>9, <1>10 DEF Isolation, Pages, Slots, ZeroPage, Offsets

(* A table grows by pages that were free, hence zero.                      *)
LEMMA GrowIsolation ==
  ASSUME Ownership, Isolation, NEW id \in Live,
         NEW position \in 0..MaxSeqLen - 1, GrowTable(id, position),
         UNCHANGED <<delta, next_id, deltaData>>
  PROVE  Isolation'
PROOF
<1>1. TypeOK /\ PoolsExact /\ NoLeak
  BY DEF Ownership
<1>2. PICK n : n = Missing(sequences[id].table, position)
  OBVIOUS
<1>3. n \in Nat /\ CanAcquire(kv, n)
  BY <1>1, <1>2, RecordFacts, MissingIsNat DEF GrowTable
<1>4. PICK a : a = Acquired(kv, n)
  OBVIOUS
<1>5. /\ a \in Seq(Pages) /\ Range(a) \cap kv.live = {}
      /\ kv'.live = kv.live \cup Range(a)
  <2>1. kv \in Pool(KvPages) /\ Partitioned(kv, KvPages) /\ KvPages \in Nat
    BY <1>1, PagesAre DEF TypeOK, PoolsExact
  <2>2. kv' = AfterAcquire(kv, n)
    BY <1>2 DEF GrowTable
  <2> QED BY <1>3, <1>4, <2>1, <2>2, AcquireFacts DEF Pages
<1>6. PICK t \in Seq(Pages) : t = sequences[id].table
  BY <1>1, RecordFacts
<1>7. sequences \in [Live -> SequenceRecord]
  BY <1>1 DEF TypeOK
<1>8. sequences' = [sequences EXCEPT ![id].table = @ \o a] /\ kvData' = kvData
  BY <1>2, <1>4 DEF GrowTable
<1>9. /\ Live' = Live
      /\ \A q \in Live : q # id => sequences'[q] = sequences[q]
      /\ sequences'[id].table = t \o a
      /\ \A q \in Live : sequences'[q].slot = sequences[q].slot
  BY <1>6, <1>7, <1>8 DEF SequenceRecord, Live
<1>10. Range(t \o a) = Range(t) \cup Range(a)
  BY <1>5, <1>6, RangeConcatenation
<1>11. Range(a) \subseteq Pages
  BY <1>5, RangeOfSeq
<1>12. \A q \in Live : \A p \in Range(sequences'[q].table) :
         Range(kvData[p]) \subseteq {0, q}
  <2> TAKE q \in Live
  <2> TAKE p \in Range(sequences'[q].table)
  <2>1. CASE p \in Range(sequences[q].table)
    BY <2>1 DEF Isolation
  <2>2. CASE p \notin Range(sequences[q].table)
    <3>1. p \in Range(a)
      BY <1>6, <1>9, <1>10, <2>2
    <3>2. kvData[p] = ZeroPage
      BY <1>5, <1>11, <3>1 DEF Isolation
    <3> QED BY <3>2, ZeroPageRange
  <2> QED BY <2>1, <2>2
<1>13. /\ \A p \in Pages \ kv'.live : kvData[p] = ZeroPage
       /\ \A x \in Slots \ delta.live : deltaData[x] = <<>>
       /\ \A q \in Live : Range(deltaData[sequences[q].slot]) \subseteq {q}
  BY <1>5 DEF Isolation
<1>14. kvData' = kvData /\ deltaData' = deltaData /\ delta' = delta
  BY <1>8
<1>15. \A q \in Live' :
         /\ \A p \in Range(sequences'[q].table) :
              Range(kvData'[p]) \subseteq {0, q}
         /\ Range(deltaData'[sequences'[q].slot]) \subseteq {q}
  BY <1>9, <1>12, <1>13, <1>14
<1> QED BY <1>13, <1>14, <1>15 DEF Isolation, Pages, Slots, ZeroPage, Offsets

(* A token is written to a page and a slot that only its sequence holds.   *)
LEMMA WriteIsolation ==
  ASSUME Ownership, Isolation, NEW id \in Live, WriteToken(id)
  PROVE  Isolation'
PROOF
<1>1. TypeOK /\ NoAliasing /\ NoLeak
  BY DEF Ownership
<1>2. PICK t \in Seq(Pages), s \in Slots :
        t = sequences[id].table /\ s = sequences[id].slot
  BY <1>1, RecordFacts
<1>3. PICK b : b = Block(sequences[id].length) + 1
  OBVIOUS
<1>4. PICK o : o = Offset(sequences[id].length)
  OBVIOUS
<1>5. b \in 1..Len(t)
  <2>1. sequences[id].length \in Nat /\ Len(t) \in Nat
    BY <1>1, RecordFacts, LenProperties
  <2>2. Block(sequences[id].length) \in Nat
    BY <2>1 DEF Block
  <2>3. Block(sequences[id].length) < Len(t)
    BY <1>2 DEF WriteToken
  <2> QED BY <1>3, <2>1, <2>2, <2>3
<1>6. PICK w \in Pages : w = t[b] /\ w \in Range(t)
  BY <1>5, LenProperties, ElementOfSeq DEF Range
<1>7. /\ kvData' = [kvData EXCEPT ![w][o] = id]
      /\ deltaData' = [deltaData EXCEPT ![s] = Append(@, id)]
      /\ UNCHANGED <<kv, delta, sequences>>
  BY <1>2, <1>3, <1>4, <1>6 DEF WriteToken, pools
<1>8. \A p \in Pages : p # w => kvData'[p] = kvData[p]
  BY <1>1, <1>7 DEF TypeOK
<1>9. Range(kvData'[w]) \subseteq {0, id}
  <2>1. kvData'[w] = [kvData[w] EXCEPT ![o] = id]
    BY <1>1, <1>7 DEF TypeOK
  <2>2. Range(kvData[w]) \subseteq {0, id}
    BY <1>2, <1>6 DEF Isolation
  <2> QED BY <2>1, <2>2 DEF Range
<1>10. w \in kv.live /\ s \in delta.live
  BY <1>1, <1>2, <1>6 DEF NoLeak
<1>11. \A x \in Slots : x # s => deltaData'[x] = deltaData[x]
  BY <1>1, <1>7 DEF TypeOK
<1>12. Range(deltaData'[s]) \subseteq {id}
  <2>1. PICK d \in Seq(Ids) : d = deltaData[s]
    BY <1>1 DEF TypeOK
  <2>2. Range(d) \subseteq {id}
    BY <1>2, <2>1 DEF Isolation
  <2>3. id \in Ids
    BY <1>1 DEF TypeOK, Ids
  <2>4. d \in Seq({id})
    <3>1. \A i \in 1..Len(d) : d[i] \in {id}
      BY <2>1, <2>2, LenProperties DEF Range
    <3>2. d \in [1..Len(d) -> {id}] /\ Len(d) \in Nat
      BY <2>1, <3>1, LenProperties
    <3> QED BY <3>2
  <2>5. Append(d, id) \in Seq({id})
    BY <2>4, AppendProperties
  <2>6. Range(Append(d, id)) \subseteq {id}
    BY <2>5, RangeOfSeq
  <2>7. deltaData'[s] = Append(d, id)
    BY <1>1, <1>7, <2>1 DEF TypeOK
  <2> QED BY <2>6, <2>7
<1>13. \A q \in Live :
         /\ \A p \in Range(sequences[q].table) :
              Range(kvData'[p]) \subseteq {0, q}
         /\ Range(deltaData'[sequences[q].slot]) \subseteq {q}
  <2> TAKE q \in Live
  <2>1. CASE q = id
    <3>1. \A p \in Range(t) : p \in Pages
      BY <1>2, RangeOfSeq
    <3>2. \A p \in Range(t) : Range(kvData'[p]) \subseteq {0, id}
      BY <1>2, <1>8, <1>9, <3>1 DEF Isolation
    <3> QED BY <1>2, <1>12, <2>1, <3>2
  <2>2. CASE q # id
    <3>1. w \notin Range(sequences[q].table) /\ sequences[q].slot # s
      BY <1>1, <1>2, <1>6, <2>2 DEF NoAliasing
    <3>2. sequences[q].slot \in Slots /\ Range(sequences[q].table) \subseteq Pages
      BY <1>1, RecordFacts DEF Holds
    <3> QED BY <1>8, <1>11, <3>1, <3>2 DEF Isolation
  <2> QED BY <2>1, <2>2
<1>14. \A p \in Pages \ kv.live : kvData'[p] = ZeroPage
  BY <1>8, <1>10 DEF Isolation
<1>15. \A x \in Slots \ delta.live : deltaData'[x] = <<>>
  BY <1>10, <1>11 DEF Isolation
<1>16. Live' = Live /\ sequences' = sequences /\ kv' = kv /\ delta' = delta
  BY <1>7 DEF Live
<1> QED BY <1>13, <1>14, <1>15, <1>16 DEF Isolation, Pages, Slots, ZeroPage, Offsets

(* Zeroing pages dirties none, and the pages the rollback zeroes were free *)
(* and zero.                                                               *)
LEMMA RollBackIsolation ==
  ASSUME Ownership, Isolation, NEW id \in Live, NEW position,
         RollBack(id, position), UNCHANGED <<delta, next_id, deltaData>>
  PROVE  Isolation'
PROOF
<1>1. kv' = kv /\ sequences' = sequences
  BY RollBackRestores
<1>2. \A p \in Pages : kvData'[p] \in {ZeroPage, kvData[p]}
  BY DEF RollBack, ZeroedPages
<1>3. \A q \in Live : Range(sequences[q].table) \subseteq Pages
  BY RecordFacts DEF Ownership, Holds
<1>4. \A q \in Live :
        /\ \A p \in Range(sequences[q].table) :
             Range(kvData'[p]) \subseteq {0, q}
        /\ Range(deltaData'[sequences[q].slot]) \subseteq {q}
  <2> TAKE q \in Live
  <2>1. \A p \in Range(sequences[q].table) : Range(kvData'[p]) \subseteq {0, q}
    BY <1>2, <1>3, ZeroPageRange DEF Isolation
  <2> QED BY <2>1 DEF Isolation
<1>5. /\ \A p \in Pages \ kv.live : kvData'[p] = ZeroPage
      /\ \A x \in Slots \ delta.live : deltaData'[x] = <<>>
  BY <1>2 DEF Isolation
<1>6. Live' = Live /\ delta' = delta
  BY <1>1 DEF Live
<1> QED BY <1>1, <1>4, <1>5, <1>6 DEF Isolation, Pages, Slots, ZeroPage, Offsets

(* After clear(), what is not live is zero and what the other sequences    *)
(* hold is untouched.                                                      *)
LEMMA ClearIsolation ==
  ASSUME Ownership, Isolation, NEW id \in Live, ClearTable(id)
  PROVE  /\ \A p \in Pages \ kv'.live : kvData'[p] = ZeroPage
         /\ \A q \in Live \ {id} : \A p \in Range(sequences[q].table) :
              Range(kvData'[p]) \subseteq {0, q}
PROOF
<1>1. TypeOK /\ NoAliasing /\ NoLeak
  BY DEF Ownership
<1>2. \A p \in Pages : kvData'[p] = IF p \in Holds(id) THEN ZeroPage ELSE kvData[p]
  BY DEF ClearTable, ZeroedPages, Holds
<1>3. kv'.live = UNION {Holds(q) : q \in Live \ {id}}
  BY ClearFacts
<1>4. kv.live = UNION {Holds(q) : q \in Live}
  BY <1>1 DEF NoLeak, Holds
<1>5. \A p \in Pages \ kv'.live : kvData'[p] = ZeroPage
  <2> TAKE p \in Pages \ kv'.live
  <2>1. CASE p \in Holds(id)
    BY <1>2, <2>1
  <2>2. CASE p \notin Holds(id)
    <3>1. p \notin kv.live
      BY <1>3, <1>4, <2>2
    <3> QED BY <1>2, <2>2, <3>1 DEF Isolation
  <2> QED BY <2>1, <2>2
<1>6. ASSUME NEW q \in Live \ {id}, NEW p \in Range(sequences[q].table)
      PROVE  Range(kvData'[p]) \subseteq {0, q}
  <2>1. p \in Pages /\ p \notin Holds(id)
    BY <1>1, RecordFacts DEF NoAliasing, Holds
  <2> QED BY <1>2, <2>1 DEF Isolation
<1> QED BY <1>5, <1>6

(* reset_sequence zeroes the slot in place and the pages on release.       *)
LEMMA ResetIsolation ==
  ASSUME Ownership, Isolation, NEW id \in Live, ResetSequence(id)
  PROVE  Isolation'
PROOF
<1>1. TypeOK /\ NoAliasing /\ NoLeak
  BY DEF Ownership
<1>2. /\ \A p \in Pages \ kv'.live : kvData'[p] = ZeroPage
      /\ \A q \in Live \ {id} : \A p \in Range(sequences[q].table) :
           Range(kvData'[p]) \subseteq {0, q}
  BY ClearIsolation DEF ResetSequence
<1>3. PICK s \in Slots : s = sequences[id].slot
  BY <1>1, RecordFacts
<1>4. deltaData' = [deltaData EXCEPT ![s] = <<>>] /\ delta' = delta
  BY <1>3 DEF ResetSequence
<1>5. \A x \in Slots : deltaData'[x] = IF x = s THEN <<>> ELSE deltaData[x]
  BY <1>1, <1>4 DEF TypeOK
<1>6. /\ Live' = Live
      /\ \A q \in Live : q # id => sequences'[q] = sequences[q]
      /\ sequences'[id].table = <<>>
      /\ sequences'[id].slot = s
  <2>1. sequences' = [sequences EXCEPT ![id] = Fresh(s)]
    BY <1>3 DEF ResetSequence
  <2> QED BY <1>1, <2>1 DEF TypeOK, Live, Fresh
<1>7. \A q \in Live :
        /\ \A p \in Range(sequences'[q].table) :
             Range(kvData'[p]) \subseteq {0, q}
        /\ Range(deltaData'[sequences'[q].slot]) \subseteq {q}
  <2> TAKE q \in Live
  <2>1. CASE q = id
    BY <1>5, <1>6, <2>1, ZeroPageRange
  <2>2. CASE q # id
    <3>1. sequences[q].slot \in Slots
      BY <1>1, RecordFacts
    <3>2. Range(deltaData'[sequences[q].slot]) \subseteq {q}
      BY <1>5, <3>1, ZeroPageRange DEF Isolation
    <3> QED BY <1>2, <1>6, <2>2, <3>2
  <2> QED BY <2>1, <2>2
<1>8. \A x \in Slots \ delta.live : deltaData'[x] = <<>>
  BY <1>5 DEF Isolation
<1> QED BY <1>2, <1>4, <1>6, <1>7, <1>8 DEF Isolation, Pages, Slots, ZeroPage, Offsets

(* retire_sequence zeroes the slot and the pages on release.               *)
LEMMA RetireIsolation ==
  ASSUME Ownership, Ownership', Isolation, NEW id \in Live, RetireSequence(id)
  PROVE  Isolation'
PROOF
<1>1. TypeOK /\ NoAliasing /\ NoLeak
  BY DEF Ownership
<1>2. /\ \A p \in Pages \ kv'.live : kvData'[p] = ZeroPage
      /\ \A q \in Live \ {id} : \A p \in Range(sequences[q].table) :
           Range(kvData'[p]) \subseteq {0, q}
  BY ClearIsolation DEF RetireSequence
<1>3. PICK s \in Slots : s = sequences[id].slot
  BY <1>1, RecordFacts
<1>4. \A x \in Slots : deltaData'[x] = IF x = s THEN <<>> ELSE deltaData[x]
  BY <1>1, <1>3 DEF RetireSequence, TypeOK
<1>5. Live' = Live \ {id} /\ \A q \in Live' : sequences'[q] = sequences[q]
  BY DEF RetireSequence, Restrict, Live
<1>6. delta'.live = delta.live \ {s}
  <2>1. \A x : x \in delta.live <=> \E q \in Live : x = sequences[q].slot
    BY <1>1 DEF NoLeak
  <2>2. NoLeak'
    BY DEF Ownership
  <2>3. \A x : x \in delta'.live <=> \E q \in Live' : x = sequences'[q].slot
    BY <2>2 DEF NoLeak
  <2>4. \A q \in Live : q # id => sequences[q].slot # s
    BY <1>1, <1>3 DEF NoAliasing
  <2> QED BY <1>3, <1>5, <2>1, <2>3, <2>4
<1>7. \A q \in Live' :
        /\ \A p \in Range(sequences'[q].table) :
             Range(kvData'[p]) \subseteq {0, q}
        /\ Range(deltaData'[sequences'[q].slot]) \subseteq {q}
  <2> TAKE q \in Live'
  <2>1. q \in Live /\ q # id /\ sequences'[q] = sequences[q]
    BY <1>5
  <2>2. sequences[q].slot \in Slots
    BY <1>1, <2>1, RecordFacts
  <2>3. Range(deltaData'[sequences[q].slot]) \subseteq {q}
    BY <1>4, <2>1, <2>2, ZeroPageRange DEF Isolation
  <2> QED BY <1>2, <2>1, <2>3
<1>8. \A x \in Slots \ delta'.live : deltaData'[x] = <<>>
  BY <1>4, <1>6 DEF Isolation
<1> QED BY <1>2, <1>7, <1>8 DEF Isolation, Pages, Slots, ZeroPage, Offsets

(* Every action of the state manager preserves Isolation.                  *)
LEMMA NextIsolation ==
  Ownership /\ Ownership' /\ Isolation /\ [Next]_vars => Isolation'
PROOF
<1> SUFFICES ASSUME Ownership, Ownership', Isolation, [Next]_vars
             PROVE  Isolation'
  OBVIOUS
<1>1. CASE CreateSequence
  BY <1>1, CreateIsolation
<1>2. ASSUME NEW id \in Ids, NEW position \in -1..MaxSeqLen,
             EnsureKvCapacity(id, position)
      PROVE  Isolation'
  <2>1. /\ id \in Live /\ position \in 0..MaxSeqLen - 1
        /\ UNCHANGED <<delta, next_id, deltaData>>
    BY <1>2 DEF EnsureKvCapacity
  <2> QED BY <1>2, <2>1, GrowIsolation, RollBackIsolation DEF EnsureKvCapacity
<1>3. ASSUME NEW id \in Ids, NEW n \in -1..MaxSeqLen + 1,
             SetLength(id, n) \/ Advance(id, n)
      PROVE  Isolation'
  <2>1. id \in Live /\ UNCHANGED <<kv, delta, kvData, deltaData>>
    BY <1>3 DEF SetLength, Advance, pools, contents
  <2>2. PICK l : sequences' = [sequences EXCEPT ![id].length = l]
    BY <1>3 DEF SetLength, Advance
  <2>3. sequences \in [Live -> SequenceRecord]
    BY DEF Ownership, TypeOK
  <2>4. /\ Live' = Live
        /\ \A q \in Live : /\ sequences'[q].table = sequences[q].table
                            /\ sequences'[q].slot = sequences[q].slot
    BY <2>1, <2>2, <2>3 DEF SequenceRecord, Live
  <2> QED BY <2>1, <2>4 DEF Isolation, Pages, Slots, ZeroPage, Offsets
<1>4. ASSUME NEW id \in Ids, WriteToken(id) PROVE Isolation'
  BY <1>4, WriteIsolation DEF WriteToken
<1>5. ASSUME NEW id \in Ids, ResetSequence(id) PROVE Isolation'
  BY <1>5, ResetIsolation DEF ResetSequence
<1>6. ASSUME NEW id \in Ids, RetireSequence(id) PROVE Isolation'
  BY <1>6, RetireIsolation DEF RetireSequence
<1>7. CASE UNCHANGED vars
  BY <1>7 DEF vars, Isolation, Live, Pages, Slots, ZeroPage, Offsets
<1> QED BY <1>1, <1>2, <1>3, <1>4, <1>5, <1>6, <1>7 DEF Next

(* A recycled page or slot shows its next owner nothing of the last one.   *)
THEOREM IsolationHolds == Spec => []Isolation
PROOF
<1>1. Init => Isolation
  BY DEF Init, Isolation, Live
<1>2. Ownership /\ Ownership' /\ Isolation /\ [Next]_vars => Isolation'
  BY NextIsolation
<1> QED BY <1>1, <1>2, OwnershipHolds, PTL DEF Spec
=============================================================================
