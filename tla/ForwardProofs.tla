---------------------------- MODULE ForwardProofs ----------------------------
(***************************************************************************)
(* The forward over the state manager: a sequence's state is that of its   *)
(* own tokens, whatever is batched with it; the lengths alone tell what is *)
(* free, so that the abstract store is implemented; and a batch is its     *)
(* rows one by one.                                                        *)
(***************************************************************************)
EXTENDS ModelForward, StateManagerProofs, Summation

-----------------------------------------------------------------------------
USE ConstantsAssumption

(* A position is its block and its offset,                                 *)
LEMMA PositionFacts ==
  ASSUME NEW p \in Nat
  PROVE  /\ Block(p) \in Nat /\ Offset(p) \in Offsets
         /\ p = Block(p) * PageTokens + Offset(p)
  BY DivFacts DEF Block, Offset, Offsets

(* and the other way round.                                                *)
LEMMA PositionOf ==
  ASSUME NEW b \in Nat, NEW o \in Offsets
  PROVE  Block(b * PageTokens + o) = b /\ Offset(b * PageTokens + o) = o
  BY DivOf DEF Block, Offset, Offsets

(* and the first k blocks hold the positions below k * PageTokens.         *)
LEMMA PositionsBelow ==
  ASSUME NEW p \in Nat, NEW k \in Nat
  PROVE  p < k * PageTokens <=> Block(p) < k
PROOF
<1>1. PICK b \in Nat, o \in Offsets :
        b = Block(p) /\ p = b * PageTokens + o
  BY PositionFacts
<1>2. PICK x \in Nat, y \in Nat : x = b * PageTokens /\ y = k * PageTokens
  OBVIOUS
<1>3. b < k => x + PageTokens <= y
  BY <1>2, MultiplesApart
<1>4. k < b => y + PageTokens <= x
  BY <1>2, MultiplesApart
<1>5. k = b => y = x
  BY <1>2
<1>6. p = x + o /\ o \in Nat /\ o < PageTokens
  BY <1>1, <1>2 DEF Offsets
<1>7. p < y <=> b < k
  BY <1>3, <1>4, <1>5, <1>6
<1> QED BY <1>1, <1>2, <1>7

PagesFor(n) == Abstract!PagesFor(n)
NewBlock(n) == IF n % PageTokens = 0 THEN 1 ELSE 0

(* The pages of n tokens, and of one more.                                 *)
LEMMA PagesForFacts ==
  ASSUME NEW n \in Nat
  PROVE  /\ PagesFor(n) \in Nat
         /\ PagesFor(n) = Block(n) + 1 - NewBlock(n)
         /\ PagesFor(n + 1) = Block(n) + 1
         /\ n <= PagesFor(n) * PageTokens
PROOF
<1>1. Block(n) \in Nat
  BY PositionFacts
<1>2. /\ PagesFor(n) = Block(n) + 1 - NewBlock(n)
      /\ PagesFor(n + 1) = Block(n) + 1
  <2>1. /\ PagesFor(n) = (n + PageTokens - 1) \div PageTokens
        /\ PagesFor(n + 1) = (n + 1 + PageTokens - 1) \div PageTokens
    BY DEF PagesFor, Abstract!PagesFor
  <2>2. PageTokens \in Nat \ {0} /\ Block(n) = n \div PageTokens
    BY DEF Block
  <2>3. /\ n % PageTokens = 0 => PagesFor(n) = Block(n)
        /\ n % PageTokens # 0 => PagesFor(n) = Block(n) + 1
        /\ PagesFor(n + 1) = Block(n) + 1
    BY <2>1, <2>2, RoundedUp
  <2> QED BY <1>1, <2>3 DEF NewBlock
<1>3. PICK b \in Nat, o \in Offsets :
        b = Block(n) /\ o = n % PageTokens /\ n = b * PageTokens + o
  BY PositionFacts DEF Offset
<1>4. (b + 1) * PageTokens = b * PageTokens + PageTokens /\ b * PageTokens \in Nat
  OBVIOUS
<1>5. n <= PagesFor(n) * PageTokens
  <2>1. CASE o = 0
    BY <2>1, <1>2, <1>3, <1>4 DEF NewBlock
  <2>2. CASE o # 0
    <3>1. PagesFor(n) = b + 1
      BY <2>2, <1>2, <1>3 DEF NewBlock
    <3> QED BY <3>1, <1>3, <1>4 DEF Offsets
  <2> QED BY <2>1, <2>2
<1> QED BY <1>1, <1>2, <1>5 DEF NewBlock

(* A table that fits its length lacks a page only when the length is at    *)
(* the beginning of a block.                                               *)
LEMMA MissingOne ==
  ASSUME NEW table \in Seq(Pages), NEW n \in Nat, Len(table) = PagesFor(n)
  PROVE  Missing(table, n) = NewBlock(n)
PROOF
<1>1. Block(n) \in Nat /\ Len(table) = Block(n) + 1 - NewBlock(n)
  BY PositionFacts, PagesForFacts
<1> QED BY <1>1 DEF Missing, NewBlock

-----------------------------------------------------------------------------
(* One row after the other is ensured.  A store in which tables and pool   *)
(* agree: nothing is shared, and what is live is what the tables hold.     *)
IsStore(st) ==
  st = [kv |-> st.kv, seqs |-> st.seqs, cells |-> st.cells, slots |-> st.slots]

HeldBy(st, q) == Range(st.seqs[q].table)

Held(st) ==
  /\ st.kv \in Pool(KvPages) /\ Partitioned(st.kv, KvPages)
  /\ st.seqs \in [DOMAIN st.seqs -> SequenceRecord]
  /\ \A q \in DOMAIN st.seqs : IsInjective(st.seqs[q].table)
  /\ \A q, r \in DOMAIN st.seqs :
       q # r => HeldBy(st, q) \cap HeldBy(st, r) = {}
  /\ st.kv.live = UNION {HeldBy(st, q) : q \in DOMAIN st.seqs}

(* The sequence's table has n pages more, which were free.                 *)
Extended(st, x, id, n) ==
  \E a \in Seq(Pages) :
    /\ Len(a) = n /\ Range(a) \cap st.kv.live = {}
    /\ x.seqs[id] = [slot |-> st.seqs[id].slot,
                     table |-> st.seqs[id].table \o a,
                     length |-> st.seqs[id].length]

(* x is st with n ids of the pool, a, appended to the table of id.         *)
Takes(st, x, id, n, a) ==
  /\ IsStore(x) /\ x.cells = st.cells /\ x.slots = st.slots
  /\ x.kv = AfterAcquire(st.kv, n)
  /\ DOMAIN x.seqs = DOMAIN st.seqs
  /\ x.seqs = [q \in DOMAIN st.seqs |-> x.seqs[q]]
  /\ \A q \in DOMAIN st.seqs : q # id => x.seqs[q] = st.seqs[q]
  /\ x.seqs[id] = [slot |-> st.seqs[id].slot,
                   table |-> st.seqs[id].table \o a,
                   length |-> st.seqs[id].length]

(* ensure_kv_capacity acquires and appends.                                *)
LEMMA EnsuredTakes ==
  ASSUME NEW st, IsStore(st), Held(st), NEW id \in DOMAIN st.seqs,
         NEW n, n = Need(st, id), NEW a, a = Acquired(st.kv, n),
         NEW x, x = Ensured(st, id)
  PROVE  Takes(st, x, id, n, a)
PROOF
<1>1. PICK pool, seqs, cells, slots :
        /\ pool = st.kv /\ seqs = st.seqs /\ cells = st.cells /\ slots = st.slots
        /\ st = [kv |-> pool, seqs |-> seqs, cells |-> cells, slots |-> slots]
  BY DEF IsStore
<1>2. seqs \in [DOMAIN seqs -> SequenceRecord]
  BY <1>1 DEF Held
<1>3. PICK rec \in SequenceRecord : rec = seqs[id]
  BY <1>1, <1>2
<1>4. PICK slot, t, length :
        /\ rec = [slot |-> slot, table |-> t, length |-> length]
        /\ rec.slot = slot /\ rec.table = t /\ rec.length = length
  BY DEF SequenceRecord
<1>5. a = Acquired(pool, n)
  BY <1>1
<1>6. x = [kv |-> AfterAcquire(pool, n),
           seqs |-> [seqs EXCEPT ![id].table = @ \o a],
           cells |-> cells, slots |-> slots]
  BY <1>1, <1>5 DEF Ensured
<1>7. PICK b : b = t \o a
  OBVIOUS
<1>8. x.seqs = [seqs EXCEPT ![id] = [slot |-> slot, table |-> b,
                                     length |-> length]]
  <2>1. [rec EXCEPT !.table = b]
          = [slot |-> slot, table |-> b, length |-> length]
    BY <1>4
  <2>2. [rec EXCEPT !.table = @ \o a] = [rec EXCEPT !.table = b]
    BY <1>4, <1>7
  <2>3. [seqs EXCEPT ![id].table = @ \o a]
          = [seqs EXCEPT ![id] = [rec EXCEPT !.table = @ \o a]]
    BY <1>3
  <2>4. x.seqs = [seqs EXCEPT ![id].table = @ \o a]
    BY <1>6
  <2> QED BY <2>1, <2>2, <2>3, <2>4
<1>9. /\ DOMAIN x.seqs = DOMAIN st.seqs
      /\ x.seqs = [q \in DOMAIN st.seqs |-> x.seqs[q]]
      /\ \A q \in DOMAIN st.seqs : q # id => x.seqs[q] = st.seqs[q]
      /\ x.seqs[id] = [slot |-> slot, table |-> b, length |-> length]
  BY <1>1, <1>2, <1>8
<1>10. IsStore(x) /\ x.cells = cells /\ x.slots = slots
       /\ x.kv = AfterAcquire(pool, n)
  BY <1>6 DEF IsStore
<1>11. st.seqs[id].slot = slot /\ st.seqs[id].table = t
       /\ st.seqs[id].length = length
  BY <1>1, <1>3, <1>4
<1> QED BY <1>1, <1>7, <1>9, <1>10, <1>11 DEF Takes

(* Ensuring a row keeps tables and pool in agreement, and takes from the   *)
(* pool only what the row needs.                                           *)
LEMMA EnsuredHeld ==
  ASSUME NEW st, IsStore(st), Held(st), NEW id \in DOMAIN st.seqs,
         NEW n \in Nat, n = Need(st, id), CanAcquire(st.kv, n),
         NEW x, x = Ensured(st, id)
  PROVE  /\ Held(x) /\ Extended(st, x, id, n)
         /\ st.kv.live \subseteq x.kv.live
         /\ Len(x.kv.free) = Len(st.kv.free) - n
PROOF
<1>1. PICK a : a = Acquired(st.kv, n)
  OBVIOUS
<1>2. PICK t : t = st.seqs[id].table
  OBVIOUS
<1>3. /\ x.kv = AfterAcquire(st.kv, n)
      /\ DOMAIN x.seqs = DOMAIN st.seqs
      /\ x.seqs = [q \in DOMAIN st.seqs |-> x.seqs[q]]
      /\ \A q \in DOMAIN st.seqs : q # id => x.seqs[q] = st.seqs[q]
      /\ x.seqs[id] = [slot |-> st.seqs[id].slot, table |-> t \o a,
                       length |-> st.seqs[id].length]
  <2>1. Takes(st, x, id, n, a)
    BY <1>1, EnsuredTakes
  <2> QED BY <1>2, <2>1 DEF Takes
<1>4. /\ st.kv \in Pool(KvPages) /\ Partitioned(st.kv, KvPages)
      /\ KvPages \in Nat
  BY DEF Held
<1>5. /\ x.kv \in Pool(KvPages) /\ Partitioned(x.kv, KvPages)
      /\ a \in Seq(Pages) /\ Len(a) = n /\ IsInjective(a)
      /\ Range(a) \cap st.kv.live = {}
      /\ x.kv.live = st.kv.live \cup Range(a)
  BY <1>1, <1>3, <1>4, AcquireFacts DEF Pages
<1>6. /\ \A q \in DOMAIN st.seqs :
           /\ st.seqs[q] \in SequenceRecord /\ st.seqs[q].table \in Seq(Pages)
           /\ IsInjective(st.seqs[q].table)
      /\ \A q \in DOMAIN st.seqs : HeldBy(st, q) \subseteq st.kv.live
  BY DEF Held, SequenceRecord
<1>7. t \in Seq(Pages) /\ IsInjective(t) /\ Range(t) = HeldBy(st, id)
      /\ Range(t) \cap Range(a) = {}
  BY <1>2, <1>5, <1>6 DEF HeldBy
<1>8. /\ t \o a \in Seq(Pages) /\ IsInjective(t \o a)
      /\ Range(t \o a) = Range(t) \cup Range(a)
  BY <1>5, <1>7, PushFacts
<1>9. /\ x.seqs[id].table = t \o a /\ x.seqs[id] \in SequenceRecord
      /\ HeldBy(x, id) = HeldBy(st, id) \cup Range(a)
      /\ \A q \in DOMAIN st.seqs : q # id => HeldBy(x, q) = HeldBy(st, q)
  <2>1. x.seqs[id].table = t \o a
    BY <1>3
  <2>2. x.seqs[id] \in SequenceRecord
    <3>1. PICK slot \in Slots, length \in 0..MaxSeqLen :
            slot = st.seqs[id].slot /\ length = st.seqs[id].length
      BY <1>6 DEF SequenceRecord
    <3>2. PICK b \in Seq(Pages) : b = t \o a
      BY <1>8
    <3>3. [slot |-> slot, table |-> b, length |-> length] \in SequenceRecord
      BY DEF SequenceRecord
    <3>4. x.seqs[id] = [slot |-> slot, table |-> b, length |-> length]
      BY <1>3, <3>1, <3>2
    <3> QED BY <3>3, <3>4
  <2>3. HeldBy(x, id) = HeldBy(st, id) \cup Range(a)
    BY <1>7, <1>8, <2>1 DEF HeldBy
  <2>4. \A q \in DOMAIN st.seqs : q # id => HeldBy(x, q) = HeldBy(st, q)
    BY <1>3 DEF HeldBy
  <2> QED BY <2>1, <2>2, <2>3, <2>4
<1>10. x.seqs \in [DOMAIN x.seqs -> SequenceRecord]
  BY <1>3, <1>6, <1>9
<1>11. \A q \in DOMAIN x.seqs : IsInjective(x.seqs[q].table)
  BY <1>3, <1>6, <1>8, <1>9
<1>12. ASSUME NEW q \in DOMAIN x.seqs, NEW r \in DOMAIN x.seqs, q # r
       PROVE  HeldBy(x, q) \cap HeldBy(x, r) = {}
  <2>1. HeldBy(st, q) \cap HeldBy(st, r) = {}
    BY <1>3, <1>12 DEF Held
  <2> QED BY <1>3, <1>5, <1>6, <1>9, <1>12, <2>1
<1>13. x.kv.live = UNION {HeldBy(x, q) : q \in DOMAIN x.seqs}
  <2>1. st.kv.live = UNION {HeldBy(st, q) : q \in DOMAIN st.seqs}
    BY DEF Held
  <2>2. ASSUME NEW p
        PROVE  p \in x.kv.live <=> \E q \in DOMAIN x.seqs : p \in HeldBy(x, q)
    <3>1. p \in x.kv.live
            <=> (\E q \in DOMAIN st.seqs : p \in HeldBy(st, q)) \/ p \in Range(a)
      BY <1>5, <2>1
    <3>2. \A q \in DOMAIN st.seqs :
            p \in HeldBy(x, q) <=> p \in HeldBy(st, q) \/ (q = id /\ p \in Range(a))
      BY <1>9
    <3> QED BY <1>3, <3>1, <3>2
  <2> QED BY <2>2
<1>14. Held(x)
  BY <1>5, <1>10, <1>11, <1>12, <1>13 DEF Held
<1>15. Extended(st, x, id, n)
  BY <1>2, <1>3, <1>5 DEF Extended
<1>16. Len(x.kv.free) = Len(st.kv.free) - n
  <2>1. st.kv.free \in Seq(Pages) /\ n <= Len(st.kv.free)
    BY <1>4 DEF Partitioned, Pages, CanAcquire
  <2>2. PICK k \in Nat : k = Len(st.kv.free) - n
    BY <2>1, LenProperties
  <2>3. x.kv.free = SubSeq(st.kv.free, 1, k) /\ k <= Len(st.kv.free)
    BY <1>3, <2>1, <2>2, LenProperties DEF AfterAcquire
  <2> QED BY <2>1, <2>2, <2>3, PrefixFacts
<1> QED BY <1>5, <1>14, <1>15, <1>16

-----------------------------------------------------------------------------
(* The fold over the rows.  The library takes the greatest index out of    *)
(* what is left, which exists.                                             *)
LEMMA MaxElement ==
  ASSUME NEW s, IsFiniteSet(s), \A y \in s : y \in Nat, s # {}
  PROVE  Max(s) \in s
PROOF
<1>1. PICK F : F = {{y \in s : y > m} : m \in s}
  OBVIOUS
<1>2. F \in SUBSET (SUBSET s) /\ F # {}
  BY <1>1
<1>3. PICK T \in F : \A U \in F : U \subseteq T => U = T
  BY <1>2, SmallestSet
<1>4. PICK m \in s : T = {y \in s : y > m}
  BY <1>1
<1>5. ASSUME NEW y \in s, y > m PROVE FALSE
  <2>1. PICK U \in F : U = {z \in s : z > y}
    BY <1>1
  <2>2. y \in T /\ y \notin U
    BY <1>4, <1>5, <2>1
  <2>3. ASSUME NEW z \in U PROVE z \in T
    <3>1. z \in s /\ z > y /\ z \in Nat /\ y \in Nat /\ m \in Nat
      BY <2>1
    <3> QED BY <1>4, <1>5, <3>1
  <2> QED BY <1>3, <2>2, <2>3
<1>6. \A y \in s : m >= y
  BY <1>5
<1> QED BY <1>6 DEF Max

Needs(st, rows) == [i \in DOMAIN rows |-> Need(st, rows[i])]

(* What the preflight checks of the rows.                                  *)
Admissible(st, rows) ==
  /\ IsStore(st) /\ Held(st)
  /\ IsFiniteSet(DOMAIN rows) /\ \A i \in DOMAIN rows : i \in Nat
  /\ \A i \in DOMAIN rows : /\ rows[i] \in DOMAIN st.seqs
                            /\ st.seqs[rows[i]].length < MaxSeqLen
  /\ \A i, j \in DOMAIN rows : rows[i] = rows[j] => i = j
  /\ SumFunctionOnSet(Needs(st, rows), DOMAIN rows) <= Len(st.kv.free)

(* x is st after the rows at the places s were ensured.                    *)
Grown(st, x, rows, s) ==
  /\ IsStore(x) /\ Held(x) /\ x.cells = st.cells /\ x.slots = st.slots
  /\ DOMAIN x.seqs = DOMAIN st.seqs
  /\ \A q \in DOMAIN st.seqs :
       (\A i \in s : rows[i] # q) => x.seqs[q] = st.seqs[q]
  /\ \A i \in s : Extended(st, x, rows[i], Need(st, rows[i]))
  /\ st.kv.live \subseteq x.kv.live
  /\ Len(x.kv.free) = Len(st.kv.free) - SumFunctionOnSet(Needs(st, rows), s)

(* The needs of any of the rows add up, and stay within what is free.      *)
LEMMA NeedsNat ==
  ASSUME NEW st, NEW rows, Admissible(st, rows)
  PROVE  /\ \A i \in DOMAIN rows : /\ Need(st, rows[i]) \in Nat
                                   /\ Needs(st, rows)[i] = Need(st, rows[i])
         /\ \A s \in SUBSET DOMAIN rows :
              /\ SumFunctionOnSet(Needs(st, rows), s) \in Nat
              /\ SumFunctionOnSet(Needs(st, rows), s) <= Len(st.kv.free)
              /\ \A i \in s : SumFunctionOnSet(Needs(st, rows), s)
                   = Need(st, rows[i]) + SumFunctionOnSet(Needs(st, rows), s \ {i})
         /\ SumFunctionOnSet(Needs(st, rows), {}) = 0
         /\ Len(st.kv.free) \in Nat
PROOF
<1>1. ASSUME NEW i \in DOMAIN rows
      PROVE  Need(st, rows[i]) \in Nat /\ Needs(st, rows)[i] = Need(st, rows[i])
  <2>1. PICK r \in SequenceRecord : r = st.seqs[rows[i]] /\ r.length < MaxSeqLen
    BY DEF Admissible, Held
  <2>2. r.table \in Seq(Pages) /\ r.length \in 0..MaxSeqLen - 1
    BY <2>1 DEF SequenceRecord
  <2> QED BY <2>1, <2>2, MissingIsNat DEF Need, Needs
<1>2. PICK f : f = Needs(st, rows)
  OBVIOUS
<1>3. \A i \in DOMAIN rows : f[i] \in Nat /\ f[i] = Need(st, rows[i])
  BY <1>1, <1>2
<1>4. Len(st.kv.free) \in Nat
  BY DEF Admissible, Held, Partitioned
<1>5. ASSUME NEW s \in SUBSET DOMAIN rows
      PROVE  /\ SumFunctionOnSet(f, s) \in Nat
             /\ SumFunctionOnSet(f, s) <= Len(st.kv.free)
             /\ \A i \in s : SumFunctionOnSet(f, s)
                               = f[i] + SumFunctionOnSet(f, s \ {i})
  <2>1. IsFiniteSet(s) /\ IsFiniteSet(DOMAIN rows)
    BY FS_Subset DEF Admissible
  <2>2. /\ SumFunctionOnSet(f, s) \in Nat
        /\ \A i \in s : SumFunctionOnSet(f, s)
                          = f[i] + SumFunctionOnSet(f, s \ {i})
    BY <1>3, <2>1, SumOfNaturals
  <2>3. SumFunctionOnSet(f, s) <= SumFunctionOnSet(f, DOMAIN rows)
    BY <1>3, <2>1, SumOfPart
  <2>4. SumFunctionOnSet(f, DOMAIN rows) \in Nat
    BY <1>3, <2>1, SumOfNaturals
  <2>5. SumFunctionOnSet(f, DOMAIN rows) <= Len(st.kv.free)
    BY <1>2 DEF Admissible
  <2> QED BY <1>4, <2>2, <2>3, <2>4, <2>5
<1>6. SumFunctionOnSet(f, {}) = 0
  BY FS_EmptySet, SumOfNaturals
<1> QED BY <1>1, <1>2, <1>3, <1>4, <1>5, <1>6

(* One more row: the pages it needs are among those that are left, and     *)
(* ensuring it touches no other row.                                       *)
LEMMA GrownByOne ==
  ASSUME NEW st, NEW rows, Admissible(st, rows),
         NEW s \in SUBSET DOMAIN rows, NEW i \in s,
         NEW y, Grown(st, y, rows, s \ {i}),
         NEW x, CanAcquire(y.kv, Need(y, rows[i])) => x = Ensured(y, rows[i])
  PROVE  CanAcquire(y.kv, Need(y, rows[i])) /\ Grown(st, x, rows, s)
PROOF
<1>1. PICK id \in DOMAIN st.seqs, n \in Nat : id = rows[i] /\ n = Need(st, id)
  BY NeedsNat DEF Admissible
<1>2. PICK free \in Nat, before \in Nat, after \in Nat :
        /\ free = Len(st.kv.free)
        /\ before = SumFunctionOnSet(Needs(st, rows), s \ {i})
        /\ after = SumFunctionOnSet(Needs(st, rows), s)
        /\ after = n + before /\ after <= free
  <2>1. s \ {i} \in SUBSET DOMAIN rows
    OBVIOUS
  <2> QED BY <1>1, <2>1, NeedsNat
<1>3. \A j \in s \ {i} : rows[j] # id
  BY <1>1 DEF Admissible
<1>4. y.seqs[id] = st.seqs[id] /\ DOMAIN y.seqs = DOMAIN st.seqs
  BY <1>3 DEF Grown
<1>5. n = Need(y, id)
  BY <1>1, <1>4 DEF Need
<1>6. Len(y.kv.free) = free - before /\ IsStore(y) /\ Held(y)
  BY <1>2 DEF Grown
<1>7. CanAcquire(y.kv, n)
  BY <1>2, <1>6 DEF CanAcquire
<1>8. x = Ensured(y, id)
  BY <1>1, <1>5, <1>7
<1>9. /\ Held(x) /\ Extended(y, x, id, n)
      /\ y.kv.live \subseteq x.kv.live
      /\ Len(x.kv.free) = Len(y.kv.free) - n
  BY <1>4, <1>5, <1>6, <1>7, <1>8, EnsuredHeld
<1>10. Takes(y, x, id, n, Acquired(y.kv, n))
  BY <1>4, <1>5, <1>6, <1>8, EnsuredTakes
<1>11. /\ IsStore(x) /\ x.cells = st.cells /\ x.slots = st.slots
       /\ DOMAIN x.seqs = DOMAIN st.seqs
       /\ \A q \in DOMAIN st.seqs : q # id => x.seqs[q] = y.seqs[q]
  BY <1>4, <1>10 DEF Takes, Grown
<1>12. \A q \in DOMAIN st.seqs :
         (\A j \in s : rows[j] # q) => x.seqs[q] = st.seqs[q]
  BY <1>1, <1>11 DEF Grown
<1>13. st.kv.live \subseteq y.kv.live
  BY DEF Grown
<1>14. ASSUME NEW j \in s PROVE Extended(st, x, rows[j], Need(st, rows[j]))
  <2>1. CASE j = i
    <3>1. PICK a \in Seq(Pages) :
            /\ Len(a) = n /\ Range(a) \cap y.kv.live = {}
            /\ x.seqs[id] = [slot |-> y.seqs[id].slot,
                             table |-> y.seqs[id].table \o a,
                             length |-> y.seqs[id].length]
      BY <1>9 DEF Extended
    <3>2. Range(a) \cap st.kv.live = {}
      BY <1>13, <3>1
    <3>3. x.seqs[id] = [slot |-> st.seqs[id].slot,
                        table |-> st.seqs[id].table \o a,
                        length |-> st.seqs[id].length]
      BY <1>4, <3>1
    <3> QED BY <1>1, <2>1, <3>1, <3>2, <3>3 DEF Extended
  <2>2. CASE j # i
    <3>1. Extended(st, y, rows[j], Need(st, rows[j]))
      BY <2>2 DEF Grown
    <3>2. x.seqs[rows[j]] = y.seqs[rows[j]]
      BY <1>3, <1>11, <2>2 DEF Admissible
    <3> QED BY <3>1, <3>2 DEF Extended
  <2> QED BY <2>1, <2>2
<1>15. Len(x.kv.free) = free - after
  BY <1>2, <1>6, <1>9
<1>16. st.kv.live \subseteq x.kv.live
  BY <1>9, <1>13
<1>17. Grown(st, x, rows, s)
  BY <1>2, <1>9, <1>11, <1>12, <1>14, <1>15, <1>16 DEF Grown
<1> QED BY <1>1, <1>5, <1>7, <1>17

(* Whatever computes the fold, on as many of the rows as one likes.        *)
LEMMA AllGrown ==
  ASSUME NEW st, NEW rows, Admissible(st, rows), NEW it, it[{}] = st,
         \A s \in SUBSET DOMAIN rows : s # {} =>
           \E i \in s :
             CanAcquire(it[s \ {i}].kv, Need(it[s \ {i}], rows[i]))
               => it[s] = Ensured(it[s \ {i}], rows[i])
  PROVE  \A s \in SUBSET DOMAIN rows : Grown(st, it[s], rows, s)
PROOF
<1>1. PICK D : D = DOMAIN rows
  OBVIOUS
<1>2. PICK Bad : Bad = {s \in SUBSET D : ~Grown(st, it[s], rows, s)}
  OBVIOUS
<1> SUFFICES ASSUME Bad # {} PROVE FALSE
  BY <1>1, <1>2
<1>3. Bad \in SUBSET (SUBSET D) /\ IsFiniteSet(D)
  BY <1>1, <1>2 DEF Admissible
<1>4. PICK s \in Bad : \A U \in Bad : U \subseteq s => U = s
  BY <1>3, SmallestSet
<1>5. s \in SUBSET DOMAIN rows /\ ~Grown(st, it[s], rows, s)
  BY <1>1, <1>2
<1>6. s # {}
  <2>1. Grown(st, st, rows, {})
    <3>1. Len(st.kv.free) = Len(st.kv.free)
                              - SumFunctionOnSet(Needs(st, rows), {})
      BY NeedsNat
    <3> QED BY <3>1 DEF Grown, Admissible
  <2> QED BY <1>5, <2>1
<1>7. PICK i \in s : CanAcquire(it[s \ {i}].kv, Need(it[s \ {i}], rows[i]))
                       => it[s] = Ensured(it[s \ {i}], rows[i])
  BY <1>5, <1>6
<1>8. Grown(st, it[s \ {i}], rows, s \ {i})
  <2>1. s \ {i} \in SUBSET D /\ s \ {i} # s /\ s \ {i} \subseteq s
    BY <1>1, <1>5
  <2> QED BY <1>2, <1>4, <2>1
<1> QED BY <1>5, <1>7, <1>8, GrownByOne

(* The stores that the fold goes through.                                  *)
Stores(st) ==
  {x \in [kv : Pool(KvPages), seqs : [DOMAIN st.seqs -> SequenceRecord],
          cells : {st.cells}, slots : {st.slots}] :
     /\ IsStore(x) /\ Held(x) /\ DOMAIN x.seqs = DOMAIN st.seqs
     /\ \A q \in DOMAIN st.seqs : x.seqs[q].length = st.seqs[q].length}

(* What is needed of a value to be one of them.                            *)
LEMMA InStores ==
  ASSUME NEW st, NEW x, IsStore(x), Held(x), DOMAIN x.seqs = DOMAIN st.seqs,
         x.cells = st.cells, x.slots = st.slots,
         \A q \in DOMAIN st.seqs : x.seqs[q].length = st.seqs[q].length
  PROVE  x \in Stores(st)
PROOF
<1>1. PICK pool, seqs, cells, slots :
        /\ x = [kv |-> pool, seqs |-> seqs, cells |-> cells, slots |-> slots]
        /\ pool = x.kv /\ seqs = x.seqs /\ cells = x.cells /\ slots = x.slots
  BY DEF IsStore
<1>2. /\ pool \in Pool(KvPages) /\ seqs \in [DOMAIN st.seqs -> SequenceRecord]
      /\ cells \in {st.cells} /\ slots \in {st.slots}
  BY <1>1 DEF Held
<1>3. x \in [kv : Pool(KvPages), seqs : [DOMAIN st.seqs -> SequenceRecord],
             cells : {st.cells}, slots : {st.slots}]
  BY <1>1, <1>2
<1> QED BY <1>3 DEF Stores

Guarded(x, id) == IF CanAcquire(x.kv, Need(x, id)) THEN Ensured(x, id) ELSE x

Ensures(st, rows) == [i \in DOMAIN rows |->
                        [x \in Stores(st) |-> Guarded(x, rows[i])]]

(* Ensuring a row of such a store gives another.                           *)
LEMMA GuardedStays ==
  ASSUME NEW st, NEW rows, Admissible(st, rows), NEW i \in DOMAIN rows,
         NEW y \in Stores(st)
  PROVE  Guarded(y, rows[i]) \in Stores(st)
PROOF
<1>1. /\ IsStore(y) /\ Held(y) /\ DOMAIN y.seqs = DOMAIN st.seqs
      /\ \A q \in DOMAIN st.seqs : y.seqs[q].length = st.seqs[q].length
      /\ y.cells = st.cells /\ y.slots = st.slots
  BY DEF Stores
<1>2. PICK id \in DOMAIN y.seqs : id = rows[i] /\ y.seqs[id].length < MaxSeqLen
  BY <1>1 DEF Admissible
<1>3. PICK n \in Nat : n = Need(y, id)
  <2>1. PICK r \in SequenceRecord : r = y.seqs[id] /\ r.length < MaxSeqLen
    BY <1>1, <1>2 DEF Held
  <2>2. r.table \in Seq(Pages) /\ r.length \in 0..MaxSeqLen - 1
    BY <2>1 DEF SequenceRecord
  <2> QED BY <2>1, <2>2, MissingIsNat DEF Need
<1>4. CASE ~CanAcquire(y.kv, n)
  BY <1>2, <1>3, <1>4 DEF Guarded
<1>5. CASE CanAcquire(y.kv, n)
  <2>1. PICK x : x = Ensured(y, id) /\ x = Guarded(y, rows[i])
    BY <1>2, <1>3, <1>5 DEF Guarded
  <2>2. Held(x)
    BY <1>1, <1>3, <1>5, <2>1, EnsuredHeld
  <2>3. Takes(y, x, id, n, Acquired(y.kv, n))
    BY <1>1, <1>3, <2>1, EnsuredTakes
  <2>4. /\ IsStore(x) /\ DOMAIN x.seqs = DOMAIN st.seqs
        /\ x.cells = st.cells /\ x.slots = st.slots
        /\ \A q \in DOMAIN st.seqs : x.seqs[q].length = st.seqs[q].length
    <3>1. PICK table : x.seqs[id] = [slot |-> y.seqs[id].slot, table |-> table,
                                     length |-> y.seqs[id].length]
      BY <2>3 DEF Takes
    <3>2. x.seqs[id].length = y.seqs[id].length
      BY <3>1
    <3> QED BY <1>1, <2>3, <3>2 DEF Takes
  <2> QED BY <2>1, <2>2, <2>4, InStores
<1> QED BY <1>4, <1>5

Latest(rows) == [s \in SUBSET DOMAIN rows |-> Max(s)]

Unfolded(st, rows, it) ==
  it = [s \in SUBSET DOMAIN rows |->
          IF s = {} THEN st ELSE Ensured(it[s \ {Max(s)}], rows[Max(s)])]

(* The index the library's fold takes next is one of those that are left.  *)
LEMMA LatestPicks ==
  ASSUME NEW st, NEW rows, Admissible(st, rows)
  PROVE  \A s \in SUBSET DOMAIN rows : s # {} => Max(s) \in s
PROOF
<1> SUFFICES ASSUME NEW s \in SUBSET DOMAIN rows, s # {} PROVE Max(s) \in s
  OBVIOUS
<1>1. IsFiniteSet(s) /\ \A y \in s : y \in Nat
  BY FS_Subset DEF Admissible
<1> QED BY <1>1, MaxElement

(* The fold of the library is computed by a function: the one that ensures *)
(* a row where it can, and it always can.                                  *)
LEMMA FoldExists ==
  ASSUME NEW st, NEW rows, Admissible(st, rows)
  PROVE  \E it : Unfolded(st, rows, it)
PROOF
<1>1. PICK S, D, h, pick :
        /\ S = Stores(st) /\ D = DOMAIN rows
        /\ h = Ensures(st, rows) /\ pick = Latest(rows)
  OBVIOUS
<1>2. h \in [D -> [S -> S]]
  BY <1>1, GuardedStays DEF Ensures
<1>3. Picks(pick, D)
  BY <1>1, LatestPicks DEF Picks, Latest
<1>4. st \in S /\ IsFiniteSet(D)
  BY <1>1, InStores DEF Admissible
<1>5. PICK it \in [SUBSET D -> S] : Computes(it, D, st, pick, h)
  BY <1>2, <1>3, <1>4, RecursionExists
<1>6. it[{}] = st
  BY <1>5 DEF Computes
<1>7. ASSUME NEW s \in SUBSET D, s # {}
      PROVE  /\ Max(s) \in s
             /\ it[s] = Guarded(it[s \ {Max(s)}], rows[Max(s)])
  <2>1. PICK i \in s : i = Max(s) /\ pick[s] = i
    BY <1>1, <1>7, LatestPicks DEF Latest
  <2>2. PICK y \in S : y = it[s \ {i}]
    BY <1>5
  <2>3. it[s] = h[i][y]
    BY <1>5, <1>7, <2>1, <2>2 DEF Computes
  <2>4. h[i][y] = Guarded(y, rows[i])
    BY <1>1, <2>1 DEF Ensures
  <2> QED BY <2>1, <2>2, <2>3, <2>4
<1>8. \A s \in SUBSET DOMAIN rows : Grown(st, it[s], rows, s)
  <2>1. \A s \in SUBSET DOMAIN rows : s # {} =>
          \E i \in s :
            CanAcquire(it[s \ {i}].kv, Need(it[s \ {i}], rows[i]))
              => it[s] = Ensured(it[s \ {i}], rows[i])
    BY <1>1, <1>7 DEF Guarded
  <2> QED BY <1>6, <2>1, AllGrown
<1>9. ASSUME NEW s \in SUBSET D, s # {}
      PROVE  it[s] = Ensured(it[s \ {Max(s)}], rows[Max(s)])
  <2>1. PICK i \in s : i = Max(s)
    BY <1>7, <1>9
  <2>2. PICK y : y = it[s \ {i}]
    OBVIOUS
  <2>3. Grown(st, y, rows, s \ {i})
    BY <1>1, <1>8, <2>2
  <2>4. CanAcquire(y.kv, Need(y, rows[i]))
    BY <1>1, <2>3, GrownByOne
  <2>5. it[s] = Guarded(y, rows[i])
    BY <1>7, <1>9, <2>1, <2>2
  <2> QED BY <2>1, <2>2, <2>4, <2>5 DEF Guarded
<1>10. it = [s \in SUBSET D |-> it[s]]
  BY <1>5
<1>11. it = [s \in SUBSET D |->
               IF s = {} THEN st ELSE Ensured(it[s \ {Max(s)}], rows[Max(s)])]
  BY <1>6, <1>9, <1>10
<1> QED BY <1>1, <1>11 DEF Unfolded

(* After the fold every row has the page it needs.                         *)
LEMMA FoldGrown ==
  ASSUME NEW st, NEW rows, Admissible(st, rows)
  PROVE  Grown(st, FoldLeft(Ensured, st, rows), rows, DOMAIN rows)
PROOF
<1> DEFINE it == CHOOSE g : Unfolded(st, rows, g)
<1>1. FoldLeft(Ensured, st, rows) = it[DOMAIN rows]
  BY DEF FoldLeft, MapThenFoldSet, Unfolded
<1>2. Unfolded(st, rows, it)
  BY FoldExists
<1> HIDE DEF it
<1>3. it[{}] = st
  BY <1>2 DEF Unfolded
<1>4. ASSUME NEW s \in SUBSET DOMAIN rows, s # {}
      PROVE  \E i \in s :
               CanAcquire(it[s \ {i}].kv, Need(it[s \ {i}], rows[i]))
                 => it[s] = Ensured(it[s \ {i}], rows[i])
  <2>1. PICK i \in s : i = Max(s)
    BY <1>4, LatestPicks
  <2>2. it[s] = Ensured(it[s \ {i}], rows[i])
    BY <1>2, <1>4, <2>1 DEF Unfolded
  <2> QED BY <2>2
<1>5. Grown(st, it[DOMAIN rows], rows, DOMAIN rows)
  BY <1>3, <1>4, AllGrown
<1> QED BY <1>1, <1>5

SumUnfolded(rows, it) ==
  it = [s \in SUBSET DOMAIN rows |->
          IF s = {} THEN 0 ELSE it[s \ {Max(s)}] + Need(Store, rows[Max(s)])]

(* What the preflight counts is what the rows need together.               *)
LEMMA BatchNeedIsSum ==
  ASSUME NEW rows, IsFiniteSet(DOMAIN rows),
         \A i \in DOMAIN rows : i \in Nat /\ Need(Store, rows[i]) \in Nat
  PROVE  BatchNeed(rows) = SumFunctionOnSet(Needs(Store, rows), DOMAIN rows)
PROOF
<1>1. PICK D, f, sum :
        /\ D = DOMAIN rows /\ f = Needs(Store, rows)
        /\ sum = [s \in SUBSET D |-> SumFunctionOnSet(f, s)]
  OBVIOUS
<1>2. \A i \in D : f[i] \in Nat /\ f[i] = Need(Store, rows[i])
  BY <1>1 DEF Needs
<1>3. ASSUME NEW s \in SUBSET D, s # {}
      PROVE  /\ Max(s) \in s
             /\ sum[s] = sum[s \ {Max(s)}] + Need(Store, rows[Max(s)])
  <2>1. IsFiniteSet(s) /\ \A y \in s : y \in Nat
    BY <1>1, FS_Subset
  <2>2. PICK i \in s : i = Max(s)
    BY <1>3, <2>1, MaxElement
  <2>3. SumFunctionOnSet(f, s) = f[i] + SumFunctionOnSet(f, s \ {i})
    BY <1>2, <2>1, SumOfNaturals
  <2>4. IsFiniteSet(s \ {i}) /\ \A j \in s \ {i} : f[j] \in Nat
    BY <1>2, <2>1, FS_Subset
  <2>5. SumFunctionOnSet(f, s \ {i}) \in Nat
    BY <2>4, SumOfNaturals
  <2>6. f[i] \in Nat /\ f[i] = Need(Store, rows[i])
    BY <1>2
  <2>7. sum[s] = SumFunctionOnSet(f, s)
        /\ sum[s \ {i}] = SumFunctionOnSet(f, s \ {i})
    BY <1>1
  <2>8. sum[s] = sum[s \ {i}] + f[i]
    BY <2>3, <2>5, <2>6, <2>7
  <2> QED BY <2>2, <2>6, <2>8
<1>4. sum[{}] = 0
  <2>1. SumFunctionOnSet(f, {}) = 0
    BY FS_EmptySet, SumOfNaturals
  <2> QED BY <1>1, <2>1
<1>5. SumUnfolded(rows, sum)
  <2>1. sum = [s \in SUBSET D |-> sum[s]]
    BY <1>1
  <2> QED BY <1>1, <1>3, <1>4, <2>1 DEF SumUnfolded
<1> DEFINE it == CHOOSE g : SumUnfolded(rows, g)
<1>6. BatchNeed(rows) = it[DOMAIN rows]
  BY DEF BatchNeed, FoldLeft, MapThenFoldSet, SumUnfolded
<1>7. SumUnfolded(rows, it)
  BY <1>5
<1> HIDE DEF it
<1>8. \A s \in SUBSET D : it[s] = sum[s]
  <2>1. PICK Bad : Bad = {s \in SUBSET D : it[s] # sum[s]}
    OBVIOUS
  <2> SUFFICES ASSUME Bad # {} PROVE FALSE
    BY <2>1
  <2>2. Bad \in SUBSET (SUBSET D) /\ IsFiniteSet(D)
    BY <1>1, <2>1
  <2>3. PICK s \in Bad : \A U \in Bad : U \subseteq s => U = s
    BY <2>2, SmallestSet
  <2>4. s \in SUBSET D /\ it[s] # sum[s]
    BY <2>1
  <2>5. s # {}
    BY <1>4, <1>7, <2>4 DEF SumUnfolded
  <2>6. PICK i \in s : i = Max(s)
    BY <1>3, <2>4, <2>5
  <2>7. it[s \ {i}] = sum[s \ {i}]
    <3>1. s \ {i} \in SUBSET D /\ s \ {i} # s /\ s \ {i} \subseteq s
      BY <2>4
    <3> QED BY <2>1, <2>3, <3>1
  <2>8. it[s] = it[s \ {i}] + Need(Store, rows[i])
    BY <1>1, <1>7, <2>4, <2>5, <2>6 DEF SumUnfolded
  <2>9. sum[s] = sum[s \ {i}] + Need(Store, rows[i])
    BY <1>3, <2>4, <2>5, <2>6
  <2> QED BY <2>4, <2>7, <2>8, <2>9
<1> QED BY <1>1, <1>6, <1>8

-----------------------------------------------------------------------------
(* What the layers write.  A sequence's slot has absorbed its tokens and   *)
(* its table holds them.                                                   *)
Whole(st, q) ==
  LET r == st.seqs[q]
  IN  /\ st.slots[r.slot] = [i \in 1..r.length |-> q]
      /\ Len(r.table) = PagesFor(r.length)
      /\ \A p \in Nat : Block(p) < Len(r.table) =>
           st.cells[r.table[Block(p) + 1]][Offset(p)]
             = IF p < r.length THEN q ELSE 0

Apart(st) == \A q, r \in DOMAIN st.seqs :
               q # r => st.seqs[q].slot # st.seqs[r].slot

FreeZero(st) == \A p \in Pages \ st.kv.live : st.cells[p] = ZeroPage

Sane(st) ==
  /\ IsStore(st) /\ Held(st) /\ Apart(st) /\ FreeZero(st)
  /\ DOMAIN st.seqs \subseteq Ids
  /\ st.cells \in [Pages -> [Offsets -> Ids \cup {0}]]
  /\ st.slots \in [Slots -> Seq(Ids)]
  /\ \A q \in DOMAIN st.seqs : Whole(st, q)

(* The rows that fold a token into one slot, in order: none or one.        *)
LEMMA SetToSeqFew ==
  ASSUME NEW q
  PROVE  SetToSeq({}) = <<>> /\ SetToSeq({q}) = <<q>>
PROOF
<1>1. SetToSeq({}) = <<>>
  <2>1. Cardinality({}) = 0 /\ 1..0 = {}
    BY FS_EmptySet
  <2>2. \A f \in [1..0 -> {}] : f = <<>>
    BY <2>1
  <2>3. <<>> \in [1..0 -> {}]
    BY <2>1
  <2>4. IsInjective(<<>>)
    BY DEF IsInjective
  <2> QED BY <2>1, <2>2, <2>3, <2>4 DEF SetToSeq
<1>2. SetToSeq({q}) = <<q>>
  <2>1. Cardinality({q}) = 1
    BY FS_Singleton
  <2>2. 1..1 = {1}
    OBVIOUS
  <2>3. \A f \in [1..1 -> {q}] : f = <<q>>
    BY <2>2
  <2>4. <<q>> \in [1..1 -> {q}]
    BY <2>2
  <2>5. IsInjective(<<q>>)
    BY DEF IsInjective
  <2> QED BY <2>1, <2>3, <2>4, <2>5 DEF SetToSeq
<1> QED BY <1>1, <1>2

(* A token more folded into a slot that has absorbed n of q.               *)
LEMMA OneMore ==
  ASSUME NEW S, NEW q \in S, NEW n \in Nat
  PROVE  /\ [i \in 1..n |-> q] \in Seq(S)
         /\ [i \in 1..n |-> q] \o <<>> = [i \in 1..n |-> q]
         /\ [i \in 1..n |-> q] \o <<q>> = [i \in 1..n + 1 |-> q]
PROOF
<1>1. PICK f : f = [i \in 1..n |-> q]
  OBVIOUS
<1>2. f \in Seq(S) /\ Len(f) = n
  BY <1>1
<1>3. f \o <<>> = f
  BY <1>2
<1>4. PICK g : g = f \o <<q>>
  OBVIOUS
<1>5. PICK h : h = [i \in 1..n + 1 |-> q]
  OBVIOUS
<1>6. /\ g \in Seq(S) /\ Len(g) = n + 1
      /\ \A i \in 1..n : g[i] = q
      /\ g[n + 1] = q
  <2>1. g = Append(f, q)
    BY <1>2, <1>4, AppendIsConcat
  <2> QED BY <1>1, <1>2, <2>1, AppendProperties
<1>7. h \in Seq(S) /\ Len(h) = n + 1 /\ \A i \in 1..n + 1 : h[i] = q
  BY <1>5
<1>8. \A i \in 1..n + 1 : i \in 1..n \/ i = n + 1
  OBVIOUS
<1>9. g = h
  BY <1>6, <1>7, <1>8, SeqEqual
<1> QED BY <1>1, <1>2, <1>3, <1>4, <1>5, <1>9

(* After the rows were ensured every sequence has the pages for its next   *)
(* token if it is a row, and the new pages are zero.                       *)
LEMMA GrownWhole ==
  ASSUME NEW st, Sane(st), NEW rows, Admissible(st, rows),
         NEW x, Grown(st, x, rows, DOMAIN rows),
         NEW S, S = ToSet(rows), NEW q \in DOMAIN st.seqs,
         NEW n, n = st.seqs[q].length, NEW t, t = x.seqs[q].table
  PROVE  /\ x.seqs[q].slot = st.seqs[q].slot /\ x.seqs[q].length = n
         /\ Len(t) = PagesFor(n + (IF q \in S THEN 1 ELSE 0))
         /\ \A p \in Nat : Block(p) < Len(t) =>
              st.cells[t[Block(p) + 1]][Offset(p)] = IF p < n THEN q ELSE 0
PROOF
<1>1. PICK d : d = st.seqs[q].table
  OBVIOUS
<1>2. d \in Seq(Pages) /\ n \in Nat
  BY <1>1 DEF Sane, Held, SequenceRecord
<1>3. /\ Len(d) = PagesFor(n)
      /\ \A p \in Nat : Block(p) < Len(d) =>
           st.cells[d[Block(p) + 1]][Offset(p)] = IF p < n THEN q ELSE 0
  BY <1>1 DEF Sane, Whole
<1>4. CASE q \notin S
  <2>1. \A i \in DOMAIN rows : rows[i] # q
    BY <1>4 DEF ToSet
  <2>2. x.seqs[q] = st.seqs[q]
    BY <2>1 DEF Grown
  <2> QED BY <1>1, <1>2, <1>3, <1>4, <2>2
<1>5. CASE q \in S
  <2>1. PICK i \in DOMAIN rows : rows[i] = q
    BY <1>5 DEF ToSet
  <2>2. Extended(st, x, q, Need(st, q))
    BY <2>1 DEF Grown
  <2>3. Need(st, q) = NewBlock(n)
    BY <1>1, <1>2, <1>3, MissingOne DEF Need
  <2>4. PICK a \in Seq(Pages) :
          /\ Len(a) = NewBlock(n) /\ Range(a) \cap st.kv.live = {}
          /\ x.seqs[q] = [slot |-> st.seqs[q].slot, table |-> d \o a,
                          length |-> n]
    BY <1>1, <2>2, <2>3 DEF Extended
  <2>5. t = d \o a /\ x.seqs[q].slot = st.seqs[q].slot /\ x.seqs[q].length = n
    BY <2>4
  <2>6. PICK k \in Nat, m \in Nat : k = Len(d) /\ m = Len(a)
    BY <1>2, <2>4, LenProperties
  <2>7. /\ Len(t) = k + m
        /\ \A j \in 1..k + m : t[j] = IF j <= k THEN d[j] ELSE a[j - k]
    <3>1. d \in Seq(Pages) /\ a \in Seq(Pages)
      BY <1>2, <2>4
    <3> QED BY <2>5, <2>6, <3>1, ConcatProperties
  <2>8. k + m = PagesFor(n + 1)
    <3>1. /\ Block(n) \in Nat /\ PagesFor(n) = Block(n) + 1 - NewBlock(n)
          /\ PagesFor(n + 1) = Block(n) + 1
      BY <1>2, PositionFacts, PagesForFacts
    <3>2. PICK b \in Nat : b = Block(n)
      BY <3>1
    <3>3. k = b + 1 - m
      BY <1>3, <2>4, <2>6, <3>1, <3>2
    <3> QED BY <2>6, <3>1, <3>2, <3>3
  <2>9. ASSUME NEW p \in Nat, Block(p) < Len(t)
        PROVE  st.cells[t[Block(p) + 1]][Offset(p)] = IF p < n THEN q ELSE 0
    <3>1. PICK b \in Nat, o \in Offsets : b = Block(p) /\ o = Offset(p)
      BY PositionFacts
    <3>2. CASE b < k
      <4>1. t[b + 1] = d[b + 1]
        BY <2>6, <2>7, <3>1, <3>2
      <4> QED BY <1>3, <2>6, <3>1, <3>2, <4>1
    <3>3. CASE ~(b < k)
      <4>1. PICK j \in 1..m : b + 1 = k + j
        <5>1. b + 1 - k \in 1..m /\ b + 1 = k + (b + 1 - k)
          BY <2>7, <2>9, <3>1, <3>3
        <5> QED BY <5>1
      <4>2. PICK w \in Pages : w = a[j] /\ w = t[b + 1] /\ w \in Range(a)
        <5>1. b + 1 \in 1..k + m /\ ~(b + 1 <= k) /\ b + 1 - k = j
          BY <2>6, <3>1, <4>1
        <5>2. t[b + 1] = a[j]
          BY <2>7, <5>1
        <5>3. a[j] \in Pages /\ j \in DOMAIN a
          BY <2>4, <2>6, LenProperties, ElementOfSeq
        <5> QED BY <5>2, <5>3 DEF Range
      <4>3. st.cells[w] = ZeroPage
        BY <2>4, <4>2 DEF Sane, FreeZero
      <4>4. st.cells[w][o] = 0
        BY <3>1, <4>3 DEF ZeroPage
      <4>5. ~(p < n)
        <5>1. PICK z \in Nat : z = k * PageTokens
          OBVIOUS
        <5>2. n <= z
          BY <1>2, <1>3, <2>6, <5>1, PagesForFacts
        <5>3. ~(p < z)
          BY <3>1, <3>3, <5>1, PositionsBelow
        <5> QED BY <1>2, <5>2, <5>3
      <4> QED BY <3>1, <4>2, <4>4, <4>5
    <3> QED BY <3>2, <3>3
  <2> QED BY <1>5, <2>5, <2>7, <2>8, <2>9
<1> QED BY <1>4, <1>5

(* What the layers of the rows S leave in a cell.                          *)
Cell(x, S, p, o) ==
  IF Author(x, S, p, o) # {} THEN CHOOSE id \in Author(x, S, p, o) : TRUE
  ELSE x.cells[p][o]

(* z is x after the layers of the rows S and the advance of their lengths. *)
Landed(x, S, z) ==
  /\ IsStore(z) /\ z.kv = x.kv
  /\ z.cells = [p \in Pages |-> [o \in Offsets |-> Cell(x, S, p, o)]]
  /\ z.slots = [s \in Slots |-> x.slots[s] \o
                  SetToSeq({id \in S : x.seqs[id].slot = s})]
  /\ DOMAIN z.seqs = DOMAIN x.seqs
  /\ z.seqs = [q \in DOMAIN x.seqs |-> z.seqs[q]]
  /\ \A q \in DOMAIN x.seqs :
       z.seqs[q] = [slot |-> x.seqs[q].slot, table |-> x.seqs[q].table,
                    length |-> x.seqs[q].length + (IF q \in S THEN 1 ELSE 0)]

(* The layers and the advance, on any rows.                                *)
LEMMA AdvancedLands ==
  ASSUME NEW x, IsStore(x), Held(x), NEW S,
         NEW z, z = Advanced(Written(x, S), S)
  PROVE  Landed(x, S, z)
PROOF
<1>1. PICK pool, seqs, cells, slots :
        /\ pool = x.kv /\ seqs = x.seqs /\ cells = x.cells /\ slots = x.slots
        /\ x = [kv |-> pool, seqs |-> seqs, cells |-> cells, slots |-> slots]
  BY DEF IsStore
<1>2. PICK written, folded :
        /\ written = [p \in Pages |-> [o \in Offsets |-> Cell(x, S, p, o)]]
        /\ folded = [s \in Slots |-> slots[s] \o
                       SetToSeq({id \in S : seqs[id].slot = s})]
  OBVIOUS
<1>3. PICK y : y = Written(x, S)
  OBVIOUS
<1>4. y = [kv |-> pool, seqs |-> seqs, cells |-> written, slots |-> folded]
  <2>1. y = [x EXCEPT !.cells = written, !.slots = folded]
    BY <1>1, <1>2, <1>3 DEF Written, Cell
  <2> QED BY <1>1, <2>1
<1>5. PICK further :
        further = [id \in DOMAIN seqs |->
                     [seqs[id] EXCEPT !.length = @ + IF id \in S THEN 1 ELSE 0]]
  OBVIOUS
<1>6. z = Advanced(y, S)
  BY <1>3
<1>7. z = [kv |-> pool, seqs |-> further, cells |-> written, slots |-> folded]
  <2>1. z = [y EXCEPT !.seqs = further]
    BY <1>4, <1>5, <1>6 DEF Advanced
  <2> QED BY <1>4, <2>1
<1>8. ASSUME NEW q \in DOMAIN seqs
      PROVE  further[q] =
               [slot |-> seqs[q].slot, table |-> seqs[q].table,
                length |-> seqs[q].length + (IF q \in S THEN 1 ELSE 0)]
  <2>1. PICK rec \in SequenceRecord : rec = seqs[q]
    BY <1>1 DEF Held
  <2>2. PICK slot, t, n :
          /\ rec = [slot |-> slot, table |-> t, length |-> n]
          /\ rec.slot = slot /\ rec.table = t /\ rec.length = n
    BY DEF SequenceRecord
  <2>3. PICK m : m = n + (IF q \in S THEN 1 ELSE 0)
    OBVIOUS
  <2>4. [rec EXCEPT !.length = m] = [slot |-> slot, table |-> t, length |-> m]
    BY <2>2
  <2>5. further[q] = [rec EXCEPT !.length = m]
    BY <1>5, <2>1, <2>2, <2>3
  <2> QED BY <2>1, <2>2, <2>3, <2>4, <2>5
<1>9. /\ IsStore(z) /\ z.kv = x.kv /\ z.cells = written /\ z.slots = folded
      /\ z.seqs = further
  BY <1>1, <1>7 DEF IsStore
<1>10. DOMAIN z.seqs = DOMAIN seqs /\ z.seqs = [q \in DOMAIN seqs |-> z.seqs[q]]
  BY <1>5, <1>9
<1>11. z.cells = [p \in Pages |-> [o \in Offsets |-> Cell(x, S, p, o)]]
  BY <1>1, <1>2, <1>9
<1>12. z.slots = [s \in Slots |-> x.slots[s] \o
                   SetToSeq({id \in S : x.seqs[id].slot = s})]
  BY <1>1, <1>2, <1>9
<1>13. \A q \in DOMAIN x.seqs :
         z.seqs[q] = [slot |-> x.seqs[q].slot, table |-> x.seqs[q].table,
                      length |-> x.seqs[q].length + (IF q \in S THEN 1 ELSE 0)]
  BY <1>1, <1>8, <1>9
<1>14. DOMAIN z.seqs = DOMAIN x.seqs
       /\ z.seqs = [q \in DOMAIN x.seqs |-> z.seqs[q]]
  BY <1>1, <1>10
<1> QED BY <1>9, <1>11, <1>12, <1>13, <1>14 DEF Landed

(* Forwarded is the layers and the advance after the fold.                 *)
LEMMA ForwardedLands ==
  ASSUME NEW st, NEW rows, NEW S, S = ToSet(rows),
         NEW x, x = FoldLeft(Ensured, st, rows), IsStore(x), Held(x),
         NEW z, z = Forwarded(st, rows)
  PROVE  Landed(x, S, z)
PROOF
<1>1. z = Advanced(Written(x, S), S)
  BY DEF Forwarded
<1> QED BY <1>1, AdvancedLands

(* The rows S of a store that is as it should be, ensured.                 *)
Ready(st, x, rows, S) ==
  /\ Sane(st) /\ Admissible(st, rows) /\ S = ToSet(rows)
  /\ Grown(st, x, rows, DOMAIN rows)

(* A row's next token has a place in its table.                            *)
LEMMA TargetFacts ==
  ASSUME NEW st, NEW x, NEW rows, NEW S, Ready(st, x, rows, S), NEW q \in S,
         NEW t, t = x.seqs[q].table, NEW n, n = x.seqs[q].length
  PROVE  /\ q \in DOMAIN x.seqs /\ q \in DOMAIN st.seqs
         /\ n \in Nat /\ n < MaxSeqLen
         /\ Block(n) < Len(t)
         /\ Block(n) + 1 \in DOMAIN t
         /\ t[Block(n) + 1] \in HeldBy(x, q)
PROOF
<1>1. /\ q \in DOMAIN x.seqs /\ q \in DOMAIN st.seqs
      /\ st.seqs[q].length < MaxSeqLen
  <2>1. PICK i \in DOMAIN rows : rows[i] = q
    BY DEF Ready, ToSet
  <2>2. q \in DOMAIN st.seqs /\ st.seqs[q].length < MaxSeqLen
    BY <2>1 DEF Ready, Admissible
  <2> QED BY <2>2 DEF Ready, Grown
<1>2. x.seqs[q] \in SequenceRecord
  BY <1>1 DEF Ready, Grown, Held
<1>3. t \in Seq(Pages) /\ n \in Nat
  BY <1>2 DEF SequenceRecord
<1>4. n = st.seqs[q].length /\ Len(t) = PagesFor(n + 1)
  <2>1. PICK k : k = st.seqs[q].length
    OBVIOUS
  <2>2. /\ x.seqs[q].length = k
        /\ Len(t) = PagesFor(k + (IF q \in S THEN 1 ELSE 0))
    BY <1>1, <2>1, GrownWhole DEF Ready
  <2> QED BY <2>1, <2>2
<1>5. Len(t) = Block(n) + 1 /\ Block(n) \in Nat
  BY <1>3, <1>4, PagesForFacts, PositionFacts
<1>6. Block(n) + 1 \in DOMAIN t
  BY <1>3, <1>5, LenProperties
<1>7. t[Block(n) + 1] \in HeldBy(x, q)
  BY <1>6 DEF HeldBy, Range
<1>8. Block(n) < Len(t)
  BY <1>5
<1> QED BY <1>1, <1>3, <1>4, <1>6, <1>7, <1>8

(* Who writes a cell: the sequence that holds the page, at its length.     *)
LEMMA AuthorHeld ==
  ASSUME NEW st, NEW x, NEW rows, NEW S, Ready(st, x, rows, S),
         NEW q \in DOMAIN x.seqs, NEW w \in HeldBy(x, q), NEW o,
         NEW t, t = x.seqs[q].table, NEW n, n = x.seqs[q].length
  PROVE  Author(x, S, w, o) =
           IF q \in S /\ w = t[Block(n) + 1] /\ o = Offset(n) THEN {q} ELSE {}
PROOF
<1>1. ASSUME NEW r \in Author(x, S, w, o)
      PROVE  r = q /\ q \in S /\ w = t[Block(n) + 1] /\ o = Offset(n)
  <2>1. PICK d, m : d = x.seqs[r].table /\ m = x.seqs[r].length
    OBVIOUS
  <2>2. r \in S /\ w = d[Block(m) + 1] /\ o = Offset(m)
    BY <2>1 DEF Author
  <2>3. r \in DOMAIN x.seqs /\ d[Block(m) + 1] \in HeldBy(x, r)
    BY <2>1, <2>2, TargetFacts
  <2>4. r = q
    BY <2>2, <2>3 DEF Ready, Grown, Held
  <2> QED BY <2>1, <2>2, <2>4
<1>2. ASSUME q \in S, w = t[Block(n) + 1], o = Offset(n)
      PROVE  q \in Author(x, S, w, o)
  BY <1>2 DEF Author
<1> QED BY <1>1, <1>2

(* Nobody writes a page that is free.                                      *)
LEMMA AuthorFree ==
  ASSUME NEW st, NEW x, NEW rows, NEW S, Ready(st, x, rows, S),
         NEW w, w \notin x.kv.live, NEW o
  PROVE  Author(x, S, w, o) = {}
PROOF
<1> SUFFICES ASSUME NEW r \in Author(x, S, w, o) PROVE FALSE
  OBVIOUS
<1>1. PICK d, m : d = x.seqs[r].table /\ m = x.seqs[r].length
  OBVIOUS
<1>2. r \in S /\ w = d[Block(m) + 1]
  BY <1>1 DEF Author
<1>3. r \in DOMAIN x.seqs /\ w \in HeldBy(x, r)
  BY <1>1, <1>2, TargetFacts
<1> QED BY <1>3 DEF Ready, Grown, Held

(* The slot of a sequence absorbs its own token, if it is a row.           *)
LEMMA FolderOf ==
  ASSUME NEW st, NEW x, NEW rows, NEW S, Ready(st, x, rows, S),
         NEW q \in DOMAIN x.seqs
  PROVE  {id \in S : x.seqs[id].slot = x.seqs[q].slot}
           = IF q \in S THEN {q} ELSE {}
PROOF
<1>1. ASSUME NEW r \in DOMAIN x.seqs
      PROVE  r \in DOMAIN st.seqs /\ x.seqs[r].slot = st.seqs[r].slot
  <2>1. r \in DOMAIN st.seqs
    BY <1>1 DEF Ready, Grown
  <2>2. PICK n, t : n = st.seqs[r].length /\ t = x.seqs[r].table
    OBVIOUS
  <2> QED BY <2>1, <2>2, GrownWhole DEF Ready
<1>2. \A r \in DOMAIN x.seqs : r # q => x.seqs[r].slot # x.seqs[q].slot
  BY <1>1 DEF Ready, Sane, Apart
<1>3. \A r \in S : r \in DOMAIN x.seqs
  <2> SUFFICES ASSUME NEW r \in S PROVE r \in DOMAIN x.seqs
    OBVIOUS
  <2>1. PICK n, t : n = x.seqs[r].length /\ t = x.seqs[r].table
    OBVIOUS
  <2> QED BY <2>1, TargetFacts
<1> QED BY <1>2, <1>3

(* The state of every sequence is that of its own tokens, the new one      *)
(* included.                                                               *)
LEMMA LandedWhole ==
  ASSUME NEW st, NEW x, NEW rows, NEW S, Ready(st, x, rows, S),
         NEW z, Landed(x, S, z), NEW q \in DOMAIN x.seqs
  PROVE  Whole(z, q)
PROOF
<1>1. x.seqs[q] \in SequenceRecord /\ q \in DOMAIN st.seqs
  BY DEF Ready, Grown, Held
<1>2. PICK slot \in Slots, t \in Seq(Pages), n \in Nat :
        slot = x.seqs[q].slot /\ t = x.seqs[q].table /\ n = x.seqs[q].length
  BY <1>1 DEF SequenceRecord
<1>3. PICK e \in {0, 1} : e = IF q \in S THEN 1 ELSE 0
  OBVIOUS
<1>4. z.seqs[q] = [slot |-> slot, table |-> t, length |-> n + e]
  BY <1>2, <1>3 DEF Landed
<1>5. z.seqs[q].slot = slot /\ z.seqs[q].table = t /\ z.seqs[q].length = n + e
  BY <1>4
<1>6. /\ st.seqs[q].slot = slot /\ st.seqs[q].length = n
      /\ Len(t) = PagesFor(n + e)
      /\ \A p \in Nat : Block(p) < Len(t) =>
           st.cells[t[Block(p) + 1]][Offset(p)] = IF p < n THEN q ELSE 0
  <2>1. PICK k : k = st.seqs[q].length
    OBVIOUS
  <2>2. /\ x.seqs[q].slot = st.seqs[q].slot /\ x.seqs[q].length = k
        /\ Len(t) = PagesFor(k + (IF q \in S THEN 1 ELSE 0))
        /\ \A p \in Nat : Block(p) < Len(t) =>
             st.cells[t[Block(p) + 1]][Offset(p)] = IF p < k THEN q ELSE 0
    BY <1>1, <1>2, <2>1, GrownWhole DEF Ready
  <2> QED BY <1>2, <1>3, <2>1, <2>2
<1>7. x.cells = st.cells /\ x.slots = st.slots
  BY DEF Ready, Grown
<1>8. z.slots[slot] = [i \in 1..n + e |-> q]
  <2>1. st.slots[slot] = [i \in 1..n |-> q]
    BY <1>1, <1>6 DEF Ready, Sane, Whole
  <2>2. PICK folders : folders = {id \in S : x.seqs[id].slot = slot}
    OBVIOUS
  <2>3. folders = IF q \in S THEN {q} ELSE {}
    BY <1>2, <2>2, FolderOf
  <2>4. /\ e = 1 => SetToSeq(folders) = <<q>>
        /\ e = 0 => SetToSeq(folders) = <<>>
    <3>1. e = 1 => folders = {q}
      BY <1>3, <2>3
    <3>2. e = 0 => folders = {}
      BY <1>3, <2>3
    <3> QED BY <3>1, <3>2, SetToSeqFew
  <2>5. z.slots[slot] = st.slots[slot] \o SetToSeq(folders)
    BY <1>7, <2>2 DEF Landed
  <2>6. q \in {q}
    OBVIOUS
  <2>7. /\ [i \in 1..n |-> q] \o <<>> = [i \in 1..n |-> q]
        /\ [i \in 1..n |-> q] \o <<q>> = [i \in 1..n + 1 |-> q]
    BY <2>6, OneMore
  <2>8. CASE e = 0
    BY <2>1, <2>4, <2>5, <2>7, <2>8
  <2>9. CASE e = 1
    BY <2>1, <2>4, <2>5, <2>7, <2>9
  <2> QED BY <2>8, <2>9
<1>9. ASSUME NEW p \in Nat, Block(p) < Len(t)
      PROVE  z.cells[t[Block(p) + 1]][Offset(p)] = IF p < n + e THEN q ELSE 0
  <2>1. PICK b \in Nat, o \in Offsets :
          b = Block(p) /\ o = Offset(p) /\ p = b * PageTokens + o
    BY PositionFacts
  <2>2. PICK w \in Pages : w = t[b + 1] /\ w \in HeldBy(x, q)
    <3>1. b + 1 \in 1..Len(t)
      BY <1>2, <1>9, <2>1, LenProperties
    <3>2. b + 1 \in DOMAIN t /\ t[b + 1] \in Pages
      BY <3>1, <1>2, LenProperties, ElementOfSeq
    <3> QED BY <1>2, <3>2 DEF HeldBy, Range
  <2>3. Author(x, S, w, o) =
          IF q \in S /\ w = t[Block(n) + 1] /\ o = Offset(n) THEN {q} ELSE {}
    <3>1. w \in HeldBy(x, q) /\ t = x.seqs[q].table /\ n = x.seqs[q].length
      BY <1>2, <2>2
    <3> QED BY <3>1, AuthorHeld
  <2>4. z.cells[w][o] = Cell(x, S, w, o)
    BY <2>1, <2>2 DEF Landed
  <2>5. z.cells[t[Block(p) + 1]][Offset(p)] = Cell(x, S, w, o)
    BY <2>1, <2>2, <2>4
  <2>6. st.cells[w][o] = IF p < n THEN q ELSE 0
    BY <1>6, <1>9, <2>1, <2>2
  <2>7. CASE q \in S /\ p = n
    <3>1. Author(x, S, w, o) = {q}
      BY <2>1, <2>2, <2>3, <2>7
    <3>2. (CHOOSE id \in {q} : TRUE) = q /\ {q} # {}
      OBVIOUS
    <3>3. Cell(x, S, w, o) = q
      BY <3>1, <3>2 DEF Cell
    <3>4. p < n + e
      BY <1>3, <2>7
    <3> QED BY <2>5, <3>3, <3>4
  <2>8. CASE ~(q \in S /\ p = n)
    <3>1. Author(x, S, w, o) = {}
      <4> SUFFICES ASSUME q \in S, w = t[Block(n) + 1], o = Offset(n)
                   PROVE  FALSE
        BY <2>3
      <4>1. Block(n) + 1 \in DOMAIN t
        BY <1>2, TargetFacts
      <4>2. b + 1 \in DOMAIN t
        BY <1>2, <1>9, <2>1, LenProperties
      <4>3. IsInjective(t)
        BY <1>2 DEF Ready, Grown, Held
      <4>4. b + 1 = Block(n) + 1 /\ Block(n) \in Nat
        BY <2>2, <4>1, <4>2, <4>3, PositionFacts DEF IsInjective
      <4>5. n = Block(n) * PageTokens + Offset(n)
        BY PositionFacts
      <4>6. b = Block(n)
        BY <4>4
      <4> QED BY <2>1, <2>8, <4>5, <4>6
    <3>2. Cell(x, S, w, o) = IF p < n THEN q ELSE 0
      BY <1>7, <2>6, <3>1 DEF Cell
    <3>3. p < n + e <=> p < n
      BY <1>3, <2>8
    <3> QED BY <2>5, <3>2, <3>3
  <2> QED BY <2>7, <2>8
<1> QED BY <1>5, <1>6, <1>8, <1>9 DEF Whole

(* The rows leave a store that is as it should be.                         *)
LEMMA LandedSane ==
  ASSUME NEW st, NEW x, NEW rows, NEW S, Ready(st, x, rows, S),
         NEW z, Landed(x, S, z)
  PROVE  Sane(z)
PROOF
<1>1. DOMAIN z.seqs = DOMAIN x.seqs /\ DOMAIN x.seqs = DOMAIN st.seqs
      /\ DOMAIN x.seqs \subseteq Ids
  BY DEF Landed, Ready, Grown, Sane
<1>2. ASSUME NEW q \in DOMAIN x.seqs
      PROVE  /\ z.seqs[q] \in SequenceRecord
             /\ z.seqs[q].table = x.seqs[q].table
             /\ z.seqs[q].slot = st.seqs[q].slot
  <2>1. x.seqs[q] \in SequenceRecord /\ q \in DOMAIN st.seqs
    BY <1>1 DEF Ready, Grown, Held
  <2>2. PICK slot \in Slots, t \in Seq(Pages), n \in 0..MaxSeqLen :
          slot = x.seqs[q].slot /\ t = x.seqs[q].table /\ n = x.seqs[q].length
    BY <2>1 DEF SequenceRecord
  <2>3. PICK m : m = n + (IF q \in S THEN 1 ELSE 0)
    OBVIOUS
  <2>4. m \in 0..MaxSeqLen
    <3>1. q \in S => n < MaxSeqLen
      BY <2>2, TargetFacts
    <3> QED BY <2>2, <2>3, <3>1
  <2>5. z.seqs[q] = [slot |-> slot, table |-> t, length |-> m]
    BY <2>2, <2>3 DEF Landed
  <2>6. st.seqs[q].slot = slot
    <3>1. PICK k : k = st.seqs[q].length
      OBVIOUS
    <3>2. x.seqs[q].slot = st.seqs[q].slot
      BY <2>1, <2>2, <3>1, GrownWhole DEF Ready
    <3> QED BY <2>2, <3>2
  <2>7. z.seqs[q].slot = slot /\ z.seqs[q].table = t
    BY <2>5
  <2>8. [slot |-> slot, table |-> t, length |-> m] \in SequenceRecord
    BY <2>2, <2>4 DEF SequenceRecord
  <2> QED BY <2>2, <2>5, <2>6, <2>7, <2>8
<1>3. \A q \in DOMAIN x.seqs : HeldBy(z, q) = HeldBy(x, q)
  BY <1>2 DEF HeldBy
<1>4. Held(z)
  <2>1. Held(x) /\ z.kv = x.kv
    BY DEF Ready, Grown, Landed
  <2>2. z.seqs = [q \in DOMAIN x.seqs |-> z.seqs[q]]
    BY DEF Landed
  <2>3. z.seqs \in [DOMAIN z.seqs -> SequenceRecord]
    BY <1>1, <1>2, <2>2
  <2>4. \A q \in DOMAIN z.seqs : IsInjective(z.seqs[q].table)
    BY <1>1, <1>2, <2>1 DEF Held
  <2>5. \A q, r \in DOMAIN z.seqs :
          q # r => HeldBy(z, q) \cap HeldBy(z, r) = {}
    BY <1>1, <1>3, <2>1 DEF Held
  <2>6. z.kv.live = UNION {HeldBy(z, q) : q \in DOMAIN z.seqs}
    BY <1>1, <1>3, <2>1 DEF Held
  <2>7. z.kv \in Pool(KvPages) /\ Partitioned(z.kv, KvPages)
    BY <2>1 DEF Held
  <2> QED BY <2>3, <2>4, <2>5, <2>6, <2>7 DEF Held
<1>5. Apart(z)
  BY <1>1, <1>2 DEF Apart, Ready, Sane
<1>6. x.cells = st.cells /\ x.slots = st.slots
  BY DEF Ready, Grown
<1>7. \A id \in S : id \in DOMAIN x.seqs /\ id \in Ids
  <2> SUFFICES ASSUME NEW id \in S PROVE id \in DOMAIN x.seqs
    BY <1>1
  <2>1. PICK t, n : t = x.seqs[id].table /\ n = x.seqs[id].length
    OBVIOUS
  <2> QED BY <2>1, TargetFacts
<1>8. FreeZero(z)
  <2> SUFFICES ASSUME NEW p \in Pages, p \notin z.kv.live
               PROVE  z.cells[p] = ZeroPage
    BY DEF FreeZero
  <2>1. p \notin x.kv.live /\ p \notin st.kv.live
    BY DEF Landed, Ready, Grown
  <2>2. st.cells[p] = ZeroPage
    BY <2>1 DEF Ready, Sane, FreeZero
  <2>3. \A o \in Offsets : Cell(x, S, p, o) = 0
    <3> TAKE o \in Offsets
    <3>1. Author(x, S, p, o) = {}
      BY <2>1, AuthorFree
    <3> QED BY <1>6, <2>2, <3>1 DEF Cell, ZeroPage
  <2>4. z.cells[p] = [o \in Offsets |-> Cell(x, S, p, o)]
    BY DEF Landed
  <2> QED BY <2>3, <2>4 DEF ZeroPage
<1>9. z.cells \in [Pages -> [Offsets -> Ids \cup {0}]]
  <2>1. ASSUME NEW p \in Pages, NEW o \in Offsets
        PROVE  Cell(x, S, p, o) \in Ids \cup {0}
    <3>1. CASE Author(x, S, p, o) # {}
      <4>1. PICK A : A = Author(x, S, p, o)
        OBVIOUS
      <4>2. A # {} /\ \A id \in A : id \in Ids
        BY <1>7, <3>1, <4>1 DEF Author
      <4>3. Cell(x, S, p, o) = CHOOSE id \in A : TRUE
        BY <3>1, <4>1 DEF Cell
      <4> QED BY <4>2, <4>3
    <3>2. CASE Author(x, S, p, o) = {}
      <4>1. st.cells[p][o] \in Ids \cup {0}
        BY DEF Ready, Sane
      <4> QED BY <1>6, <3>2, <4>1 DEF Cell
    <3> QED BY <3>1, <3>2
  <2>2. z.cells = [p \in Pages |-> [o \in Offsets |-> Cell(x, S, p, o)]]
    BY DEF Landed
  <2> QED BY <2>1, <2>2
<1>10. z.slots \in [Slots -> Seq(Ids)]
  <2>1. ASSUME NEW s \in Slots
        PROVE  st.slots[s] \o SetToSeq({id \in S : x.seqs[id].slot = s})
                 \in Seq(Ids)
    <3>1. PICK F : F = {id \in S : x.seqs[id].slot = s}
      OBVIOUS
    <3>2. PICK a \in Seq(Ids) : a = SetToSeq(F)
      <4>1. CASE F = {}
        <5>1. <<>> \in Seq(Ids)
          OBVIOUS
        <5> QED BY <4>1, <5>1, SetToSeqFew
      <4>2. CASE F # {}
        <5>1. PICK q \in F : q \in S /\ x.seqs[q].slot = s
          BY <3>1, <4>2
        <5>2. q \in DOMAIN x.seqs /\ q \in Ids
          BY <1>7, <5>1
        <5>3. F = {q}
          BY <3>1, <5>1, <5>2, FolderOf
        <5>4. SetToSeq(F) = <<q>>
          BY <5>3, SetToSeqFew
        <5>5. <<q>> \in Seq(Ids)
          BY <5>2
        <5> QED BY <5>4, <5>5
      <4> QED BY <4>1, <4>2
    <3>3. st.slots[s] \in Seq(Ids)
      BY DEF Ready, Sane
    <3>4. st.slots[s] \o a \in Seq(Ids)
      BY <3>2, <3>3, ConcatProperties
    <3> QED BY <3>1, <3>2, <3>4
  <2>2. z.slots = [s \in Slots |-> st.slots[s] \o
                     SetToSeq({id \in S : x.seqs[id].slot = s})]
    BY <1>6 DEF Landed
  <2> QED BY <2>1, <2>2
<1>11. \A q \in DOMAIN z.seqs : Whole(z, q)
  BY <1>1, LandedWhole
<1>12. IsStore(z) /\ DOMAIN z.seqs \subseteq Ids
  BY <1>1 DEF Landed
<1> QED BY <1>4, <1>5, <1>8, <1>9, <1>10, <1>11, <1>12 DEF Sane

(* One token of each row: the forward as a whole.                          *)
LEMMA ForwardedFacts ==
  ASSUME NEW st, Sane(st), NEW rows, Admissible(st, rows),
         NEW S, S = ToSet(rows), NEW z, z = Forwarded(st, rows)
  PROVE  /\ Sane(z)
         /\ DOMAIN z.seqs = DOMAIN st.seqs /\ S \subseteq DOMAIN st.seqs
         /\ \A q \in DOMAIN st.seqs :
              /\ z.seqs[q].slot = st.seqs[q].slot
              /\ z.seqs[q].length
                   = st.seqs[q].length + (IF q \in S THEN 1 ELSE 0)
         /\ \A s \in Slots :
              (\A q \in DOMAIN st.seqs : st.seqs[q].slot # s)
                => z.slots[s] = st.slots[s]
PROOF
<1>1. PICK x : x = FoldLeft(Ensured, st, rows)
  OBVIOUS
<1>2. Grown(st, x, rows, DOMAIN rows)
  BY <1>1, FoldGrown
<1>3. Ready(st, x, rows, S)
  BY <1>2 DEF Ready
<1>4. IsStore(x) /\ Held(x) /\ DOMAIN x.seqs = DOMAIN st.seqs
  BY <1>2 DEF Grown
<1>5. Landed(x, S, z)
  BY <1>1, <1>4, ForwardedLands
<1>6. Sane(z)
  BY <1>3, <1>5, LandedSane
<1>7. DOMAIN z.seqs = DOMAIN st.seqs
  BY <1>4, <1>5 DEF Landed
<1>8. ASSUME NEW q \in DOMAIN st.seqs
      PROVE  /\ z.seqs[q].slot = st.seqs[q].slot
             /\ z.seqs[q].length
                  = st.seqs[q].length + (IF q \in S THEN 1 ELSE 0)
  <2>1. PICK n, t : n = st.seqs[q].length /\ t = x.seqs[q].table
    OBVIOUS
  <2>2. x.seqs[q].slot = st.seqs[q].slot /\ x.seqs[q].length = n
    BY <1>2, <2>1, GrownWhole
  <2>3. PICK slot, m : /\ slot = x.seqs[q].slot
                       /\ m = n + (IF q \in S THEN 1 ELSE 0)
    OBVIOUS
  <2>4. q \in DOMAIN x.seqs
    BY <1>4
  <2>5. z.seqs[q] = [slot |-> slot, table |-> t, length |-> m]
    BY <1>5, <2>1, <2>2, <2>3, <2>4 DEF Landed
  <2>6. z.seqs[q].slot = slot /\ z.seqs[q].length = m
    BY <2>5
  <2> QED BY <2>1, <2>2, <2>3, <2>6
<1>9. S \subseteq DOMAIN st.seqs
  BY DEF Admissible, ToSet
<1>10. ASSUME NEW s \in Slots, \A q \in DOMAIN st.seqs : st.seqs[q].slot # s
       PROVE  z.slots[s] = st.slots[s]
  <2>1. \A q \in DOMAIN st.seqs : x.seqs[q].slot = st.seqs[q].slot
    <3> TAKE q \in DOMAIN st.seqs
    <3>1. PICK n, t : n = st.seqs[q].length /\ t = x.seqs[q].table
      OBVIOUS
    <3> QED BY <1>2, <3>1, GrownWhole
  <2>2. {id \in S : x.seqs[id].slot = s} = {}
    BY <1>9, <1>10, <2>1
  <2>3. z.slots[s] = x.slots[s] \o SetToSeq({})
    BY <1>5, <2>2 DEF Landed
  <2>4. x.slots[s] = st.slots[s] /\ st.slots[s] \in Seq(Ids)
    BY <1>2 DEF Grown, Sane
  <2>5. z.slots[s] = st.slots[s] \o <<>>
    BY <2>3, <2>4, SetToSeqFew
  <2> QED BY <2>4, <2>5, ConcatEmptySeq
<1> QED BY <1>6, <1>7, <1>8, <1>9, <1>10

-----------------------------------------------------------------------------
(* The state.  Every sequence is whole: its slot and its pages hold its    *)
(* own tokens, all of them and nothing else.                               *)
Faithful == \A q \in Live : Whole(Store, q)

Inv == Ownership /\ Isolation /\ Faithful

(* What there is of the state beside the store.                            *)
Backed ==
  /\ delta \in Pool(DeltaSlots) /\ Partitioned(delta, DeltaSlots)
  /\ delta.live = {sequences[q].slot : q \in Live}
  /\ Live \subseteq 1..next_id - 1 /\ next_id \in 1..MaxId + 1
  /\ \A s \in Slots \ delta.live : deltaData[s] = <<>>

(* The invariant is that of the store together with what backs it,         *)
LEMMA InvIsSane == Inv => Sane(Store) /\ Backed
PROOF
<1> SUFFICES ASSUME Inv PROVE Sane(Store) /\ Backed
  OBVIOUS
<1>1. /\ Store.kv = kv /\ Store.seqs = sequences
      /\ Store.cells = kvData /\ Store.slots = deltaData /\ IsStore(Store)
  BY DEF Store, IsStore
<1>2. TypeOK /\ PoolsExact /\ NoAliasing /\ NoLeak /\ Isolation /\ Faithful
  BY DEF Inv, Ownership
<1>3. Held(Store)
  <2>1. Store.kv \in Pool(KvPages) /\ Partitioned(Store.kv, KvPages)
    BY <1>1, <1>2, PagesAre DEF TypeOK, PoolsExact
  <2>2. Store.seqs \in [DOMAIN Store.seqs -> SequenceRecord]
    BY <1>1, <1>2 DEF TypeOK, Live
  <2>3. \A q \in DOMAIN Store.seqs : HeldBy(Store, q) = Range(sequences[q].table)
    BY <1>1 DEF HeldBy
  <2>4. /\ \A q \in DOMAIN Store.seqs : IsInjective(Store.seqs[q].table)
        /\ \A q, r \in DOMAIN Store.seqs :
             q # r => HeldBy(Store, q) \cap HeldBy(Store, r) = {}
    BY <1>1, <1>2, <2>3 DEF NoAliasing, Live
  <2>5. Store.kv.live = UNION {HeldBy(Store, q) : q \in DOMAIN Store.seqs}
    BY <1>1, <1>2, <2>3 DEF NoLeak, Live
  <2> QED BY <2>1, <2>2, <2>4, <2>5 DEF Held
<1>4. Apart(Store) /\ FreeZero(Store)
  BY <1>1, <1>2 DEF Apart, FreeZero, NoAliasing, Isolation, Live
<1>5. /\ DOMAIN Store.seqs \subseteq Ids
      /\ Store.cells \in [Pages -> [Offsets -> Ids \cup {0}]]
      /\ Store.slots \in [Slots -> Seq(Ids)]
  BY <1>1, <1>2 DEF TypeOK, Ids, Live
<1>6. \A q \in DOMAIN Store.seqs : Whole(Store, q)
  BY <1>1, <1>2 DEF Faithful, Live
<1>7. Backed
  BY <1>2, SlotsAre DEF Backed, TypeOK, PoolsExact, NoLeak, Isolation
<1> QED BY <1>1, <1>3, <1>4, <1>5, <1>6, <1>7 DEF Sane

(* and conversely: that the contents are the sequences' own, whole, is     *)
(* also that nothing of anybody else shows.                                *)
LEMMA SaneIsInv == Sane(Store) /\ Backed => Inv
PROOF
<1> SUFFICES ASSUME Sane(Store), Backed PROVE Inv
  OBVIOUS
<1>1. /\ Store.kv = kv /\ Store.seqs = sequences
      /\ Store.cells = kvData /\ Store.slots = deltaData
  BY DEF Store
<1>2. Held(Store) /\ Apart(Store) /\ FreeZero(Store) /\ Faithful
  BY <1>1 DEF Sane, Faithful, Live
<1>3. TypeOK
  BY <1>1, <1>2, PagesAre, SlotsAre DEF TypeOK, Held, Sane, Backed, Live
<1>4. PoolsExact
  BY <1>1, <1>2 DEF PoolsExact, Held, Backed
<1>5. NoAliasing
  BY <1>1, <1>2 DEF NoAliasing, Held, Apart, HeldBy, Live
<1>6. NoLeak
  BY <1>1, <1>2 DEF NoLeak, Held, Backed, HeldBy, Live
<1>7. ASSUME NEW q \in Live, NEW p \in Range(sequences[q].table)
      PROVE  Range(kvData[p]) \subseteq {0, q}
  <2>1. PICK t \in Seq(Pages) : t = sequences[q].table
    BY <1>3, RecordFacts
  <2>2. PICK i \in 1..Len(t) : p = t[i] /\ p \in Pages
    BY <1>7, <2>1, LenProperties, ElementOfSeq DEF Range
  <2>3. PICK b \in Nat : i = b + 1 /\ b < Len(t)
    <3>1. Len(t) \in Nat
      BY <2>1, LenProperties
    <3>2. i - 1 \in Nat /\ i = (i - 1) + 1 /\ i - 1 < Len(t)
      BY <2>2, <3>1
    <3> QED BY <3>2
  <2>4. ASSUME NEW o \in Offsets PROVE kvData[p][o] \in {0, q}
    <3>1. PICK z \in Nat : z = b * PageTokens + o
      <4>1. o \in Nat /\ b * PageTokens \in Nat
        BY DEF Offsets
      <4> QED BY <4>1
    <3>2. Block(z) = b /\ Offset(z) = o
      BY <3>1, PositionOf
    <3>3. kvData[t[Block(z) + 1]][Offset(z)]
            = IF z < sequences[q].length THEN q ELSE 0
      BY <1>1, <1>2, <2>1, <2>3, <3>2 DEF Faithful, Whole
    <3> QED BY <2>2, <2>3, <3>2, <3>3
  <2>5. DOMAIN kvData[p] = Offsets
    BY <1>3, <2>2 DEF TypeOK
  <2> QED BY <2>4, <2>5 DEF Range
<1>8. ASSUME NEW q \in Live
      PROVE  Range(deltaData[sequences[q].slot]) \subseteq {q}
  <2>1. deltaData[sequences[q].slot] = [i \in 1..sequences[q].length |-> q]
    BY <1>1, <1>2 DEF Faithful, Whole
  <2> QED BY <2>1 DEF Range
<1>9. Isolation
  <2>1. \A p \in Pages \ kv.live : kvData[p] = ZeroPage
    BY <1>1, <1>2 DEF FreeZero
  <2>2. \A s \in Slots \ delta.live : deltaData[s] = <<>>
    BY DEF Backed
  <2> QED BY <1>7, <1>8, <2>1, <2>2 DEF Isolation
<1> QED BY <1>2, <1>3, <1>4, <1>5, <1>6, <1>9 DEF Inv, Ownership

(* The same of the next state.                                             *)
LEMMA SaneIsInvNext == Sane(Store)' /\ Backed' => Inv'
  BY SaneIsInv, PTL

(* Nothing lives at first.                                                 *)
LEMMA InitInv == Init => Inv
PROOF
<1> SUFFICES ASSUME Init PROVE Inv
  OBVIOUS
<1>1. Ownership
  BY InitOwnership
<1>2. Isolation /\ Faithful
  BY DEF Init, Isolation, Faithful, Live
<1> QED BY <1>1, <1>2 DEF Inv

(* A forward of rows that pass the preflight keeps the invariant, and      *)
(* changes of the lengths only those of the rows.                          *)
LEMMA ForwardInv ==
  ASSUME Inv, NEW rows, Admissible(Store, rows), Becomes(Forwarded(Store, rows))
  PROVE  /\ Inv'
         /\ Live' = Live /\ ToSet(rows) \subseteq Live
         /\ \A q \in Live :
              sequences'[q].length
                = sequences[q].length + (IF q \in ToSet(rows) THEN 1 ELSE 0)
         /\ next_id' = next_id
PROOF
<1>1. Sane(Store) /\ Backed
  BY InvIsSane
<1>2. PICK st, S : st = Store /\ S = ToSet(rows)
  OBVIOUS
<1>3. /\ st.kv = kv /\ st.seqs = sequences
      /\ st.cells = kvData /\ st.slots = deltaData
  BY <1>2 DEF Store
<1>4. PICK z : z = Forwarded(st, rows)
  OBVIOUS
<1>5. /\ Sane(z)
      /\ DOMAIN z.seqs = DOMAIN st.seqs /\ S \subseteq DOMAIN st.seqs
      /\ \A q \in DOMAIN st.seqs :
           /\ z.seqs[q].slot = st.seqs[q].slot
           /\ z.seqs[q].length
                = st.seqs[q].length + (IF q \in S THEN 1 ELSE 0)
      /\ \A s \in Slots :
           (\A q \in DOMAIN st.seqs : st.seqs[q].slot # s)
             => z.slots[s] = st.slots[s]
  BY <1>1, <1>2, <1>4, ForwardedFacts
<1>6. /\ kv' = z.kv /\ sequences' = z.seqs /\ kvData' = z.cells
      /\ deltaData' = z.slots /\ delta' = delta /\ next_id' = next_id
  BY <1>2, <1>4 DEF Becomes
<1>7. Store' = z
  BY <1>5, <1>6 DEF Store, Sane, IsStore
<1>8. Sane(Store)'
  BY <1>5, <1>7
<1>9. Live' = Live
  BY <1>3, <1>5, <1>6 DEF Live
<1>10. Backed'
  <2>1. delta.live = {sequences'[q].slot : q \in Live}
    BY <1>1, <1>3, <1>5, <1>6 DEF Backed, Live
  <2>2. ASSUME NEW s \in Slots \ delta.live PROVE deltaData'[s] = <<>>
    <3>1. \A q \in DOMAIN st.seqs : st.seqs[q].slot # s
      BY <1>1, <1>3 DEF Backed, Live
    <3>2. z.slots[s] = st.slots[s]
      BY <1>5, <3>1
    <3> QED BY <1>1, <1>3, <1>6, <3>2 DEF Backed
  <2> QED BY <1>1, <1>6, <1>9, <2>1, <2>2 DEF Backed, Slots
<1>11. Inv'
  BY <1>8, <1>10, SaneIsInvNext
<1> QED BY <1>2, <1>3, <1>5, <1>6, <1>9, <1>11 DEF Live

(* What nothing was done to stays whole,                                   *)
LEMMA StaysWhole ==
  ASSUME Inv, NEW q \in Live, sequences'[q] = sequences[q],
         \A p \in Holds(q) : kvData'[p] = kvData[p],
         deltaData'[sequences[q].slot] = deltaData[sequences[q].slot]
  PROVE  Whole(Store', q)
PROOF
<1>1. PICK t \in Seq(Pages), n \in 0..MaxSeqLen : t = sequences[q].table /\ n = sequences[q].length
  BY RecordFacts DEF Inv, Ownership
<1>2. /\ deltaData[sequences[q].slot] = [i \in 1..n |-> q]
      /\ Len(t) = PagesFor(n)
      /\ \A p \in Nat : Block(p) < Len(t) =>
           kvData[t[Block(p) + 1]][Offset(p)] = IF p < n THEN q ELSE 0
  BY <1>1 DEF Inv, Faithful, Whole, Store
<1>3. ASSUME NEW p \in Nat, Block(p) < Len(t)
      PROVE  kvData'[t[Block(p) + 1]][Offset(p)] = IF p < n THEN q ELSE 0
  <2>1. Block(p) + 1 \in DOMAIN t
    BY <1>1, <1>3, LenProperties, PositionFacts
  <2>2. t[Block(p) + 1] \in Holds(q)
    BY <1>1, <2>1 DEF Holds, Range
  <2> QED BY <1>2, <1>3, <2>2
<1> QED BY <1>1, <1>2, <1>3 DEF Whole, Store

(* and so is what has no token yet.                                        *)
LEMMA FreshWhole ==
  ASSUME NEW q, NEW s, sequences'[q] = Fresh(s), deltaData'[s] = <<>>
  PROVE  Whole(Store', q)
PROOF
<1>1. sequences'[q].slot = s /\ sequences'[q].table = <<>>
      /\ sequences'[q].length = 0
  BY DEF Fresh
<1>2. [i \in 1..0 |-> q] = <<>>
  OBVIOUS
<1>3. Len(<<>>) = 0 /\ PagesFor(0) = 0
  <2>1. 0 \in Nat /\ Block(0) = 0 /\ NewBlock(0) = 1
    BY DEF Block, NewBlock
  <2>2. PagesFor(0) = Block(0) + 1 - NewBlock(0)
    BY <2>1, PagesForFacts
  <2> QED BY <2>1, <2>2
<1>4. \A p \in Nat : ~(Block(p) < 0)
  BY PositionFacts
<1> QED BY <1>1, <1>2, <1>3, <1>4 DEF Whole, Store

(* A new sequence is whole: its slot was free, hence empty.                *)
LEMMA CreateInv ==
  ASSUME Inv, CreateSequence
  PROVE  Inv'
PROOF
<1>1. Ownership' /\ Isolation'
  BY CreateOwnership, CreateIsolation DEF Inv
<1>2. PICK new : new = next_id /\ new \notin Live
  BY DEF Inv, Ownership, TypeOK
<1>3. PICK s : s = Acquired(delta, 1)[1]
  OBVIOUS
<1>4. /\ Live' = Live \cup {new} /\ sequences'[new] = Fresh(s)
      /\ \A q \in Live : sequences'[q] = sequences[q]
      /\ UNCHANGED <<kv, kvData, deltaData>>
  BY <1>2, <1>3 DEF CreateSequence, Live, contents
<1>5. Whole(Store', new)
  <2>1. delta \in Pool(DeltaSlots) /\ Partitioned(delta, DeltaSlots)
        /\ CanAcquire(delta, 1)
    BY SlotsAre DEF Inv, Ownership, TypeOK, PoolsExact, CreateSequence
  <2>2. \A n \in Nat : CanAcquire(delta, n) =>
          /\ Acquired(delta, n) \in Seq(0..DeltaSlots - 1)
          /\ Len(Acquired(delta, n)) = n
          /\ Range(Acquired(delta, n)) \cap delta.live = {}
    BY <2>1, AcquireFacts
  <2>3. PICK a : a = Acquired(delta, 1)
    OBVIOUS
  <2>4. a \in Seq(Slots) /\ Len(a) = 1 /\ Range(a) \cap delta.live = {}
    BY <2>1, <2>2, <2>3 DEF Slots
  <2>5. s \in Slots /\ s \notin delta.live
    <3>1. DOMAIN a = 1..1 /\ a[1] \in Slots
      <4>1. a \in Seq(Slots) /\ 1 \in 1..Len(a)
        BY <2>4
      <4>2. DOMAIN a = 1..Len(a) /\ a[1] \in Slots
        BY <4>1, LenProperties, ElementOfSeq
      <4> QED BY <2>4, <4>2
    <3> QED BY <1>3, <2>3, <2>4, <3>1 DEF Range
  <2>6. deltaData'[s] = <<>>
    BY <1>4, <2>5 DEF Inv, Isolation
  <2> QED BY <1>4, <2>6, FreshWhole
<1>6. \A q \in Live : Whole(Store', q)
  BY <1>4, StaysWhole
<1>7. Faithful'
  BY <1>4, <1>5, <1>6 DEF Faithful
<1> QED BY <1>1, <1>7 DEF Inv

(* Clearing one table leaves the pages of the others alone.                *)
LEMMA ClearsOwn ==
  ASSUME Inv, NEW id \in Live, ClearTable(id), NEW q \in Live, q # id
  PROVE  /\ \A p \in Holds(q) : kvData'[p] = kvData[p]
         /\ sequences[q].slot # sequences[id].slot
PROOF
<1>1. TypeOK /\ NoAliasing
  BY DEF Inv, Ownership
<1>2. ASSUME NEW p \in Holds(q) PROVE kvData'[p] = kvData[p]
  <2>1. p \in Pages /\ p \notin Range(sequences[id].table)
    BY <1>1, RecordFacts DEF NoAliasing, Holds
  <2> QED BY <2>1 DEF ClearTable, ZeroedPages
<1> QED BY <1>1, <1>2 DEF NoAliasing

(* reset_sequence leaves its sequence whole, without a token.              *)
LEMMA ResetInv ==
  ASSUME Inv, NEW id \in Live, ResetSequence(id)
  PROVE  Inv'
PROOF
<1>1. Ownership' /\ Isolation' /\ TypeOK
  BY ResetOwnership, ResetIsolation DEF Inv, Ownership
<1>2. PICK s \in Slots : s = sequences[id].slot
  BY <1>1, RecordFacts
<1>3. sequences' = [sequences EXCEPT ![id] = Fresh(s)]
      /\ deltaData' = [deltaData EXCEPT ![s] = <<>>] /\ ClearTable(id)
  BY <1>2 DEF ResetSequence
<1>4. /\ Live' = Live /\ sequences'[id] = Fresh(s)
      /\ \A q \in Live : q # id => sequences'[q] = sequences[q]
      /\ \A x \in Slots : deltaData'[x] = IF x = s THEN <<>> ELSE deltaData[x]
  BY <1>1, <1>3 DEF TypeOK, Live
<1>5. ASSUME NEW q \in Live PROVE Whole(Store', q)
  <2>1. CASE q = id
    BY <1>4, <2>1, FreshWhole
  <2>2. CASE q # id
    <3>1. /\ \A p \in Holds(q) : kvData'[p] = kvData[p]
          /\ sequences[q].slot # s /\ sequences[q].slot \in Slots
      BY <1>1, <1>2, <1>3, <2>2, ClearsOwn, RecordFacts
    <3> QED BY <1>4, <2>2, <3>1, StaysWhole
  <2> QED BY <2>1, <2>2
<1>6. Faithful'
  BY <1>4, <1>5 DEF Faithful
<1> QED BY <1>1, <1>6 DEF Inv

(* retire_sequence touches nothing of the sequences that stay.             *)
LEMMA RetireInv ==
  ASSUME Inv, NEW id \in Live, RetireSequence(id)
  PROVE  Inv'
PROOF
<1>1. Ownership' /\ Isolation' /\ TypeOK
  BY RetireOwnership, RetireIsolation DEF Inv, Ownership
<1>2. PICK s \in Slots : s = sequences[id].slot
  BY <1>1, RecordFacts
<1>3. deltaData' = [deltaData EXCEPT ![s] = <<>>] /\ ClearTable(id)
  BY <1>2 DEF RetireSequence
<1>4. /\ Live' = Live \ {id} /\ \A q \in Live' : sequences'[q] = sequences[q]
      /\ \A x \in Slots : deltaData'[x] = IF x = s THEN <<>> ELSE deltaData[x]
  BY <1>1, <1>3 DEF RetireSequence, Restrict, Live, TypeOK
<1>5. ASSUME NEW q \in Live' PROVE Whole(Store', q)
  <2>1. q \in Live /\ q # id
    BY <1>4
  <2>2. /\ \A p \in Holds(q) : kvData'[p] = kvData[p]
        /\ sequences[q].slot # s /\ sequences[q].slot \in Slots
    BY <1>1, <1>2, <1>3, <2>1, ClearsOwn, RecordFacts
  <2> QED BY <1>4, <2>1, <2>2, StaysWhole
<1>6. Faithful'
  BY <1>5 DEF Faithful
<1> QED BY <1>1, <1>6 DEF Inv

(* The rollback zeroes only pages that were free.                          *)
LEMMA RollBackInv ==
  ASSUME Inv, NEW id \in Live, NEW position, RollBack(id, position),
         UNCHANGED <<delta, next_id, deltaData>>
  PROVE  Inv'
PROOF
<1>1. /\ kv' = kv /\ sequences' = sequences /\ Isolation'
      /\ TypeOK /\ PoolsExact /\ NoLeak
  BY RollBackRestores, RollBackIsolation DEF Inv, Ownership
<1>2. PICK n, a, undone :
        n = Len(kv.free) /\ a = Acquired(kv, n) /\ undone = Reverse(a)
  OBVIOUS
<1>3. kvData' = ZeroedPages(undone)
  BY <1>2 DEF RollBack
<1>4. Ownership'
  <2>1. kvData' \in [Pages -> [Offsets -> Ids \cup {0}]]
    BY <1>1, <1>3, ZeroedType
  <2> QED BY <1>1, <2>1, SameHoldings DEF Inv, Ownership, TypeOK
<1>5. Range(undone) \cap kv.live = {}
  <2>1. kv \in Pool(KvPages) /\ Partitioned(kv, KvPages) /\ KvPages \in Nat
    BY <1>1, PagesAre DEF TypeOK, PoolsExact
  <2>2. n \in Nat /\ CanAcquire(kv, n)
    BY <1>2, <2>1 DEF Pool, CanAcquire
  <2>3. a \in Seq(Pages) /\ Range(a) \cap kv.live = {}
    BY <1>2, <2>1, <2>2, AcquireFacts DEF Pages
  <2>4. \A p \in Range(undone) : p \in Range(a)
    <3>1. DOMAIN a = 1..Len(a) /\ Len(a) \in Nat
      BY <2>3, LenProperties
    <3>2. undone = [i \in 1..Len(a) |-> a[(Len(a) - i) + 1]]
      BY <1>2 DEF Reverse
    <3>3. \A i \in 1..Len(a) : (Len(a) - i) + 1 \in DOMAIN a
      BY <3>1
    <3> QED BY <3>2, <3>3 DEF Range
  <2> QED BY <2>3, <2>4
<1>6. \A q \in Live : \A p \in Holds(q) : kvData'[p] = kvData[p]
  <2> TAKE q \in Live
  <2> TAKE p \in Holds(q)
  <2>1. p \in Pages /\ p \in kv.live
    BY <1>1, RecordFacts DEF NoLeak, Holds
  <2> QED BY <1>3, <1>5, <2>1 DEF ZeroedPages
<1>7. Live' = Live /\ \A q \in Live : Whole(Store', q)
  BY <1>1, <1>6, StaysWhole DEF Live
<1>8. Faithful'
  BY <1>7 DEF Faithful
<1> QED BY <1>1, <1>4, <1>8 DEF Inv

(* A sequence needs a page when its length is at the beginning of a block. *)
LEMMA NeedIsNewBlock ==
  ASSUME Inv, NEW q \in Live
  PROVE  Need(Store, q) = NewBlock(sequences[q].length)
PROOF
<1>1. sequences[q].table \in Seq(Pages) /\ sequences[q].length \in Nat
  BY RecordFacts DEF Inv, Ownership
<1>2. Len(sequences[q].table) = PagesFor(sequences[q].length)
  BY DEF Inv, Faithful, Whole, Store
<1>3. Need(Store, q) = Missing(sequences[q].table, sequences[q].length)
  BY DEF Need, Store
<1> QED BY <1>1, <1>2, <1>3, MissingOne

(* A token that finds its page, and a batch that passes the preflight, are *)
(* what the fold over the rows was shown for.                              *)
LEMMA TokenAdmissible ==
  ASSUME Inv, NEW id, InRange(Store, id), CanAcquire(kv, Need(Store, id))
  PROVE  Admissible(Store, <<id>>)
PROOF
<1>1. PICK rows : rows = <<id>>
  OBVIOUS
<1>2. DOMAIN rows = {1} /\ rows[1] = id
  BY <1>1
<1>3. Sane(Store) /\ Store.kv = kv /\ Store.seqs = sequences
  BY InvIsSane DEF Store
<1>4. id \in Live /\ Need(Store, id) \in Nat
  <2>1. id \in Live
    BY <1>3 DEF InRange, Live
  <2>2. Need(Store, id) = NewBlock(sequences[id].length)
    BY <2>1, NeedIsNewBlock
  <2> QED BY <2>1, <2>2 DEF NewBlock
<1>5. PICK f : f = Needs(Store, rows)
  OBVIOUS
<1>6. f[1] = Need(Store, id) /\ f[1] \in Nat
  BY <1>2, <1>4, <1>5 DEF Needs
<1>7. SumFunctionOnSet(f, {1}) = f[1]
  <2>1. IsFiniteSet({1}) /\ IsFiniteSet({})
    BY FS_Singleton, FS_EmptySet
  <2>2. SumFunctionOnSet(f, {1}) = f[1] + SumFunctionOnSet(f, {1} \ {1})
    BY <1>6, <2>1, SumOfNaturals
  <2>3. SumFunctionOnSet(f, {}) = 0 /\ {1} \ {1} = {}
    BY <2>1, SumOfNaturals
  <2> QED BY <1>6, <2>2, <2>3
<1>8. SumFunctionOnSet(Needs(Store, rows), DOMAIN rows) <= Len(Store.kv.free)
  BY <1>2, <1>3, <1>5, <1>6, <1>7 DEF CanAcquire
<1>9. /\ rows[1] \in DOMAIN Store.seqs
      /\ Store.seqs[rows[1]].length < MaxSeqLen
  BY <1>2 DEF InRange
<1>10. IsStore(Store) /\ Held(Store)
  BY <1>3 DEF Sane
<1>11. IsFiniteSet(DOMAIN rows) /\ \A i \in DOMAIN rows : i \in Nat
  <2>1. IsFiniteSet({1})
    BY FS_Singleton
  <2> QED BY <1>2, <2>1
<1> QED BY <1>1, <1>2, <1>8, <1>9, <1>10, <1>11 DEF Admissible

(* A batch has rows, and finitely many.                                    *)
LEMMA BatchFacts ==
  ASSUME NEW rows \in Batches
  PROVE  /\ \E n \in 1..MaxBatch : rows \in [1..n -> Ids]
         /\ IsFiniteSet(DOMAIN rows) /\ DOMAIN rows # {}
         /\ \A i \in DOMAIN rows : i \in Nat
PROOF
<1>1. PICK n \in 1..MaxBatch : rows \in [1..n -> Ids]
  BY DEF Batches
<1>2. n \in Nat /\ IsFiniteSet(1..n) /\ 1 \in 1..n
  BY MaxBatchAssumption, FS_Interval
<1> QED BY <1>1, <1>2

(* What the preflight counts is the sum of the needs.                      *)
LEMMA BatchAdmissible ==
  ASSUME Inv, NEW rows \in Batches, Preflight(rows)
  PROVE  Admissible(Store, rows)
PROOF
<1>1. IsFiniteSet(DOMAIN rows) /\ \A i \in DOMAIN rows : i \in Nat
  BY BatchFacts
<1>2. Sane(Store) /\ Store.kv = kv /\ Store.seqs = sequences
  BY InvIsSane DEF Store
<1>3. \A i \in DOMAIN rows : /\ rows[i] \in DOMAIN Store.seqs
                             /\ Store.seqs[rows[i]].length < MaxSeqLen
  BY DEF Preflight, InRange
<1>4. \A i \in DOMAIN rows : Need(Store, rows[i]) \in Nat
  <2> TAKE i \in DOMAIN rows
  <2>1. rows[i] \in Live
    BY <1>2, <1>3 DEF Live
  <2>2. Need(Store, rows[i]) = NewBlock(sequences[rows[i]].length)
    BY <2>1, NeedIsNewBlock
  <2> QED BY <2>2 DEF NewBlock
<1>5. BatchNeed(rows) = SumFunctionOnSet(Needs(Store, rows), DOMAIN rows)
  BY <1>1, <1>4, BatchNeedIsSum
<1>6. SumFunctionOnSet(Needs(Store, rows), DOMAIN rows) <= Len(Store.kv.free)
  BY <1>2, <1>5 DEF Preflight, CanAcquire
<1>7. \A i, j \in DOMAIN rows : rows[i] = rows[j] => i = j
  BY DEF Preflight, IsInjective
<1>8. IsStore(Store) /\ Held(Store)
  BY <1>2 DEF Sane
<1> QED BY <1>1, <1>3, <1>6, <1>7, <1>8 DEF Admissible

(* Every step of the forward's store keeps the invariant.                  *)
LEMMA NextInv == Inv /\ [ForwardNext]_vars => Inv'
PROOF
<1> SUFFICES ASSUME Inv, [ForwardNext]_vars PROVE Inv'
  OBVIOUS
<1>1. CASE CreateSequence
  BY <1>1, CreateInv
<1>2. ASSUME NEW id \in Ids, ForwardToken(id) PROVE Inv'
  <2>1. id \in Live
    BY <1>2 DEF ForwardToken, InRange, Store, Live
  <2>2. CASE /\ CanAcquire(kv, Need(Store, id))
             /\ Becomes(Forwarded(Store, <<id>>))
    <3>1. Admissible(Store, <<id>>)
      BY <1>2, <2>2, TokenAdmissible DEF ForwardToken
    <3> QED BY <2>2, <3>1, ForwardInv
  <2>3. CASE /\ RollBack(id, sequences[id].length)
             /\ UNCHANGED <<delta, next_id, deltaData>>
    BY <2>1, <2>3, RollBackInv
  <2> QED BY <1>2, <2>2, <2>3 DEF ForwardToken
<1>3. ASSUME NEW id \in Ids, ResetSequence(id) PROVE Inv'
  BY <1>3, ResetInv DEF ResetSequence
<1>4. ASSUME NEW id \in Ids, RetireSequence(id) PROVE Inv'
  BY <1>4, RetireInv DEF RetireSequence
<1>5. ASSUME NEW rows \in Batches, ForwardBatch(rows) PROVE Inv'
  <2>1. Admissible(Store, rows)
    BY <1>5, BatchAdmissible DEF ForwardBatch
  <2> QED BY <1>5, <2>1, ForwardInv DEF ForwardBatch
<1>6. CASE UNCHANGED vars
  <2>1. Ownership' /\ Isolation'
    <3>1. /\ kv' = kv /\ delta' = delta /\ sequences' = sequences
          /\ next_id' = next_id /\ kvData' = kvData /\ deltaData' = deltaData
      BY <1>6 DEF vars
    <3>2. TypeOK' /\ PoolsExact' /\ NoAliasing'
      BY <3>1 DEF Inv, Ownership, TypeOK, PoolsExact, NoAliasing, Live
    <3>3. NoLeak'
      BY <3>1 DEF Inv, Ownership, NoLeak, Live
    <3>4. Isolation'
      BY <3>1 DEF Inv, Isolation, Live
    <3> QED BY <3>2, <3>3, <3>4 DEF Ownership
  <2>2. Faithful'
    BY <1>6 DEF vars, Inv, Faithful, Live, Store, Whole
  <2> QED BY <2>1, <2>2 DEF Inv
<1> QED BY <1>1, <1>2, <1>3, <1>4, <1>5, <1>6 DEF ForwardNext

(* Whatever is created, forwarded alone or in batches, reset and retired:  *)
(* exact ownership, isolation, and every sequence's state its own tokens.  *)
THEOREM ForwardInvariant == ForwardSpec => []Inv
  BY InitInv, NextInv, PTL DEF ForwardSpec

-----------------------------------------------------------------------------
(* Counting.  A sequence without repetition has as many elements as places *)
LEMMA InjectiveCount ==
  ASSUME NEW S, NEW s \in Seq(S), IsInjective(s)
  PROVE  IsFiniteSet(Range(s)) /\ Cardinality(Range(s)) = Len(s)
PROOF
<1>1. PICK n \in Nat : n = Len(s) /\ DOMAIN s = 1..n /\ s \in [1..n -> S]
  BY LenProperties
<1>2. s \in [1..n -> Range(s)]
  BY <1>1 DEF Range
<1>3. s \in Bijection(1..n, Range(s))
  BY <1>1, <1>2 DEF Bijection, Injection, Surjection, IsInjective, Range
<1>4. ExistsBijection(1..n, Range(s))
  BY <1>3 DEF ExistsBijection
<1>5. IsFiniteSet(1..n) /\ Cardinality(1..n) = n
  <2>1. 1 \in Int /\ n \in Int
    OBVIOUS
  <2>2. Cardinality(1..n) = IF 1 > n THEN 0 ELSE n - 1 + 1
    BY <2>1, FS_Interval
  <2> QED BY <2>1, <2>2, FS_Interval
<1> QED BY <1>1, <1>4, <1>5, FS_Bijection

(* so that an exact pool's free list is as long as the rest of its ids.    *)
LEMMA PoolCount ==
  ASSUME NEW capacity \in Nat, NEW pool \in Pool(capacity),
         Partitioned(pool, capacity)
  PROVE  /\ IsFiniteSet(pool.live)
         /\ Len(pool.free) = capacity - Cardinality(pool.live)
PROOF
<1>1. PICK all : all = 0..capacity - 1
  OBVIOUS
<1>2. IsFiniteSet(all) /\ Cardinality(all) = capacity
  <2>1. 0 \in Int /\ capacity - 1 \in Int
    OBVIOUS
  <2>2. Cardinality(0..capacity - 1)
          = IF 0 > capacity - 1 THEN 0 ELSE (capacity - 1) - 0 + 1
    BY <2>1, FS_Interval
  <2> QED BY <1>1, <2>1, <2>2, FS_Interval
<1>3. PICK live : live = pool.live
  OBVIOUS
<1>4. live \subseteq all /\ Range(pool.free) = all \ live
  BY <1>1, <1>3 DEF Partitioned
<1>5. IsFiniteSet(live) /\ all \cap live = live
  BY <1>2, <1>4, FS_Subset
<1>6. Cardinality(all \ live) = capacity - Cardinality(live)
  BY <1>2, <1>5, FS_Difference
<1>7. Len(pool.free) = Cardinality(all \ live)
  <2>1. pool.free \in Seq(all) /\ IsInjective(pool.free)
    BY <1>1 DEF Partitioned
  <2> QED BY <1>4, <2>1, InjectiveCount
<1> QED BY <1>3, <1>5, <1>6, <1>7

(* Only ids that were issued live.                                         *)
LEMMA LiveFinite == Inv => IsFiniteSet(Live)
PROOF
<1> SUFFICES ASSUME Inv PROVE IsFiniteSet(Live)
  OBVIOUS
<1>1. Live \subseteq 1..next_id - 1 /\ next_id \in 1..MaxId + 1
  BY DEF Inv, Ownership, TypeOK
<1>2. IsFiniteSet(1..next_id - 1)
  <2>1. 1 \in Int /\ next_id - 1 \in Int
    BY <1>1
  <2> QED BY <2>1, FS_Interval
<1> QED BY <1>1, <1>2, FS_Subset

(* The pages in use are those the lengths tell of.                         *)
LEMMA PagesCount ==
  Inv => /\ Abstract!UsedPages \in Nat
         /\ KvPages - Abstract!UsedPages = Len(kv.free)
PROOF
<1> SUFFICES ASSUME Inv
             PROVE  /\ Abstract!UsedPages \in Nat
                    /\ KvPages - Abstract!UsedPages = Len(kv.free)
  OBVIOUS
<1>1. TypeOK /\ PoolsExact /\ NoAliasing /\ NoLeak /\ Faithful
      /\ IsFiniteSet(Live)
  BY LiveFinite DEF Inv, Ownership
<1>2. PICK h, f : /\ h = [q \in Live |-> Holds(q)]
                  /\ f = [q \in Live |-> PagesFor(sequences[q].length)]
  OBVIOUS
<1>3. Abstract!UsedPages = SumFunctionOnSet(f, Live)
  <2>1. PICK n : n = [q \in Live |-> sequences[q].length]
    OBVIOUS
  <2>2. Abstract!UsedPages = SumFunction([q \in DOMAIN n |-> PagesFor(n[q])])
    BY <2>1 DEF Abstract!UsedPages, Abstract!PagesOf, PagesFor,
       SumFunction, SumFunctionOnSet, FoldFunctionOnSet, MapThenFoldSet,
       Abstract!SumFunction, Abstract!SumFunctionOnSet,
       Abstract!FoldFunctionOnSet, Abstract!MapThenFoldSet
  <2>3. [q \in DOMAIN n |-> PagesFor(n[q])] = f
    BY <1>2, <2>1
  <2> QED BY <1>2, <2>2, <2>3 DEF SumFunction
<1>4. ASSUME NEW q \in Live
      PROVE  IsFiniteSet(h[q]) /\ f[q] = Cardinality(h[q])
  <2>1. PICK t \in Seq(Pages) : t = sequences[q].table
    BY <1>1, RecordFacts
  <2>2. IsInjective(t) /\ h[q] = Range(t)
    BY <1>1, <1>2, <2>1 DEF NoAliasing, Holds
  <2>3. Len(t) = PagesFor(sequences[q].length)
    BY <1>1, <2>1 DEF Faithful, Whole, Store
  <2> QED BY <1>2, <2>1, <2>2, <2>3, InjectiveCount
<1>5. \A q, r \in Live : q # r => h[q] \cap h[r] = {}
  BY <1>1, <1>2 DEF NoAliasing, Holds
<1>6. kv.live = UNION {h[q] : q \in Live}
  BY <1>1, <1>2 DEF NoLeak, Holds
<1>7. Cardinality(kv.live) = Abstract!UsedPages /\ IsFiniteSet(kv.live)
  BY <1>1, <1>3, <1>4, <1>5, <1>6, CountOfUnion
<1>8. kv \in Pool(KvPages) /\ Partitioned(kv, KvPages) /\ KvPages \in Nat
  BY <1>1, PagesAre DEF TypeOK, PoolsExact
<1>9. Len(kv.free) = KvPages - Cardinality(kv.live)
  BY <1>8, PoolCount
<1>10. Cardinality(kv.live) \in Nat
  BY <1>7, FS_CardinalityType
<1> QED BY <1>7, <1>8, <1>9, <1>10

(* There is a slot for a sequence more as long as there are not            *)
(* DeltaSlots.                                                             *)
LEMMA SlotsCount ==
  Inv => /\ Len(delta.free) = DeltaSlots - Cardinality(Live)
         /\ (Abstract!CanCreate <=> CanAcquire(delta, 1))
PROOF
<1> SUFFICES ASSUME Inv
             PROVE  /\ Len(delta.free) = DeltaSlots - Cardinality(Live)
                    /\ (Abstract!CanCreate <=> CanAcquire(delta, 1))
  OBVIOUS
<1>1. TypeOK /\ PoolsExact /\ NoAliasing /\ NoLeak /\ IsFiniteSet(Live)
  BY LiveFinite DEF Inv, Ownership
<1>2. PICK g : g = [q \in Live |-> sequences[q].slot]
  OBVIOUS
<1>3. g \in Bijection(Live, delta.live)
  <2>1. /\ delta.live = {g[q] : q \in Live}
        /\ \A q, r \in Live : g[q] = g[r] => q = r
    BY <1>1, <1>2 DEF NoLeak, NoAliasing
  <2>2. g \in [Live -> delta.live]
    BY <1>2, <2>1
  <2> QED BY <2>1, <2>2
          DEF Bijection, Injection, Surjection, IsInjective
<1>4. Cardinality(delta.live) = Cardinality(Live)
  BY <1>1, <1>3, FS_Bijection DEF ExistsBijection
<1>5. Len(delta.free) = DeltaSlots - Cardinality(delta.live)
  <2>1. /\ delta \in Pool(DeltaSlots) /\ Partitioned(delta, DeltaSlots)
        /\ DeltaSlots \in Nat
    BY <1>1, SlotsAre DEF TypeOK, PoolsExact
  <2> QED BY <2>1, PoolCount
<1>6. Abstract!CanCreate <=> Cardinality(Live) < DeltaSlots
  <2>1. Abstract!Live = Live
    BY DEF Abstract!Live
  <2> QED BY <2>1 DEF Abstract!CanCreate, Abstract!Cardinality, Cardinality
<1>7. Cardinality(Live) \in Nat
  BY <1>1, FS_CardinalityType
<1> QED BY <1>4, <1>5, <1>6, <1>7 DEF CanAcquire

(* Coherent is the invariant with the counts drawn from it.                *)
LEMMA InvIsCoherent == Inv => Coherent
PROOF
<1> SUFFICES ASSUME Inv PROVE Coherent
  OBVIOUS
<1>1. ASSUME NEW q \in Live
      PROVE  LET rec == sequences[q] IN
             /\ deltaData[rec.slot] = [i \in 1..rec.length |-> q]
             /\ Len(rec.table) = (rec.length + PageTokens - 1) \div PageTokens
             /\ \A position \in 0..Len(rec.table) * PageTokens - 1 :
                  kvData[rec.table[Block(position) + 1]][Offset(position)] =
                    IF position < rec.length THEN q ELSE 0
  <2>1. PICK t \in Seq(Pages), n \in 0..MaxSeqLen, slot \in Slots :
          /\ t = sequences[q].table /\ n = sequences[q].length
          /\ slot = sequences[q].slot
    BY RecordFacts DEF Inv, Ownership
  <2>2. /\ deltaData[slot] = [i \in 1..n |-> q]
        /\ Len(t) = (n + PageTokens - 1) \div PageTokens
        /\ \A p \in Nat : Block(p) < Len(t) =>
             kvData[t[Block(p) + 1]][Offset(p)] = IF p < n THEN q ELSE 0
    BY <2>1 DEF Inv, Faithful, Whole, Store, PagesFor, Abstract!PagesFor
  <2>3. PICK k \in Nat, cells \in Nat : k = Len(t) /\ cells = k * PageTokens
    BY <2>1, LenProperties
  <2>4. \A p \in 0..cells - 1 : p \in Nat /\ Block(p) < k
    <3> TAKE p \in 0..cells - 1
    <3>1. p \in Nat /\ p < cells
      OBVIOUS
    <3> QED BY <2>3, <3>1, PositionsBelow
  <2>5. \A p \in 0..Len(t) * PageTokens - 1 :
          kvData[t[Block(p) + 1]][Offset(p)] = IF p < n THEN q ELSE 0
    BY <2>2, <2>3, <2>4
  <2> QED BY <2>1, <2>2, <2>5
<1> QED BY <1>1, PagesCount, SlotsCount DEF Coherent

(* The lengths alone tell what is free, and the contents are the           *)
(* sequences' own, whatever ran in one batch.                              *)
THEOREM ForwardIsCoherent == ForwardSpec => []Coherent
  BY ForwardInvariant, InvIsCoherent, PTL

(* No page is shared, lost, or shown to another sequence by a forward.     *)
THEOREM ForwardKeepsApart ==
  ForwardSpec => [](PoolsExact /\ NoAliasing /\ NoLeak /\ Isolation)
PROOF
<1>1. Inv => PoolsExact /\ NoAliasing /\ NoLeak /\ Isolation
  BY DEF Inv, Ownership
<1> QED BY <1>1, ForwardInvariant, PTL

-----------------------------------------------------------------------------
(* The refinement: what the rows need together is one page for each that   *)
(* begins a block.                                                         *)
LEMMA NeedsCount ==
  ASSUME Inv, NEW rows, Admissible(Store, rows)
  PROVE  LET begun == {q \in ToSet(rows) : sequences[q].length % PageTokens = 0}
         IN  /\ IsFiniteSet(begun)
             /\ SumFunctionOnSet(Needs(Store, rows), DOMAIN rows)
                  = Cardinality(begun)
PROOF
<1>1. PICK D, f, begun :
        /\ D = DOMAIN rows /\ f = Needs(Store, rows)
        /\ begun = {q \in ToSet(rows) : sequences[q].length % PageTokens = 0}
  OBVIOUS
<1>2. PICK h : h = [i \in D |-> IF rows[i] \in begun THEN {rows[i]} ELSE {}]
  OBVIOUS
<1>3. IsFiniteSet(D)
  BY <1>1 DEF Admissible
<1>4. ASSUME NEW i \in D
      PROVE  IsFiniteSet(h[i]) /\ f[i] = Cardinality(h[i])
  <2>1. PICK q : q = rows[i]
    OBVIOUS
  <2>2. q \in Live /\ q \in ToSet(rows)
    BY <1>1, <2>1 DEF Admissible, Store, Live, ToSet
  <2>3. f[i] = NewBlock(sequences[q].length)
    BY <1>1, <2>1, <2>2, NeedIsNewBlock DEF Needs
  <2>4. CASE q \in begun
    <3>1. f[i] = 1
      BY <1>1, <2>3, <2>4 DEF NewBlock
    <3>2. h[i] = {q}
      BY <1>2, <2>1, <2>4
    <3>3. IsFiniteSet({q}) /\ Cardinality({q}) = 1
      BY FS_Singleton
    <3> QED BY <3>1, <3>2, <3>3
  <2>5. CASE q \notin begun
    <3>1. f[i] = 0
      BY <1>1, <2>2, <2>3, <2>5 DEF NewBlock
    <3>2. h[i] = {}
      BY <1>2, <2>1, <2>5
    <3> QED BY <3>1, <3>2, FS_EmptySet
  <2> QED BY <2>4, <2>5
<1>5. \A i, j \in D : i # j => h[i] \cap h[j] = {}
  <2>1. \A i, j \in D : rows[i] = rows[j] => i = j
    BY <1>1 DEF Admissible
  <2> QED BY <1>2, <2>1
<1>6. begun = UNION {h[i] : i \in D}
  <2>1. \A q \in begun : \E i \in D : q = rows[i]
    BY <1>1 DEF ToSet
  <2>2. \A i \in D : h[i] \subseteq begun
    BY <1>2
  <2>3. \A i \in D : rows[i] \in begun => rows[i] \in h[i]
    BY <1>2
  <2> QED BY <2>1, <2>2, <2>3
<1>7. IsFiniteSet(begun) /\ Cardinality(begun) = SumFunctionOnSet(f, D)
  <2>1. \A i \in D : IsFiniteSet(h[i]) /\ f[i] = Cardinality(h[i])
    BY <1>4
  <2>2. /\ IsFiniteSet(UNION {h[i] : i \in D})
        /\ Cardinality(UNION {h[i] : i \in D}) = SumFunctionOnSet(f, D)
    BY <1>3, <1>5, <2>1, CountOfUnion
  <2> QED BY <1>6, <2>2
<1> QED BY <1>1, <1>7

Lengths == [q \in Live |-> sequences[q].length]

(* Rows that pass the preflight fit, and lengthen exactly the rows.        *)
LEMMA ForwardImplements ==
  ASSUME Inv, NEW rows, Admissible(Store, rows), DOMAIN rows # {},
         Becomes(Forwarded(Store, rows))
  PROVE  Abstract!StoreNext
PROOF
<1>1. PICK ids, l, m : ids = ToSet(rows) /\ l = Lengths /\ m = Lengths'
  OBVIOUS
<1>2. /\ Live' = Live /\ ids \subseteq Live
      /\ \A q \in Live :
           sequences'[q].length
             = sequences[q].length + (IF q \in ids THEN 1 ELSE 0)
      /\ next_id' = next_id
  BY <1>1, ForwardInv
<1>3. DOMAIN l = Live /\ \A q \in Live : l[q] = sequences[q].length
  BY <1>1 DEF Lengths
<1>4. m = [q \in DOMAIN l |-> l[q] + IF q \in ids THEN 1 ELSE 0]
  BY <1>1, <1>2, <1>3 DEF Lengths
<1>5. \A q \in ids : l[q] < MaxSeqLen
  <2> TAKE q \in ids
  <2>1. PICK i \in DOMAIN rows : q = rows[i]
    BY <1>1 DEF ToSet
  <2>2. Store.seqs[q].length < MaxSeqLen /\ Store.seqs = sequences
    BY <2>1 DEF Admissible, Store
  <2> QED BY <1>2, <1>3, <2>2
<1>6. PICK begun : begun = {q \in ids : l[q] % PageTokens = 0}
  OBVIOUS
<1>7. begun = {q \in ToSet(rows) : sequences[q].length % PageTokens = 0}
  BY <1>1, <1>2, <1>3, <1>6
<1>8. Abstract!PagesOf(l) + Cardinality(begun) <= KvPages
  <2>1. /\ IsFiniteSet(begun)
        /\ SumFunctionOnSet(Needs(Store, rows), DOMAIN rows) = Cardinality(begun)
    BY <1>7, NeedsCount
  <2>2. Cardinality(begun) \in Nat /\ Cardinality(begun) <= Len(kv.free)
    BY <2>1, FS_CardinalityType DEF Admissible, Store
  <2>3. PICK used \in Nat : used = Abstract!UsedPages
    BY PagesCount
  <2>4. KvPages - used = Len(kv.free)
    BY <2>3, PagesCount
  <2>5. Abstract!PagesOf(l) = used
    BY <1>1, <2>3 DEF Abstract!UsedPages, Lengths
  <2> QED BY <2>2, <2>4, <2>5
<1>9. Abstract!Fits(l, ids)
  <2>1. Abstract!Cardinality(begun) = Cardinality(begun)
    BY DEF Abstract!Cardinality, Cardinality
  <2> QED BY <1>2, <1>3, <1>5, <1>6, <1>8, <2>1 DEF Abstract!Fits
<1>10. Abstract!Forward(ids)
  BY <1>1, <1>2, <1>4, <1>9 DEF Abstract!Forward, Abstract!Lengthened, Lengths
<1>11. ids # {}
  BY <1>1 DEF ToSet
<1>12. ids \in (SUBSET Abstract!Live) \ {{}}
  BY <1>1, <1>2, <1>3, <1>11 DEF Abstract!Live, Lengths
<1> QED BY <1>10, <1>12 DEF Abstract!StoreNext

(* A slot is free exactly when the abstract store has room for a sequence. *)
LEMMA CreateImplements ==
  ASSUME Inv, CreateSequence
  PROVE  Abstract!StoreNext
PROOF
<1>1. PICK new, l, m : new = next_id /\ l = Lengths /\ m = Lengths'
  OBVIOUS
<1>2. PICK s : s = Acquired(delta, 1)[1]
  OBVIOUS
<1>3. /\ Live' = Live \cup {new} /\ sequences'[new] = Fresh(s)
      /\ \A q \in Live : q # new => sequences'[q] = sequences[q]
      /\ next_id <= MaxId /\ next_id' = next_id + 1
  BY <1>1, <1>2 DEF CreateSequence, Live
<1>4. DOMAIN l = Live /\ \A q \in Live : l[q] = sequences[q].length
  BY <1>1 DEF Lengths
<1>5. m = [y \in DOMAIN l \cup {new} |-> IF y = new THEN 0 ELSE l[y]]
  <2>1. sequences'[new].length = 0
    BY <1>3 DEF Fresh
  <2> QED BY <1>1, <1>3, <1>4, <2>1 DEF Lengths
<1>6. Abstract!CanCreate
  BY SlotsCount DEF CreateSequence
<1>7. Abstract!Create
  BY <1>1, <1>3, <1>5, <1>6 DEF Abstract!Create, Abstract!With, Lengths
<1> QED BY <1>7 DEF Abstract!StoreNext

(* A reset sequence has length 0.                                          *)
LEMMA ResetImplements ==
  ASSUME Inv, NEW id \in Live, ResetSequence(id)
  PROVE  Abstract!StoreNext
PROOF
<1>1. PICK l, m : l = Lengths /\ m = Lengths'
  OBVIOUS
<1>2. PICK s : s = sequences[id].slot
  OBVIOUS
<1>3. sequences \in [Live -> SequenceRecord]
  BY DEF Inv, Ownership, TypeOK
<1>4. /\ Live' = Live /\ sequences'[id] = Fresh(s)
      /\ \A q \in Live : q # id => sequences'[q] = sequences[q]
      /\ next_id' = next_id
  BY <1>2, <1>3 DEF ResetSequence, Live
<1>5. m = [l EXCEPT ![id] = 0]
  <2>1. sequences'[id].length = 0
    BY <1>4 DEF Fresh
  <2> QED BY <1>1, <1>4, <2>1 DEF Lengths
<1>6. Abstract!Reset(id) /\ id \in Abstract!Live
  BY <1>1, <1>4, <1>5 DEF Abstract!Reset, Abstract!Live, Lengths
<1> QED BY <1>6 DEF Abstract!StoreNext

(* A retired sequence is without a length.                                 *)
LEMMA RetireImplements ==
  ASSUME Inv, NEW id \in Live, RetireSequence(id)
  PROVE  Abstract!StoreNext
PROOF
<1>1. PICK l, m : l = Lengths /\ m = Lengths'
  OBVIOUS
<1>2. /\ Live' = Live \ {id} /\ \A q \in Live' : sequences'[q] = sequences[q]
      /\ next_id' = next_id
  BY DEF RetireSequence, Restrict, Live
<1>3. m = [q \in DOMAIN l \ {id} |-> l[q]]
  BY <1>1, <1>2 DEF Lengths
<1>4. m = Abstract!Without(l, id)
  BY <1>3 DEF Abstract!Without, Abstract!Restrict
<1>5. Abstract!Retire(id) /\ id \in Abstract!Live
  BY <1>1, <1>2, <1>4 DEF Abstract!Retire, Abstract!Live, Lengths
<1> QED BY <1>5 DEF Abstract!StoreNext

(* Every step is a step of the abstract store or, when the pages run out,  *)
(* none.                                                                   *)
LEMMA StepImplements ==
  Inv /\ [ForwardNext]_vars => [Abstract!StoreNext]_(Abstract!store)
PROOF
<1> SUFFICES ASSUME Inv, [ForwardNext]_vars
             PROVE  [Abstract!StoreNext]_(Abstract!store)
  OBVIOUS
<1>1. CASE CreateSequence
  BY <1>1, CreateImplements
<1>2. ASSUME NEW id \in Ids, ForwardToken(id)
      PROVE  [Abstract!StoreNext]_(Abstract!store)
  <2>1. id \in Live
    BY <1>2 DEF ForwardToken, InRange, Store, Live
  <2>2. CASE /\ CanAcquire(kv, Need(Store, id))
             /\ Becomes(Forwarded(Store, <<id>>))
    <3>1. Admissible(Store, <<id>>)
      BY <1>2, <2>2, TokenAdmissible DEF ForwardToken
    <3>2. DOMAIN <<id>> # {}
      OBVIOUS
    <3> QED BY <2>2, <3>1, <3>2, ForwardImplements
  <2>3. CASE /\ RollBack(id, sequences[id].length)
             /\ UNCHANGED <<delta, next_id, deltaData>>
    <3>1. sequences' = sequences /\ next_id' = next_id
      BY <2>1, <2>3, RollBackRestores DEF Inv
    <3> QED BY <3>1 DEF Abstract!store, Live
  <2> QED BY <1>2, <2>2, <2>3 DEF ForwardToken
<1>3. ASSUME NEW id \in Ids, ResetSequence(id)
      PROVE  [Abstract!StoreNext]_(Abstract!store)
  BY <1>3, ResetImplements DEF ResetSequence
<1>4. ASSUME NEW id \in Ids, RetireSequence(id)
      PROVE  [Abstract!StoreNext]_(Abstract!store)
  BY <1>4, RetireImplements DEF RetireSequence
<1>5. ASSUME NEW rows \in Batches, ForwardBatch(rows)
      PROVE  [Abstract!StoreNext]_(Abstract!store)
  <2>1. Admissible(Store, rows) /\ DOMAIN rows # {}
    BY <1>5, BatchAdmissible, BatchFacts DEF ForwardBatch
  <2> QED BY <1>5, <2>1, ForwardImplements DEF ForwardBatch
<1>6. CASE UNCHANGED vars
  BY <1>6 DEF vars, Abstract!store, Live
<1> QED BY <1>1, <1>2, <1>3, <1>4, <1>5, <1>6 DEF ForwardNext

(* What the runtime above relies on, a length per sequence and a count of  *)
(* pages, is what the state manager and the forward keep.                  *)
THEOREM ForwardImplementsStore == ForwardSpec => ImplementsStore
PROOF
<1>1. Init => Abstract!StoreInit
  BY DEF Init, Abstract!StoreInit, Live
<1> QED BY <1>1, ForwardInvariant, StepImplements, PTL
        DEF ForwardSpec, ImplementsStore, Abstract!StoreSpec

-----------------------------------------------------------------------------
(* A batch is its rows one by one: the same pages, contents and lengths as *)
(* forwards of one row after the other, and the preflight turns away just  *)
(* the batches of which one of these would find no page.                   *)

(* What is admissible but for the pages there are.                         *)
Eligible(st, rows) ==
  /\ IsStore(st) /\ Held(st)
  /\ IsFiniteSet(DOMAIN rows) /\ \A i \in DOMAIN rows : i \in Nat
  /\ \A i \in DOMAIN rows : /\ rows[i] \in DOMAIN st.seqs
                            /\ st.seqs[rows[i]].length < MaxSeqLen
  /\ \A i, j \in DOMAIN rows : rows[i] = rows[j] => i = j

(* The rows at the places s, and who they are.                             *)
Part(rows, s) == [i \in s |-> rows[i]]

At(rows, s) == {rows[i] : i \in s}

(* What such a row needs is a number of pages.                             *)
LEMMA EligibleNeeds ==
  ASSUME NEW st, NEW rows, Eligible(st, rows)
  PROVE  \A i \in DOMAIN rows : /\ Need(st, rows[i]) \in Nat
                                /\ Needs(st, rows)[i] = Need(st, rows[i])
PROOF
<1> TAKE i \in DOMAIN rows
<1>1. PICK r \in SequenceRecord : r = st.seqs[rows[i]] /\ r.length < MaxSeqLen
  BY DEF Eligible, Held
<1>2. r.table \in Seq(Pages) /\ r.length \in 0..MaxSeqLen
  BY DEF SequenceRecord
<1>3. r.length \in 0..MaxSeqLen - 1
  BY <1>1, <1>2, ConstantsAssumption
<1> QED BY <1>1, <1>2, <1>3, MissingIsNat DEF Need, Needs

(* Some of the rows need what they need in the batch.                      *)
LEMMA PartAdmissible ==
  ASSUME NEW st, NEW rows, Eligible(st, rows), NEW s \in SUBSET DOMAIN rows,
         SumFunctionOnSet(Needs(st, rows), s) <= Len(st.kv.free),
         NEW part, part = Part(rows, s)
  PROVE  /\ Admissible(st, part) /\ DOMAIN part = s
         /\ ToSet(part) = At(rows, s)
         /\ SumFunctionOnSet(Needs(st, part), s)
              = SumFunctionOnSet(Needs(st, rows), s)
PROOF
<1>1. DOMAIN part = s /\ \A i \in s : part[i] = rows[i] /\ i \in DOMAIN rows
  BY DEF Part
<1>2. ToSet(part) = At(rows, s)
  BY <1>1 DEF ToSet, At
<1>3. IsFiniteSet(s)
  BY FS_Subset DEF Eligible
<1>4. PICK f, g : f = Needs(st, rows) /\ g = Needs(st, part)
  OBVIOUS
<1>5. \A i \in s : f[i] \in Nat /\ g[i] = f[i]
  <2> TAKE i \in s
  <2>1. f[i] \in Nat /\ f[i] = Need(st, rows[i])
    BY <1>1, <1>4, EligibleNeeds
  <2>2. g[i] = Need(st, rows[i])
    BY <1>1, <1>4 DEF Needs
  <2> QED BY <2>1, <2>2
<1>6. SumFunctionOnSet(g, s) = SumFunctionOnSet(f, s)
  BY <1>3, <1>5, SumSame
<1>7. Admissible(st, part)
  BY <1>1, <1>3, <1>4, <1>6 DEF Eligible, Admissible
<1> QED BY <1>1, <1>2, <1>4, <1>6, <1>7

(* A store after some of the rows is one after a batch of just these.      *)
LEMMA PartGrown ==
  ASSUME NEW st, Sane(st), NEW rows, Admissible(st, rows),
         NEW s \in SUBSET DOMAIN rows, NEW x, Grown(st, x, rows, s)
  PROVE  Ready(st, x, Part(rows, s), At(rows, s))
PROOF
<1>1. PICK part : part = Part(rows, s)
  OBVIOUS
<1>2. Eligible(st, rows)
  BY DEF Eligible, Admissible
<1>3. SumFunctionOnSet(Needs(st, rows), s) <= Len(st.kv.free)
  BY NeedsNat
<1>4. /\ Admissible(st, part) /\ DOMAIN part = s /\ ToSet(part) = At(rows, s)
      /\ SumFunctionOnSet(Needs(st, part), s)
           = SumFunctionOnSet(Needs(st, rows), s)
  BY <1>1, <1>2, <1>3, PartAdmissible
<1>5. \A i \in s : part[i] = rows[i]
  BY <1>1 DEF Part
<1>6. Grown(st, x, part, s)
  BY <1>4, <1>5 DEF Grown
<1> QED BY <1>1, <1>4, <1>6 DEF Ready

(* One row of its own.                                                     *)
LEMMA SingleAdmissible ==
  ASSUME NEW st, IsStore(st), Held(st), NEW id \in DOMAIN st.seqs,
         st.seqs[id].length < MaxSeqLen, CanAcquire(st.kv, Need(st, id))
  PROVE  Admissible(st, <<id>>)
PROOF
<1>1. PICK rows : rows = <<id>>
  OBVIOUS
<1>2. DOMAIN rows = {1} /\ rows[1] = id
  BY <1>1
<1>3. IsFiniteSet({1}) /\ IsFiniteSet({})
  BY FS_Singleton, FS_EmptySet
<1>4. Eligible(st, rows)
  BY <1>2, <1>3 DEF Eligible
<1>5. PICK f : f = Needs(st, rows)
  OBVIOUS
<1>6. f[1] = Need(st, id) /\ f[1] \in Nat
  BY <1>2, <1>4, <1>5, EligibleNeeds
<1>7. SumFunctionOnSet(f, {1}) = f[1]
  <2>1. SumFunctionOnSet(f, {1}) = f[1] + SumFunctionOnSet(f, {1} \ {1})
    BY <1>3, <1>6, SumOfNaturals
  <2>2. SumFunctionOnSet(f, {}) = 0 /\ {1} \ {1} = {}
    BY <1>3, SumOfNaturals
  <2> QED BY <1>6, <2>1, <2>2
<1>8. SumFunctionOnSet(Needs(st, rows), DOMAIN rows) <= Len(st.kv.free)
  BY <1>2, <1>5, <1>6, <1>7 DEF CanAcquire
<1> QED BY <1>1, <1>4, <1>8 DEF Eligible, Admissible

(* The fold over one row ensures that row.                                 *)
LEMMA SingleFold ==
  ASSUME NEW st, NEW id, Admissible(st, <<id>>)
  PROVE  FoldLeft(Ensured, st, <<id>>) = Ensured(st, id)
PROOF
<1>1. PICK rows : rows = <<id>>
  OBVIOUS
<1>2. DOMAIN rows = {1} /\ rows[1] = id
  BY <1>1
<1> DEFINE it == CHOOSE g : Unfolded(st, rows, g)
<1>3. FoldLeft(Ensured, st, rows) = it[DOMAIN rows]
  BY DEF FoldLeft, MapThenFoldSet, Unfolded
<1>4. Unfolded(st, rows, it)
  BY <1>1, FoldExists
<1> HIDE DEF it
<1>5. Max({1}) = 1
  <2>1. {1} \in SUBSET DOMAIN rows /\ {1} # {}
    BY <1>2
  <2>2. Max({1}) \in {1}
    BY <1>1, <2>1, LatestPicks
  <2> QED BY <2>2
<1>6. it[{}] = st
  BY <1>4 DEF Unfolded
<1>7. it[{1}] = Ensured(it[{1} \ {1}], rows[1])
  <2>1. {1} \in SUBSET DOMAIN rows /\ {1} # {}
    BY <1>2
  <2> QED BY <1>4, <1>5, <2>1 DEF Unfolded
<1>8. {1} \ {1} = {}
  OBVIOUS
<1> QED BY <1>1, <1>2, <1>3, <1>6, <1>7, <1>8

-----------------------------------------------------------------------------
(* What one row more does.  Stores are their four parts.                   *)
LEMMA StoreEqual ==
  ASSUME NEW a, NEW b, IsStore(a), IsStore(b), a.kv = b.kv, a.seqs = b.seqs,
         a.cells = b.cells, a.slots = b.slots
  PROVE  a = b
  BY DEF IsStore

(* Lengths are numbers.                                                    *)
LEMMA HeldLength ==
  ASSUME NEW x, Held(x), NEW q \in DOMAIN x.seqs
  PROVE  x.seqs[q].length \in Nat
PROOF
<1>1. x.seqs[q] \in SequenceRecord
  BY DEF Held
<1> QED BY <1>1 DEF SequenceRecord

(* What a forward leaves of a sequence.                                    *)
LEMMA LandedRow ==
  ASSUME NEW x, NEW S, NEW z, Landed(x, S, z), NEW q \in DOMAIN x.seqs,
         NEW slot, slot = x.seqs[q].slot, NEW t, t = x.seqs[q].table,
         NEW n, n = x.seqs[q].length, NEW m, m = n + (IF q \in S THEN 1 ELSE 0)
  PROVE  z.seqs[q] = [slot |-> slot, table |-> t, length |-> m]
  BY DEF Landed

(* Ensuring and forwarding a row after the others were forwarded, or       *)
(* ensuring it with them and forwarding them together.                     *)
LEMMA OneRowLater ==
  ASSUME NEW st, NEW x, NEW z, NEW before, NEW after, NEW R, NEW S,
         Ready(st, x, before, R), Ready(st, z, after, S),
         NEW id \in DOMAIN st.seqs, id \notin R, S = R \cup {id},
         z = Ensured(x, id), NEW y, Landed(x, R, y), NEW w, w = Ensured(y, id),
         NEW v, Landed(w, {id}, v), NEW u, Landed(z, S, u)
  PROVE  v = u
PROOF
<1>1. /\ IsStore(x) /\ Held(x) /\ DOMAIN x.seqs = DOMAIN st.seqs
      /\ x.slots = st.slots /\ Sane(st)
  BY DEF Ready, Grown
<1>2. Sane(y) /\ IsStore(y) /\ Held(y) /\ DOMAIN y.seqs = DOMAIN st.seqs
  <2>1. Sane(y)
    BY LandedSane
  <2>2. DOMAIN y.seqs = DOMAIN st.seqs
    BY <1>1 DEF Landed
  <2> QED BY <2>1, <2>2 DEF Sane
<1>3. PICK slot, t, n :
        /\ slot = x.seqs[id].slot /\ t = x.seqs[id].table
        /\ n = x.seqs[id].length /\ n \in Nat
  <2>1. x.seqs[id].length \in Nat
    BY <1>1, HeldLength
  <2> QED BY <2>1
<1>4. y.seqs[id].slot = slot /\ y.seqs[id].table = t /\ y.seqs[id].length = n
  <2>1. PICK m : m = n + (IF id \in R THEN 1 ELSE 0)
    OBVIOUS
  <2>2. m = n
    BY <1>3, <2>1
  <2>3. y.seqs[id] = [slot |-> slot, table |-> t, length |-> m]
    BY <1>1, <1>3, <2>1, LandedRow
  <2> QED BY <2>2, <2>3
<1>5. PICK k, a : k = Need(x, id) /\ k = Need(y, id) /\ a = Acquired(x.kv, k)
                  /\ a = Acquired(y.kv, k)
  <2>1. Need(x, id) = Need(y, id) /\ x.kv = y.kv
    BY <1>3, <1>4 DEF Need, Landed
  <2> QED BY <2>1
<1>6. Takes(x, z, id, k, a)
  BY <1>1, <1>5, EnsuredTakes
<1>7. Takes(y, w, id, k, a)
  BY <1>2, <1>5, EnsuredTakes
<1>8. PICK d : d = t \o a
  OBVIOUS
<1>9. /\ z.seqs[id] = [slot |-> slot, table |-> d, length |-> n]
      /\ w.seqs[id] = [slot |-> slot, table |-> d, length |-> n]
  BY <1>3, <1>4, <1>6, <1>7, <1>8 DEF Takes
<1>10. v.kv = u.kv
  BY <1>6, <1>7 DEF Takes, Landed
<1>11. v.seqs = u.seqs
  <2>1. DOMAIN v.seqs = DOMAIN st.seqs /\ DOMAIN u.seqs = DOMAIN st.seqs
    BY <1>1, <1>2, <1>6, <1>7 DEF Takes, Landed
  <2>2. ASSUME NEW q \in DOMAIN st.seqs PROVE v.seqs[q] = u.seqs[q]
    <3>1. q \in DOMAIN w.seqs /\ q \in DOMAIN z.seqs
      BY <1>1, <1>2, <1>6, <1>7 DEF Takes
    <3>2. CASE q = id
      <4> id \in DOMAIN w.seqs /\ id \in DOMAIN z.seqs
        BY <3>1, <3>2
      <4>1. PICK one : one = n + (IF id \in {id} THEN 1 ELSE 0)
                       /\ one = n + (IF id \in S THEN 1 ELSE 0)
        OBVIOUS
      <4>2. v.seqs[id] = [slot |-> slot, table |-> d, length |-> one]
        BY <1>9, <3>1, <4>1, LandedRow
      <4>3. u.seqs[id] = [slot |-> slot, table |-> d, length |-> one]
        BY <1>9, <3>1, <4>1, LandedRow
      <4> QED BY <3>2, <4>2, <4>3
    <3>3. CASE q # id
      <4>1. z.seqs[q] = x.seqs[q] /\ w.seqs[q] = y.seqs[q]
        BY <1>1, <1>2, <1>6, <1>7, <3>3 DEF Takes
      <4>2. PICK f, e, m :
              /\ f = x.seqs[q].slot /\ e = x.seqs[q].table
              /\ m = x.seqs[q].length /\ m \in Nat
        <5>1. x.seqs[q].length \in Nat
          BY <1>1, HeldLength
        <5> QED BY <5>1
      <4>3. PICK l : l = m + (IF q \in R THEN 1 ELSE 0)
                     /\ l = m + (IF q \in S THEN 1 ELSE 0)
                     /\ l = l + (IF q \in {id} THEN 1 ELSE 0)
        BY <3>3, <4>2
      <4>4. y.seqs[q] = [slot |-> f, table |-> e, length |-> l]
        BY <1>1, <4>2, <4>3, LandedRow
      <4>5. u.seqs[q] = [slot |-> f, table |-> e, length |-> l]
        BY <3>1, <4>1, <4>2, <4>3, LandedRow
      <4>6. w.seqs[q].slot = f /\ w.seqs[q].table = e /\ w.seqs[q].length = l
        BY <4>1, <4>4
      <4>7. v.seqs[q] = [slot |-> f, table |-> e, length |-> l]
        BY <3>1, <4>3, <4>6, LandedRow
      <4> QED BY <4>5, <4>7
    <3> QED BY <3>2, <3>3
  <2>3. /\ v.seqs = [q \in DOMAIN st.seqs |-> v.seqs[q]]
        /\ u.seqs = [q \in DOMAIN st.seqs |-> u.seqs[q]]
    BY <1>1, <1>2, <1>6, <1>7 DEF Takes, Landed
  <2> QED BY <2>2, <2>3
<1>12. v.cells = u.cells
  <2>1. ASSUME NEW p \in Pages, NEW o \in Offsets
        PROVE  Cell(w, {id}, p, o) = Cell(z, S, p, o)
    <3>1. w.cells[p][o] = Cell(x, R, p, o) /\ z.cells = x.cells
      <4>1. w.cells = y.cells /\ z.cells = x.cells
        BY <1>6, <1>7 DEF Takes
      <4>2. y.cells = [f \in Pages |-> [g \in Offsets |-> Cell(x, R, f, g)]]
        BY DEF Landed
      <4>3. y.cells[p][o] = Cell(x, R, p, o)
        BY <4>2
      <4> QED BY <4>1, <4>3
    <3>2. \A q \in R : z.seqs[q] = x.seqs[q]
      <4> SUFFICES ASSUME NEW q \in R PROVE z.seqs[q] = x.seqs[q]
        OBVIOUS
      <4>1. PICK l, e : l = x.seqs[q].length /\ e = x.seqs[q].table
        OBVIOUS
      <4>2. q \in DOMAIN x.seqs
        BY <4>1, TargetFacts
      <4> QED BY <1>6, <4>2 DEF Takes
    <3>3. CASE p = d[Block(n) + 1] /\ o = Offset(n)
      <4>1. Author(w, {id}, p, o) = {id}
        BY <1>9, <3>3 DEF Author
      <4>2. z.seqs[id].table = d /\ z.seqs[id].length = n /\ id \in S
        BY <1>9
      <4>3. p \in HeldBy(z, id) /\ id \in DOMAIN z.seqs
        BY <3>3, <4>2, TargetFacts
      <4>4. Author(z, S, p, o) = {id}
        BY <3>3, <4>2, <4>3, AuthorHeld
      <4> QED BY <4>1, <4>4 DEF Cell
    <3>4. CASE ~(p = d[Block(n) + 1] /\ o = Offset(n))
      <4>1. Author(w, {id}, p, o) = {}
        BY <1>9, <3>4 DEF Author
      <4>2. Author(z, S, p, o) = Author(x, R, p, o)
        BY <1>9, <3>2, <3>4 DEF Author
      <4>3. Cell(w, {id}, p, o) = w.cells[p][o]
        BY <4>1 DEF Cell
      <4> QED BY <3>1, <4>2, <4>3 DEF Cell
    <3> QED BY <3>3, <3>4
  <2>2. v.cells = [p \in Pages |-> [o \in Offsets |-> Cell(w, {id}, p, o)]]
    BY DEF Landed
  <2>3. u.cells = [p \in Pages |-> [o \in Offsets |-> Cell(z, S, p, o)]]
    BY DEF Landed
  <2>4. \A p \in Pages : [o \in Offsets |-> Cell(w, {id}, p, o)]
                           = [o \in Offsets |-> Cell(z, S, p, o)]
    BY <2>1
  <2> QED BY <2>2, <2>3, <2>4, Zenon
<1>13. v.slots = u.slots
  <2>1. ASSUME NEW s \in Slots
        PROVE  w.slots[s] \o SetToSeq({q \in {id} : w.seqs[q].slot = s})
                 = z.slots[s] \o SetToSeq({q \in S : z.seqs[q].slot = s})
    <3>1. PICK X \in Seq(Ids), Y \in Seq(Ids) :
            X = x.slots[s] /\ X = z.slots[s] /\ Y = w.slots[s]
            /\ Y = X \o SetToSeq({q \in R : x.seqs[q].slot = s})
      <4>1. x.slots[s] \in Seq(Ids) /\ y.slots[s] \in Seq(Ids)
        BY <1>1, <1>2 DEF Sane
      <4> QED BY <1>6, <1>7, <4>1 DEF Takes, Landed
    <3>2. \A q \in R : /\ q # id /\ z.seqs[q] = x.seqs[q]
      <4> SUFFICES ASSUME NEW q \in R PROVE q # id /\ z.seqs[q] = x.seqs[q]
        OBVIOUS
      <4>1. PICK l, e : l = x.seqs[q].length /\ e = x.seqs[q].table
        OBVIOUS
      <4>2. q \in DOMAIN x.seqs
        BY <4>1, TargetFacts
      <4> QED BY <1>6, <4>2 DEF Takes
    <3>3. z.seqs[id].slot = slot /\ w.seqs[id].slot = slot
      BY <1>9
    <3>4. CASE s = slot
      <4>1. {q \in R : x.seqs[q].slot = s} = {}
        BY <1>1, <1>3, <3>4, FolderOf
      <4>2. id \in DOMAIN z.seqs /\ id \in S
        BY <1>1, <1>6 DEF Takes
      <4>3. {q \in S : z.seqs[q].slot = s} = {id}
        BY <3>3, <3>4, <4>2, FolderOf
      <4>4. {q \in {id} : w.seqs[q].slot = s} = {id}
        BY <3>3, <3>4
      <4>5. Y = X
        BY <3>1, <4>1, SetToSeqFew, ConcatEmptySeq
      <4> QED BY <3>1, <4>3, <4>4, <4>5
    <3>5. CASE s # slot
      <4>1. {q \in {id} : w.seqs[q].slot = s} = {}
        BY <3>3, <3>5
      <4>2. {q \in S : z.seqs[q].slot = s} = {q \in R : x.seqs[q].slot = s}
        BY <3>2, <3>3, <3>5
      <4>3. Y \o SetToSeq({}) = Y
        BY SetToSeqFew, ConcatEmptySeq
      <4> QED BY <3>1, <4>1, <4>2, <4>3
    <3> QED BY <3>4, <3>5
  <2>2. v.slots = [s \in Slots |->
                     w.slots[s] \o SetToSeq({q \in {id} : w.seqs[q].slot = s})]
    BY DEF Landed
  <2>3. u.slots = [s \in Slots |->
                     z.slots[s] \o SetToSeq({q \in S : z.seqs[q].slot = s})]
    BY DEF Landed
  <2> QED BY <2>1, <2>2, <2>3
<1>14. IsStore(v) /\ IsStore(u)
  BY DEF Landed
<1> QED BY <1>10, <1>11, <1>12, <1>13, <1>14, StoreEqual

-----------------------------------------------------------------------------
(* The fold of the library after some of the rows.                         *)
LEMMA UnfoldedGrown ==
  ASSUME NEW st, NEW rows, Admissible(st, rows), NEW it, Unfolded(st, rows, it)
  PROVE  \A s \in SUBSET DOMAIN rows : Grown(st, it[s], rows, s)
PROOF
<1>1. it[{}] = st
  BY DEF Unfolded
<1>2. ASSUME NEW s \in SUBSET DOMAIN rows, s # {}
      PROVE  \E i \in s :
               CanAcquire(it[s \ {i}].kv, Need(it[s \ {i}], rows[i]))
                 => it[s] = Ensured(it[s \ {i}], rows[i])
  <2>1. PICK i \in s : i = Max(s)
    BY <1>2, LatestPicks
  <2>2. it[s] = Ensured(it[s \ {i}], rows[i])
    BY <1>2, <2>1 DEF Unfolded
  <2> QED BY <2>2
<1> QED BY <1>1, <1>2, AllGrown

(* The fold of the rows one after the other, as the library unfolds it.    *)
SerialUnfolded(st, rows, it) ==
  it = [s \in SUBSET DOMAIN rows |->
          IF s = {} THEN st
          ELSE Forwarded(it[s \ {Max(s)}], <<rows[Max(s)]>>)]

(* What the rows at any places of the batch leave together.                *)
Together(rows, it) ==
  [s \in SUBSET DOMAIN rows |->
     Advanced(Written(it[s], At(rows, s)), At(rows, s))]

(* No row at all changes nothing.                                          *)
LEMMA NobodyLands ==
  ASSUME NEW st, Sane(st), NEW z, z = Advanced(Written(st, {}), {})
  PROVE  z = st
PROOF
<1>1. IsStore(st) /\ Held(st)
  BY DEF Sane
<1>2. PICK R : R = {} /\ Landed(st, R, z)
  BY <1>1, AdvancedLands
<1>3. z.seqs = st.seqs
  <2>1. ASSUME NEW q \in DOMAIN st.seqs PROVE z.seqs[q] = st.seqs[q]
    <3>1. PICK rec \in SequenceRecord : rec = st.seqs[q]
      BY <1>1 DEF Held
    <3>2. PICK slot, t, n :
            /\ rec = [slot |-> slot, table |-> t, length |-> n] /\ n \in Nat
            /\ slot = rec.slot /\ t = rec.table /\ n = rec.length
      <4>1. rec.length \in Nat
        BY DEF SequenceRecord
      <4>2. rec = [slot |-> rec.slot, table |-> rec.table, length |-> rec.length]
        BY DEF SequenceRecord
      <4> QED BY <4>1, <4>2
    <3>3. n = n + (IF q \in R THEN 1 ELSE 0)
      BY <1>2, <3>2
    <3>4. /\ slot = st.seqs[q].slot /\ t = st.seqs[q].table
          /\ n = st.seqs[q].length
      BY <3>1, <3>2
    <3>5. z.seqs[q] = [slot |-> slot, table |-> t, length |-> n]
      BY <1>2, <3>3, <3>4, LandedRow
    <3> QED BY <3>1, <3>2, <3>5
  <2>2. z.seqs = [q \in DOMAIN st.seqs |-> z.seqs[q]]
    BY <1>2 DEF Landed
  <2>3. st.seqs = [q \in DOMAIN st.seqs |-> st.seqs[q]]
    BY <1>1 DEF Held
  <2> QED BY <2>1, <2>2, <2>3
<1>4. z.cells = st.cells
  <2>1. z.cells = [p \in Pages |-> [o \in Offsets |-> Cell(st, R, p, o)]]
    BY <1>2 DEF Landed
  <2>2. \A p, o : Cell(st, R, p, o) = st.cells[p][o]
    BY <1>2 DEF Cell, Author
  <2>3. st.cells \in [Pages -> [Offsets -> Ids \cup {0}]]
    BY DEF Sane
  <2> QED BY <2>1, <2>2, <2>3
<1>5. z.slots = st.slots
  <2>1. z.slots = [s \in Slots |-> st.slots[s] \o
                     SetToSeq({id \in R : st.seqs[id].slot = s})]
    BY <1>2 DEF Landed
  <2>2. st.slots \in [Slots -> Seq(Ids)]
    BY DEF Sane
  <2>3. ASSUME NEW s \in Slots PROVE z.slots[s] = st.slots[s]
    <3>1. z.slots[s] = st.slots[s] \o SetToSeq({id \in R : st.seqs[id].slot = s})
      BY <2>1
    <3>2. {id \in R : st.seqs[id].slot = s} = {}
      BY <1>2
    <3>3. z.slots[s] = st.slots[s] \o SetToSeq({})
      BY <3>1, <3>2
    <3>4. st.slots[s] \in Seq(Ids)
      BY <2>2
    <3> QED BY <3>3, <3>4, SetToSeqFew, ConcatEmptySeq
  <2>4. z.slots = [s \in Slots |-> z.slots[s]]
    BY <2>1
  <2> QED BY <2>2, <2>3, <2>4
<1>6. z.kv = st.kv /\ IsStore(z)
  BY <1>2 DEF Landed
<1> QED BY <1>1, <1>3, <1>4, <1>5, <1>6, StoreEqual

(* One more row.                                                           *)
LEMMA TogetherOneMore ==
  ASSUME NEW st, Sane(st), NEW rows, Admissible(st, rows), NEW it,
         Unfolded(st, rows, it), NEW s \in SUBSET DOMAIN rows, s # {},
         NEW i \in s, i = Max(s)
  PROVE  Together(rows, it)[s]
           = Forwarded(Together(rows, it)[s \ {i}], <<rows[i]>>)
PROOF
<1>1. \A c \in SUBSET DOMAIN rows : Grown(st, it[c], rows, c)
  BY UnfoldedGrown
<1>2. PICK e : e = s \ {i} /\ e \in SUBSET DOMAIN rows
  OBVIOUS
<1>3. PICK R, S, x, z, id :
        /\ R = At(rows, e) /\ S = At(rows, s) /\ x = it[e] /\ z = it[s]
        /\ id = rows[i]
  OBVIOUS
<1>4. Ready(st, x, Part(rows, e), R) /\ Ready(st, z, Part(rows, s), S)
  BY <1>1, <1>2, <1>3, PartGrown
<1>5. id \in DOMAIN st.seqs /\ id \notin R /\ S = R \cup {id}
  BY <1>2, <1>3 DEF At, Admissible
<1>6. z = Ensured(x, id)
  BY <1>2, <1>3 DEF Unfolded
<1>7. PICK y, u : /\ y = Advanced(Written(x, R), R)
                  /\ u = Advanced(Written(z, S), S)
  OBVIOUS
<1>8. Landed(x, R, y) /\ Landed(z, S, u)
  <2>1. IsStore(x) /\ Held(x) /\ IsStore(z) /\ Held(z)
    BY <1>4 DEF Ready, Grown
  <2> QED BY <1>7, <2>1, AdvancedLands
<1>9. Sane(y) /\ IsStore(y) /\ Held(y)
  <2>1. Sane(y)
    BY <1>4, <1>8, LandedSane
  <2> QED BY <2>1 DEF Sane
<1>10. Admissible(y, <<id>>)
  <2>1. id \in DOMAIN x.seqs /\ CanAcquire(x.kv, Need(x, id))
    <3>1. Grown(st, x, rows, s \ {i}) /\ CanAcquire(x.kv, Need(x, id))
      BY <1>1, <1>2, <1>3, GrownByOne
    <3> QED BY <1>5, <3>1 DEF Grown
  <2>2. x.seqs[id] = st.seqs[id] /\ st.seqs[id].length < MaxSeqLen
    <3>1. \A j \in e : rows[j] # id
      BY <1>3, <1>5 DEF At
    <3>2. x.seqs[id] = st.seqs[id]
      BY <1>1, <1>2, <1>3, <1>5, <3>1 DEF Grown
    <3> QED BY <1>3, <3>2 DEF Admissible
  <2>3. PICK slot, t, n : /\ slot = x.seqs[id].slot /\ t = x.seqs[id].table
                          /\ n = x.seqs[id].length
    OBVIOUS
  <2>4. n \in Nat
    BY <1>4, <2>1, <2>3, HeldLength DEF Ready, Grown
  <2>5. n = n + (IF id \in R THEN 1 ELSE 0)
    BY <1>5, <2>4
  <2>6. y.seqs[id] = [slot |-> slot, table |-> t, length |-> n]
    BY <1>8, <2>1, <2>3, <2>5, LandedRow
  <2>7. y.seqs[id].table = t /\ y.seqs[id].length = n
    BY <2>6
  <2>8. y.kv = x.kv /\ DOMAIN y.seqs = DOMAIN x.seqs
    BY <1>8 DEF Landed
  <2>9. Need(y, id) = Need(x, id)
    BY <2>3, <2>7 DEF Need
  <2>10. CanAcquire(y.kv, Need(y, id))
    BY <2>1, <2>8, <2>9
  <2>11. y.seqs[id].length < MaxSeqLen /\ id \in DOMAIN y.seqs
    BY <2>1, <2>2, <2>3, <2>7, <2>8
  <2> QED BY <1>9, <2>10, <2>11, SingleAdmissible
<1>11. PICK w, v : w = Ensured(y, id) /\ v = Forwarded(y, <<id>>)
  OBVIOUS
<1>12. Landed(w, {id}, v)
  <2>1. FoldLeft(Ensured, y, <<id>>) = w
    BY <1>10, <1>11, SingleFold
  <2>2. ToSet(<<id>>) = {id}
    BY DEF ToSet
  <2>3. v = Advanced(Written(w, {id}), {id})
    BY <1>11, <2>1, <2>2 DEF Forwarded
  <2>4. IsStore(w) /\ Held(w)
    <3>1. Grown(y, w, <<id>>, DOMAIN <<id>>)
      BY <1>10, <2>1, FoldGrown
    <3> QED BY <3>1 DEF Grown
  <2> QED BY <2>3, <2>4, AdvancedLands
<1>13. v = u
  BY <1>4, <1>5, <1>6, <1>8, <1>11, <1>12, OneRowLater
<1>14. Together(rows, it)[s] = u /\ Together(rows, it)[e] = y
  BY <1>2, <1>3, <1>7 DEF Together
<1> QED BY <1>2, <1>3, <1>11, <1>13, <1>14

(* The rows one after the other, as RowParity and PreflightExact say it.   *)
Serial(st, rows) == FoldLeft(LAMBDA s, id : Forwarded(s, <<id>>), st, rows)

(* The batch and the rows one after the other leave the same.              *)
LEMMA OneByOne ==
  ASSUME NEW st, Sane(st), NEW rows, Admissible(st, rows)
  PROVE  Forwarded(st, rows) = Serial(st, rows)
PROOF
<1> DEFINE it == CHOOSE g : Unfolded(st, rows, g)
           serial == CHOOSE g : SerialUnfolded(st, rows, g)
<1>1. FoldLeft(Ensured, st, rows) = it[DOMAIN rows]
  BY DEF FoldLeft, MapThenFoldSet, Unfolded
<1>2. Unfolded(st, rows, it)
  BY FoldExists
<1>3. Serial(st, rows) = serial[DOMAIN rows]
  BY DEF Serial, FoldLeft, MapThenFoldSet, SerialUnfolded
<1> HIDE DEF it
<1>4. PICK both, D : both = Together(rows, it) /\ D = DOMAIN rows
  OBVIOUS
<1>5. both[{}] = st
  <2>1. it[{}] = st /\ At(rows, {}) = {}
    BY <1>2 DEF Unfolded, At
  <2>2. {} \in SUBSET DOMAIN rows
    OBVIOUS
  <2>3. both[{}] = Advanced(Written(st, {}), {})
    BY <1>4, <2>1, <2>2 DEF Together
  <2> QED BY <2>3, NobodyLands
<1>6. ASSUME NEW s \in SUBSET D, s # {}
      PROVE  /\ Max(s) \in s
             /\ both[s] = Forwarded(both[s \ {Max(s)}], <<rows[Max(s)]>>)
  <2>1. PICK i \in s : i = Max(s)
    BY <1>4, <1>6, LatestPicks
  <2>2. both[s] = Forwarded(both[s \ {i}], <<rows[i]>>)
    BY <1>2, <1>4, <1>6, <2>1, TogetherOneMore
  <2> QED BY <2>1, <2>2
<1>7. SerialUnfolded(st, rows, both)
  <2>1. both = [s \in SUBSET D |-> both[s]]
    BY <1>4 DEF Together
  <2>2. both = [s \in SUBSET D |->
                  IF s = {} THEN st
                  ELSE Forwarded(both[s \ {Max(s)}], <<rows[Max(s)]>>)]
    BY <1>5, <1>6, <2>1
  <2> QED BY <1>4, <2>2 DEF SerialUnfolded
<1>8. SerialUnfolded(st, rows, serial)
  BY <1>7
<1> HIDE DEF serial
<1>9. serial[D] = both[D]
  <2>1. PICK Bad : Bad = {s \in SUBSET D : serial[s] # both[s]}
    OBVIOUS
  <2>2. D \in SUBSET D
    OBVIOUS
  <2> SUFFICES ASSUME Bad # {} PROVE FALSE
    BY <2>1, <2>2
  <2>3. Bad \in SUBSET (SUBSET D) /\ IsFiniteSet(D)
    BY <1>4, <2>1 DEF Admissible
  <2>4. PICK s \in Bad : \A U \in Bad : U \subseteq s => U = s
    BY <2>3, SmallestSet
  <2>5. s \in SUBSET D /\ serial[s] # both[s]
    BY <2>1
  <2>6. serial[{}] = st
    BY <1>8 DEF SerialUnfolded
  <2>7. s # {}
    BY <1>5, <2>5, <2>6
  <2>8. PICK i \in s : i = Max(s)
    BY <1>6, <2>5, <2>7
  <2>9. serial[s \ {i}] = both[s \ {i}]
    <3>1. s \ {i} \in SUBSET D /\ s \ {i} # s /\ s \ {i} \subseteq s
      BY <2>5
    <3> QED BY <2>1, <2>4, <3>1
  <2>10. serial[s] = Forwarded(serial[s \ {i}], <<rows[i]>>)
    BY <1>4, <1>8, <2>5, <2>7, <2>8 DEF SerialUnfolded
  <2>11. both[s] = Forwarded(both[s \ {i}], <<rows[i]>>)
    BY <1>6, <2>5, <2>7, <2>8
  <2> QED BY <2>5, <2>9, <2>10, <2>11
<1>10. both[D] = Forwarded(st, rows)
  <2>1. At(rows, D) = ToSet(rows)
    BY <1>4 DEF At, ToSet
  <2>2. D \in SUBSET DOMAIN rows
    BY <1>4
  <2>3. both[D] = Advanced(Written(it[D], ToSet(rows)), ToSet(rows))
    BY <1>4, <2>1, <2>2 DEF Together
  <2> QED BY <1>1, <1>4, <2>3 DEF Forwarded
<1> QED BY <1>3, <1>4, <1>9, <1>10

(* Parity, for whatever rows pass the preflight.                           *)
LEMMA InvIsParity == Inv => RowParity
PROOF
<1> SUFFICES ASSUME Inv, NEW rows \in Batches, Preflight(rows)
             PROVE  Forwarded(Store, rows)
                      = FoldLeft(LAMBDA st, id : Forwarded(st, <<id>>),
                                 Store, rows)
  BY DEF RowParity
<1>1. Sane(Store)
  BY InvIsSane
<1>2. Admissible(Store, rows)
  BY BatchAdmissible
<1>3. Forwarded(Store, rows) = Serial(Store, rows)
  BY <1>1, <1>2, OneByOne
<1> QED BY <1>3 DEF Serial

-----------------------------------------------------------------------------
(* What the rows leave of the pool, and of a sequence that is not a row.   *)
LEMMA ForwardedLeaves ==
  ASSUME NEW st, Sane(st), NEW rows, Admissible(st, rows),
         NEW z, z = Forwarded(st, rows),
         NEW id \in DOMAIN st.seqs, \A i \in DOMAIN rows : rows[i] # id
  PROVE  /\ Len(z.kv.free) = Len(st.kv.free)
              - SumFunctionOnSet(Needs(st, rows), DOMAIN rows)
         /\ Need(z, id) = Need(st, id)
PROOF
<1>1. PICK x, S : x = FoldLeft(Ensured, st, rows) /\ S = ToSet(rows)
  OBVIOUS
<1>2. Grown(st, x, rows, DOMAIN rows)
  BY <1>1, FoldGrown
<1>3. IsStore(x) /\ Held(x) /\ id \in DOMAIN x.seqs /\ x.seqs[id] = st.seqs[id]
  BY <1>2 DEF Grown
<1>4. Landed(x, S, z)
  BY <1>1, <1>3, ForwardedLands
<1>5. PICK slot, t, n : /\ slot = x.seqs[id].slot /\ t = x.seqs[id].table
                        /\ n = x.seqs[id].length
  OBVIOUS
<1>6. n = n + (IF id \in S THEN 1 ELSE 0)
  <2>1. n \in Nat
    BY <1>3, <1>5, HeldLength
  <2>2. id \notin S
    BY <1>1 DEF ToSet
  <2> QED BY <2>1, <2>2
<1>7. z.seqs[id] = [slot |-> slot, table |-> t, length |-> n]
  BY <1>3, <1>4, <1>5, <1>6, LandedRow
<1>8. z.seqs[id].table = t /\ z.seqs[id].length = n
  BY <1>7
<1>9. Need(z, id) = Need(st, id)
  BY <1>3, <1>5, <1>8 DEF Need
<1>10. Len(z.kv.free) = Len(st.kv.free)
                          - SumFunctionOnSet(Needs(st, rows), DOMAIN rows)
  BY <1>2, <1>4 DEF Grown, Landed
<1> QED BY <1>9, <1>10

(* The rows that are forwarded before the k-th.                            *)
Before(rows, k) == SubSeq(rows, 1, k - 1)

(* The rows before the k-th are a part of the batch.                       *)
LEMMA BeforeIsPart ==
  ASSUME NEW n \in Nat, NEW rows \in [1..n -> Ids], NEW k \in 1..n
  PROVE  Before(rows, k) = Part(rows, 1..k - 1)
PROOF
<1>1. rows \in Seq(Ids) /\ Len(rows) = n
  OBVIOUS
<1>2. \A i \in 1..k - 1 : i \in 1..n
  OBVIOUS
<1> QED BY <1>1, <1>2 DEF Before, Part

(* The k-th row finds its page after those before it exactly when the      *)
(* first k together find theirs.                                           *)
LEMMA NextFits ==
  ASSUME NEW st, Sane(st), NEW n \in Nat, NEW rows \in [1..n -> Ids],
         Eligible(st, rows), NEW k \in 1..n, NEW y, y = Serial(st, Before(rows, k)),
         SumFunctionOnSet(Needs(st, rows), 1..k - 1) <= Len(st.kv.free)
  PROVE  CanAcquire(y.kv, Need(y, rows[k]))
           <=> SumFunctionOnSet(Needs(st, rows), 1..k) <= Len(st.kv.free)
PROOF
<1>1. PICK part, before, id, f :
        /\ part = Before(rows, k) /\ part = Part(rows, before)
        /\ before = 1..k - 1 /\ id = rows[k] /\ f = Needs(st, rows)
  BY BeforeIsPart
<1>2. before \in SUBSET DOMAIN rows /\ k \in DOMAIN rows /\ k \notin before
      /\ 1..k \in SUBSET DOMAIN rows /\ (1..k) \ {k} = before
  BY <1>1
<1>3. /\ Admissible(st, part) /\ DOMAIN part = before
      /\ SumFunctionOnSet(Needs(st, part), before) = SumFunctionOnSet(f, before)
  BY <1>1, <1>2, PartAdmissible
<1>4. y = Forwarded(st, part)
  BY <1>1, <1>3, OneByOne
<1>5. id \in DOMAIN st.seqs /\ \A i \in DOMAIN part : part[i] # id
  BY <1>1, <1>2, <1>3 DEF Eligible, Part
<1>6. /\ Len(y.kv.free) = Len(st.kv.free) - SumFunctionOnSet(f, before)
      /\ Need(y, id) = Need(st, id)
  BY <1>3, <1>4, <1>5, ForwardedLeaves
<1>7. f[k] \in Nat /\ f[k] = Need(st, id) /\ \A i \in DOMAIN rows : f[i] \in Nat
  BY <1>1, <1>2, EligibleNeeds
<1>8. IsFiniteSet(1..k) /\ IsFiniteSet(before)
  BY <1>2, FS_Subset DEF Eligible
<1>9. SumFunctionOnSet(f, 1..k) = f[k] + SumFunctionOnSet(f, before)
      /\ SumFunctionOnSet(f, before) \in Nat
  <2>1. \A i \in 1..k : f[i] \in Nat
    BY <1>2, <1>7
  <2>2. \A i \in before : f[i] \in Nat
    BY <1>2, <1>7
  <2>3. SumFunctionOnSet(f, 1..k) = f[k] + SumFunctionOnSet(f, (1..k) \ {k})
    <3>1. PICK T : T = 1..k /\ k \in T
      OBVIOUS
    <3>2. IsFiniteSet(T) /\ \A i \in T : f[i] \in Nat
      BY <1>8, <2>1, <3>1
    <3>3. SumFunctionOnSet(f, T) = f[k] + SumFunctionOnSet(f, T \ {k})
      BY <3>1, <3>2, SumOfNaturals
    <3> QED BY <3>1, <3>3
  <2>4. SumFunctionOnSet(f, before) \in Nat
    BY <1>8, <2>2, SumOfNaturals
  <2> QED BY <1>2, <2>3, <2>4
<1>10. Len(st.kv.free) \in Nat
  BY DEF Eligible, Held, Partitioned
<1>11. PICK free \in Nat, sum \in Nat, m \in Nat :
         free = Len(st.kv.free) /\ sum = SumFunctionOnSet(f, before) /\ m = f[k]
  BY <1>7, <1>9, <1>10
<1>12. CanAcquire(y.kv, Need(y, id)) <=> free - sum >= m
  BY <1>6, <1>7, <1>11 DEF CanAcquire
<1>13. SumFunctionOnSet(f, 1..k) = m + sum
  BY <1>9, <1>11
<1> QED BY <1>1, <1>11, <1>12, <1>13

(* The preflight's sum fits exactly when every row finds its page in turn. *)
LEMMA AllFit ==
  ASSUME NEW st, Sane(st), NEW n \in Nat, NEW rows \in [1..n -> Ids],
         Eligible(st, rows)
  PROVE  SumFunctionOnSet(Needs(st, rows), 1..n) <= Len(st.kv.free)
           <=> \A k \in 1..n :
                 LET y == Serial(st, Before(rows, k))
                 IN  CanAcquire(y.kv, Need(y, rows[k]))
PROOF
<1>1. PICK f, free : f = Needs(st, rows) /\ free = Len(st.kv.free)
  OBVIOUS
<1> DEFINE Sum(k) == SumFunctionOnSet(f, 1..k)
<1>2. free \in Nat
  BY <1>1 DEF Eligible, Held, Partitioned
<1>3. DOMAIN rows = 1..n /\ IsFiniteSet(1..n)
  BY DEF Eligible
<1>4. \A i \in 1..n : f[i] \in Nat
  BY <1>1, <1>3, EligibleNeeds
<1>5. ASSUME NEW k \in 0..n PROVE Sum(k) \in Nat /\ Sum(k) <= Sum(n)
  <2>1. 1..k \in SUBSET (1..n)
    OBVIOUS
  <2>2. IsFiniteSet(1..k) /\ \A i \in 1..k : f[i] \in Nat
    BY <1>3, <1>4, <2>1, FS_Subset
  <2>3. Sum(k) \in Nat
    BY <2>2, SumOfNaturals
  <2>4. Sum(k) <= Sum(n)
    BY <1>3, <1>4, <2>1, SumOfPart
  <2> QED BY <2>3, <2>4
<1>6. ASSUME NEW k \in 1..n, Sum(k - 1) <= free,
             NEW y, y = Serial(st, Before(rows, k))
      PROVE  CanAcquire(y.kv, Need(y, rows[k])) <=> Sum(k) <= free
  BY <1>1, <1>6, NextFits
<1>7. ASSUME Sum(n) <= free, NEW k \in 1..n,
             NEW y, y = Serial(st, Before(rows, k))
      PROVE  CanAcquire(y.kv, Need(y, rows[k]))
  <2>1. k \in 0..n /\ k - 1 \in 0..n /\ n \in 0..n
    OBVIOUS
  <2>2. Sum(k) \in Nat /\ Sum(k) <= Sum(n) /\ Sum(k - 1) \in Nat
        /\ Sum(k - 1) <= Sum(n) /\ Sum(n) \in Nat
    BY <1>5, <2>1
  <2>3. Sum(k) <= free /\ Sum(k - 1) <= free
    <3> HIDE DEF Sum
    <3> QED BY <1>2, <1>7, <2>2
  <2> QED BY <1>6, <1>7, <2>3
<1>8. ASSUME \A k \in 1..n : LET y == Serial(st, Before(rows, k))
                            IN  CanAcquire(y.kv, Need(y, rows[k]))
      PROVE  Sum(n) <= free
  <2>1. PICK Bad : Bad = {c \in SUBSET (1..n) :
                            \E k \in 0..n : c = 1..k /\ ~(Sum(k) <= free)}
    OBVIOUS
  <2>2. n \in 0..n /\ 1..n \in SUBSET (1..n)
    OBVIOUS
  <2> SUFFICES ASSUME Bad # {} PROVE FALSE
    BY <2>1, <2>2
  <2>3. PICK T : T = 1..n /\ IsFiniteSet(T) /\ Bad \in SUBSET (SUBSET T)
    BY <1>3, <2>1
  <2>4. PICK c \in Bad : \A e \in Bad : e \subseteq c => e = c
    <3>1. IsFiniteSet(T) /\ Bad \in SUBSET (SUBSET T) /\ Bad # {}
      BY <2>3
    <3> HIDE DEF Sum
    <3> QED BY <3>1, SmallestSet
  <2>5. PICK k \in 0..n : c = 1..k /\ ~(Sum(k) <= free)
    BY <2>1
  <2>6. k # 0
    <3>1. Sum(0) = 0
      <4>1. 1..0 = {} /\ IsFiniteSet({}) /\ \A i \in {} : f[i] \in Nat
        BY FS_EmptySet
      <4> QED BY <4>1, SumOfNaturals
    <3> HIDE DEF Sum
    <3> QED BY <1>2, <2>5, <3>1
  <2>7. Sum(k - 1) <= free
    <3>1. k - 1 \in 0..n /\ 1..k - 1 \in SUBSET (1..n)
          /\ 1..k - 1 \subseteq c /\ 1..k - 1 # c
      BY <2>5, <2>6
    <3> HIDE DEF Sum
    <3> QED BY <2>1, <2>4, <3>1
  <2>8. k \in 1..n
    BY <2>6
  <2>9. PICK y : y = Serial(st, Before(rows, k))
    OBVIOUS
  <2>10. CanAcquire(y.kv, Need(y, rows[k]))
    BY <1>8, <2>8, <2>9
  <2> QED BY <1>6, <2>5, <2>7, <2>8, <2>9, <2>10
<1> QED BY <1>1, <1>7, <1>8

(* The same of the store of the state.                                     *)
LEMMA InvIsExact == Inv => PreflightExact
PROOF
<1> SUFFICES ASSUME Inv, NEW rows \in Batches, IsInjective(rows),
                    \A i \in DOMAIN rows : InRange(Store, rows[i])
             PROVE  CanAcquire(kv, BatchNeed(rows))
                      <=> \A i \in DOMAIN rows :
                            LET st == FoldLeft(
                                        LAMBDA s, id : Forwarded(s, <<id>>),
                                        Store, SubSeq(rows, 1, i - 1))
                            IN  CanAcquire(st.kv, Need(st, rows[i]))
  BY DEF PreflightExact
<1>1. Sane(Store) /\ IsStore(Store) /\ Held(Store)
  BY InvIsSane DEF Sane
<1>2. PICK n \in Nat : rows \in [1..n -> Ids]
  BY DEF Batches
<1>3. IsFiniteSet(DOMAIN rows) /\ \A i \in DOMAIN rows : i \in Nat
  BY BatchFacts
<1>4. Eligible(Store, rows)
  BY <1>1, <1>3 DEF Eligible, InRange, IsInjective
<1>5. BatchNeed(rows) = SumFunctionOnSet(Needs(Store, rows), 1..n)
  <2>1. \A i \in DOMAIN rows : i \in Nat /\ Need(Store, rows[i]) \in Nat
    BY <1>3, <1>4, EligibleNeeds
  <2> QED BY <1>2, <1>3, <2>1, BatchNeedIsSum
<1>6. CanAcquire(kv, BatchNeed(rows))
        <=> SumFunctionOnSet(Needs(Store, rows), 1..n) <= Len(Store.kv.free)
  <2>1. SumFunctionOnSet(Needs(Store, rows), 1..n) \in Nat
    <3>1. IsFiniteSet(1..n) /\ \A i \in 1..n : Needs(Store, rows)[i] \in Nat
      BY <1>2, <1>3, <1>4, EligibleNeeds
    <3> QED BY <3>1, SumOfNaturals
  <2>2. Len(kv.free) \in Nat /\ Store.kv = kv
    BY <1>1 DEF Held, Partitioned, Store
  <2> QED BY <1>5, <2>1, <2>2 DEF CanAcquire
<1> QED BY <1>1, <1>2, <1>4, <1>6, AllFit DEF Serial, Before

(* Batched or one after the other, the same state, and the preflight turns *)
(* away exactly the batches that would not go through one after the other. *)
THEOREM ForwardInParity == ForwardSpec => []RowsInParity
PROOF
<1>1. Inv => RowsInParity
  BY InvIsParity, InvIsExact DEF RowsInParity
<1> QED BY <1>1, ForwardInvariant, PTL
=============================================================================
