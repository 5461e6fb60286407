---------------------------- MODULE StateManager ----------------------------
(***************************************************************************)
(* Qwen35StateManager over its two device pools: the KV page pool and the  *)
(* DeltaNet slot pool, the live sequences with their block tables, and the *)
(* contents of pages and slots.  Contents are abstracted to authorship: a  *)
(* KV cell holds the id of the sequence that wrote it (0 when zeroed), a   *)
(* slot holds the sequence of the authors of the tokens folded into the    *)
(* recurrent state since it was last zeroed.                               *)
(***************************************************************************)
EXTENDS IdPool, SequencesExt

CONSTANTS
  MaxSeqLen,           \* Qwen35Config::max_seq_len
  PageTokens,          \* tokens per KV page
  KvPages,             \* capacity of the KV page pool
  DeltaSlots,          \* capacity of the DeltaNet slot pool
  MaxId                \* bound on the ids ever issued

ASSUME ConstantsAssumption ==
  /\ MaxSeqLen \in Nat \ {0}
  /\ PageTokens \in Nat \ {0}
  /\ KvPages \in Nat
  /\ DeltaSlots \in Nat
  /\ MaxId \in Nat

VARIABLES
  kv,                  \* ids_ of the KV page pool
  delta,               \* ids_ of the DeltaNet slot pool
  sequences,           \* live id -> [slot, table, length]
  next_id,             \* the next id to be issued
  kvData,              \* page -> offset -> author of the cell, or 0
  deltaData            \* slot -> authors of the tokens it has absorbed

pools == <<kv, delta>>
contents == <<kvData, deltaData>>
vars == <<kv, delta, sequences, next_id, kvData, deltaData>>

Pages == 0..KvPages - 1
Slots == 0..DeltaSlots - 1
Offsets == 0..PageTokens - 1
Ids == 1..MaxId
Live == DOMAIN sequences
\* bound on the tokens folded into a slot (SetLength can rewind a sequence)
MaxFolded == MaxSeqLen

Block(position) == position \div PageTokens
Offset(position) == position % PageTokens

ZeroPage == [o \in Offsets |-> 0]

Init ==
  /\ kv = NewPool(KvPages)
  /\ delta = NewPool(DeltaSlots)
  /\ sequences = <<>>
  /\ next_id = 1
  /\ kvData = [p \in Pages |-> ZeroPage]
  /\ deltaData = [s \in Slots |-> <<>>]

-----------------------------------------------------------------------------
(* Mutant of ZeroedPages: free_page() does not zero.                       *)
UnzeroedPages(ids) == kvData

(* free_page() zeroes each page before its id goes back to the pool.       *)
ZeroedPages(ids) ==
  [p \in Pages |-> IF p \in Range(ids) THEN ZeroPage ELSE kvData[p]]

(* The blocks ensure_capacity(position) still has to allocate.             *)
Missing(table, position) ==
  LET more == Block(position) + 1 - Len(table)
  IN  IF more > 0 THEN more ELSE 0

(* All the tail pages are acquired, then appended to the table.            *)
GrowTable(id, position) ==
  LET table == sequences[id].table
      n == Missing(table, position)
  IN  /\ CanAcquire(kv, n)
      /\ kv' = AfterAcquire(kv, n)
      /\ sequences' = [sequences EXCEPT ![id].table = @ \o Acquired(kv, n)]
      /\ UNCHANGED kvData

(* Mutant of RollBack: what was acquired before the failure is kept.       *)
RollBackLeaking(id, position) ==
  /\ ~CanAcquire(kv, Missing(sequences[id].table, position))
  /\ kv' = AfterAcquire(kv, Len(kv.free))
  /\ UNCHANGED <<sequences, kvData>>

(* Out of pages: what this call acquired, all that was free, is released   *)
(* in reverse, zeroed on the way; the table is untouched.                  *)
RollBack(id, position) ==
  LET n == Len(kv.free)
      undone == Reverse(Acquired(kv, n))
  IN  /\ ~CanAcquire(kv, Missing(sequences[id].table, position))
      /\ kv' = AfterRelease(AfterAcquire(kv, n), undone)
      /\ kvData' = ZeroedPages(undone)
      /\ UNCHANGED sequences

Fresh(slot) == [slot |-> slot, table |-> <<>>, length |-> 0]

(* Slot first; when none is free nothing is registered and no id issued.   *)
CreateSequence ==
  /\ next_id <= MaxId
  /\ CanAcquire(delta, 1)
  /\ delta' = AfterAcquire(delta, 1)
  /\ sequences' = [q \in Live \cup {next_id} |->
                     IF q = next_id THEN Fresh(Acquired(delta, 1)[1])
                     ELSE sequences[q]]
  /\ next_id' = next_id + 1
  /\ UNCHANGED <<kv, contents>>

EnsureKvCapacity(id, position) ==
  /\ id \in Live
  /\ position \in 0..MaxSeqLen - 1
  /\ GrowTable(id, position) \/ RollBack(id, position)
  /\ UNCHANGED <<delta, next_id, deltaData>>

(* Mutant of SetLength: no upper bound.                                    *)
SetLengthUnbounded(id, new_length) ==
  /\ id \in Live
  /\ new_length >= 0
  /\ sequences' = [sequences EXCEPT ![id].length = new_length]
  /\ UNCHANGED <<pools, next_id, contents>>

(* Metadata only; shrinking keeps the pages. *)
SetLength(id, new_length) ==
  /\ id \in Live
  /\ new_length \in 0..MaxSeqLen
  /\ sequences' = [sequences EXCEPT ![id].length = new_length]
  /\ UNCHANGED <<pools, next_id, contents>>

Advance(id, n_tokens) ==
  /\ id \in Live
  /\ n_tokens >= 0
  /\ sequences[id].length + n_tokens <= MaxSeqLen
  /\ sequences' = [sequences EXCEPT ![id].length = @ + n_tokens]
  /\ UNCHANGED <<pools, next_id, contents>>

(* The layers write token position `length` through the table and fold it  *)
(* into the slot; the caller has ensured the block.                        *)
WriteToken(id) ==
  LET rec == sequences[id]
      block == Block(rec.length)
  IN  /\ id \in Live
      /\ rec.length < MaxSeqLen
      /\ block < Len(rec.table)
      /\ Len(deltaData[rec.slot]) < MaxFolded
      /\ kvData' = [kvData EXCEPT ![rec.table[block + 1]]
                                  [Offset(rec.length)] = id]
      /\ deltaData' = [deltaData EXCEPT ![rec.slot] = Append(@, id)]
      /\ UNCHANGED <<pools, sequences, next_id>>

(* KvBlockTable::clear: every page of the table, in block order.           *)
ClearTable(id) ==
  /\ kv' = AfterRelease(kv, sequences[id].table)
  /\ kvData' = ZeroedPages(sequences[id].table)

(* Mutant of ResetSequence: the released pages stay in the table.          *)
ResetSequenceKeepingTable(id) ==
  /\ id \in Live
  /\ ClearTable(id)
  /\ deltaData' = [deltaData EXCEPT ![sequences[id].slot] = <<>>]
  /\ sequences' = [sequences EXCEPT ![id].length = 0]
  /\ UNCHANGED <<delta, next_id>>

(* Mutant of ResetSequence: the slot is not zeroed.                        *)
ResetSequenceDirtySlot(id) ==
  /\ id \in Live
  /\ ClearTable(id)
  /\ sequences' = [sequences EXCEPT ![id].table = <<>>, ![id].length = 0]
  /\ UNCHANGED <<delta, next_id, deltaData>>

(* The sequence stays live under its id and in its slot, zeroed in place.  *)
ResetSequence(id) ==
  /\ id \in Live
  /\ ClearTable(id)
  /\ deltaData' = [deltaData EXCEPT ![sequences[id].slot] = <<>>]
  /\ sequences' = [sequences EXCEPT ![id] = Fresh(@.slot)]
  /\ UNCHANGED <<delta, next_id>>

(* Pages, then slot, zeroed and released; the record is erased.            *)
RetireSequence(id) ==
  /\ id \in Live
  /\ ClearTable(id)
  /\ delta' = AfterRelease(delta, <<sequences[id].slot>>)
  /\ deltaData' = [deltaData EXCEPT ![sequences[id].slot] = <<>>]
  /\ sequences' = Restrict(sequences, Live \ {id})
  /\ UNCHANGED next_id

Next ==
  \/ CreateSequence
  \/ \E id \in Ids :
       \/ \E position \in -1..MaxSeqLen : EnsureKvCapacity(id, position)
       \/ \E n \in -1..MaxSeqLen + 1 : SetLength(id, n) \/ Advance(id, n)
       \/ WriteToken(id)
       \/ ResetSequence(id)
       \/ RetireSequence(id)

Spec == Init /\ [][Next]_vars

-----------------------------------------------------------------------------
SequenceRecord ==
  [slot : Slots, table : Seq(Pages), length : 0..MaxSeqLen]

TypeOK ==
  /\ kv \in [free : Seq(Pages), live : SUBSET Pages]
  /\ delta \in [free : Seq(Slots), live : SUBSET Slots]
  /\ Live \subseteq 1..next_id - 1
  /\ sequences \in [Live -> SequenceRecord]
  /\ next_id \in 1..MaxId + 1
  /\ kvData \in [Pages -> [Offsets -> Ids \cup {0}]]
  /\ deltaData \in [Slots -> Seq(Ids)]

(* Both pools account for every id exactly.                                *)
PoolsExact ==
  /\ Partitioned(kv, KvPages)
  /\ Partitioned(delta, DeltaSlots)

(* No page backs two blocks, of one sequence or of two, and no slot serves *)
(* two sequences.                                                          *)
NoAliasing ==
  /\ \A q \in Live : IsInjective(sequences[q].table)
  /\ \A q, r \in Live : q # r =>
       /\ Range(sequences[q].table) \cap Range(sequences[r].table) = {}
       /\ sequences[q].slot # sequences[r].slot

(* What is live in a pool is what the live sequences hold: a failed        *)
(* ensure, a reset or a retire leaks nothing and frees nothing in use.     *)
NoLeak ==
  /\ kv.live = UNION {Range(sequences[q].table) : q \in Live}
  /\ delta.live = {sequences[q].slot : q \in Live}

(* A page holds only what its current owner wrote, a slot only tokens of   *)
(* its owner, and what is free is zero: a recycled page or slot shows the  *)
(* next sequence nothing of the last one.                                  *)
Isolation ==
  /\ \A q \in Live :
       /\ \A p \in Range(sequences[q].table) : Range(kvData[p]) \subseteq {0, q}
       /\ Range(deltaData[sequences[q].slot]) \subseteq {q}
  /\ \A p \in Pages \ kv.live : kvData[p] = ZeroPage
  /\ \A s \in Slots \ delta.live : deltaData[s] = <<>>

=============================================================================
