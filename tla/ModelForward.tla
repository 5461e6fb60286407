---------------------------- MODULE ModelForward ----------------------------
(***************************************************************************)
(* The external-state forward of Qwen35Model over the state manager: one   *)
(* token of one sequence, or one token of each row of a batch.  Only these *)
(* two grow tables and advance lengths in the runtime.                     *)
(***************************************************************************)
EXTENDS StateManager

CONSTANT MaxBatch      \* rows of a batch

ASSUME MaxBatchAssumption == MaxBatch \in Nat \ {0}

(* The state a forward works on, as a value. *)
Store == [kv |-> kv, seqs |-> sequences, cells |-> kvData, slots |-> deltaData]

Need(st, id) == Missing(st.seqs[id].table, st.seqs[id].length)

(* ensure_kv_capacity at the sequence's length.                            *)
Ensured(st, id) ==
  LET n == Need(st, id)
  IN  [st EXCEPT !.kv = AfterAcquire(@, n),
                 !.seqs[id].table = @ \o Acquired(st.kv, n)]

(* The layers of every row: each row addresses its own table and slot.     *)
Author(st, rows, p, o) ==
  {id \in rows : LET rec == st.seqs[id]
                 IN  /\ p = rec.table[Block(rec.length) + 1]
                     /\ o = Offset(rec.length)}

(* Mutant of Written: every row is written at the position of one row.     *)
WrittenAtOnePosition(st, rows) ==
  LET first == CHOOSE id \in rows : \A r \in rows : id <= r
      pos == st.seqs[first].length
  IN  [st EXCEPT
         !.cells = [p \in Pages |-> [o \in Offsets |->
           IF \E id \in rows : /\ Block(pos) < Len(st.seqs[id].table)
                              /\ p = st.seqs[id].table[Block(pos) + 1]
                              /\ o = Offset(pos)
           THEN CHOOSE id \in rows : /\ Block(pos) < Len(st.seqs[id].table)
                                     /\ p = st.seqs[id].table[Block(pos) + 1]
           ELSE st.cells[p][o]]],
         !.slots = [s \in Slots |-> st.slots[s] \o
                      SetToSeq({id \in rows : st.seqs[id].slot = s})]]

Written(st, rows) ==
  [st EXCEPT
     !.cells = [p \in Pages |-> [o \in Offsets |->
                  IF Author(st, rows, p, o) # {}
                  THEN CHOOSE id \in Author(st, rows, p, o) : TRUE
                  ELSE st.cells[p][o]]],
     !.slots = [s \in Slots |-> st.slots[s] \o
                  SetToSeq({id \in rows : st.seqs[id].slot = s})]]

Advanced(st, rows) ==
  LET further == [id \in DOMAIN st.seqs |->
                    [st.seqs[id] EXCEPT !.length =
                       @ + IF id \in rows THEN 1 ELSE 0]]
  IN  [st EXCEPT !.seqs = further]

(* Ensure every row in order, then the layers, then advance every row.     *)
Forwarded(st, rows) ==
  LET ensured == FoldLeft(Ensured, st, rows)
  IN  Advanced(Written(ensured, ToSet(rows)), ToSet(rows))

Becomes(st) ==
  /\ kv' = st.kv
  /\ sequences' = st.seqs
  /\ kvData' = st.cells
  /\ deltaData' = st.slots
  /\ UNCHANGED <<delta, next_id>>

(* Mutant of InRange: the gate lets one token too many pass.               *)
InRangeInclusive(st, id) ==
  id \in DOMAIN st.seqs /\ st.seqs[id].length <= MaxSeqLen

InRange(st, id) == id \in DOMAIN st.seqs /\ st.seqs[id].length < MaxSeqLen

(* Without a page for the position ensure_kv_capacity rolls back and the   *)
(* forward stops there: no layer runs, the length stays.                   *)
ForwardToken(id) ==
  /\ InRange(Store, id)
  /\ \/ /\ CanAcquire(kv, Need(Store, id))
        /\ Becomes(Forwarded(Store, <<id>>))
     \/ /\ RollBack(id, sequences[id].length)
        /\ UNCHANGED <<delta, next_id, deltaData>>

(* Every row is checked, and the pages of all rows together against the    *)
(* free ones, before anything is allocated; a batch that fails a check     *)
(* changes nothing.                                                        *)
BatchNeed(rows) ==
  FoldLeft(LAMBDA n, id : n + Need(Store, id), 0, rows)

Preflight(rows) ==
  /\ \A i \in DOMAIN rows : InRange(Store, rows[i])
  /\ IsInjective(rows)
  /\ CanAcquire(kv, BatchNeed(rows))

ForwardBatch(rows) ==
  /\ Preflight(rows)
  /\ Becomes(Forwarded(Store, rows))

Batches == UNION {[1..n -> Ids] : n \in 1..MaxBatch}

ForwardNext ==
  \/ CreateSequence
  \/ \E id \in Ids : ForwardToken(id) \/ ResetSequence(id) \/ RetireSequence(id)
  \/ \E rows \in Batches : ForwardBatch(rows)

ForwardSpec == Init /\ [][ForwardNext]_vars

-----------------------------------------------------------------------------
(* The store the layers above see is implemented.                          *)
Abstract ==
  INSTANCE SequenceStore WITH len <- [q \in Live |-> sequences[q].length]
ImplementsStore == Abstract!StoreSpec

(* The state of every sequence is exactly that of its own tokens since it  *)
(* was created or reset: its slot has absorbed `length` tokens, positions  *)
(* below `length` are written and no other cell is, and its table has the  *)
(* pages for `length` tokens and no more.  So the lengths alone tell what  *)
(* is free.                                                                *)
Coherent ==
  /\ \A q \in Live :
       LET rec == sequences[q] IN
       /\ deltaData[rec.slot] = [i \in 1..rec.length |-> q]
       /\ Len(rec.table) = (rec.length + PageTokens - 1) \div PageTokens
       /\ \A position \in 0..Len(rec.table) * PageTokens - 1 :
            kvData[rec.table[Block(position) + 1]][Offset(position)] =
              IF position < rec.length THEN q ELSE 0
  /\ KvPages - Abstract!UsedPages = Len(kv.free)
  /\ Abstract!CanCreate <=> CanAcquire(delta, 1)

(* A batch leaves exactly the state its rows forwarded one after the other *)
(* would leave: the same pages, contents and lengths ("row parity").       *)
RowParity ==
  \A rows \in Batches : Preflight(rows) =>
    Forwarded(Store, rows) =
      FoldLeft(LAMBDA st, id : Forwarded(st, <<id>>), Store, rows)

(* Preflight turns a batch of distinct forwardable rows away only when the *)
(* serial path would run out of pages on one of them, and passes it only   *)
(* when the serial path would not.                                         *)
PreflightExact ==
  \A rows \in Batches :
    (IsInjective(rows) /\ \A i \in DOMAIN rows : InRange(Store, rows[i]))
      => (CanAcquire(kv, BatchNeed(rows))
            <=> \A i \in DOMAIN rows :
                  LET st == FoldLeft(LAMBDA s, id : Forwarded(s, <<id>>), Store,
                                     SubSeq(rows, 1, i - 1))
                  IN  CanAcquire(st.kv, Need(st, rows[i])))

(* A batch leaves what its rows would leave one after the other, and is    *)
(* turned away exactly when one of them would find no page.                *)
RowsInParity == RowParity /\ PreflightExact
=============================================================================
