--------------------------- MODULE SequenceStore ----------------------------
(***************************************************************************)
(* What the state manager and the model's forward promise the runtime      *)
(* above them: live sequences with a length, a fixed number of sequences,  *)
(* and a fixed number of pages of which a sequence of n tokens takes       *)
(* exactly ceil(n / PageTokens).  No page ids, slots, tables or contents.  *)
(* The operators on lengths take them as a value, so that a caller may     *)
(* chain several store operations in one step.                             *)
(***************************************************************************)
EXTENDS Integers, FiniteSets, FiniteSetsExt, Functions

CONSTANTS MaxSeqLen, PageTokens, KvPages, DeltaSlots, MaxId

VARIABLES
  len,                 \* live sequence id -> tokens in its state
  next_id              \* the next sequence id

store == <<len, next_id>>

Live == DOMAIN len

PagesFor(n) == (n + PageTokens - 1) \div PageTokens

PagesOf(l) == SumFunction([q \in DOMAIN l |-> PagesFor(l[q])])

UsedPages == PagesOf(len)

(* One more token of each sequence of ids has a position and a page.       *)
Fits(l, ids) ==
  /\ ids \subseteq DOMAIN l
  /\ \A q \in ids : l[q] < MaxSeqLen
  /\ PagesOf(l) + Cardinality({q \in ids : l[q] % PageTokens = 0}) <= KvPages

Lengthened(l, ids) == [q \in DOMAIN l |-> l[q] + IF q \in ids THEN 1 ELSE 0]

Without(l, q) == Restrict(l, DOMAIN l \ {q})

With(f, x, v) == [y \in DOMAIN f \cup {x} |-> IF y = x THEN v ELSE f[y]]

StoreInit == len = <<>> /\ next_id = 1

CanCreate == Cardinality(Live) < DeltaSlots

Create == /\ next_id <= MaxId
          /\ CanCreate
          /\ len' = With(len, next_id, 0)
          /\ next_id' = next_id + 1

Forward(ids) == /\ Fits(len, ids)
                /\ len' = Lengthened(len, ids)
                /\ UNCHANGED next_id

Reset(q) == /\ q \in Live
            /\ len' = [len EXCEPT ![q] = 0]
            /\ UNCHANGED next_id

Retire(q) == /\ q \in Live
             /\ len' = Without(len, q)
             /\ UNCHANGED next_id

StoreNext == \/ Create
             \/ \E ids \in (SUBSET Live) \ {{}} : Forward(ids)
             \/ \E q \in Live : Reset(q) \/ Retire(q)

StoreSpec == StoreInit /\ [][StoreNext]_store
=============================================================================
