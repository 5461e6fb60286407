---------------------------- MODULE TokenizerTables -----------------------------
(***************************************************************************)
(* The tables of the artifact that are searched by halving: what the loader*)
(* checks of their order, and what std::lower_bound then finds in them.    *)
(***************************************************************************)
EXTENDS Integers, Sequences, SequencesExt, FiniteSetsExt

CONSTANTS MaxCp,    \* greatest code point
          Shift,    \* 2^21, by which the first of a pair is shifted
          Rows      \* rows of a table

TablesAssumption == {MaxCp, Shift, Rows} \subseteq Nat /\ Shift > MaxCp

VARIABLES comp,     \* section S6: rows <<a, b, c>>
          ranges    \* sections S7 to S10: rows <<lo, hi>>

vars == <<comp, ranges>>

(* The values a field of a row may have in the file.                       *)
Field == 0..MaxCp + 1

Tables(row) == UNION {[1..n -> row] : n \in 0..Rows}

Init == \/ comp \in Tables(Field \X Field \X (0..1)) /\ ranges = <<>>
        \/ comp = <<>> /\ ranges \in Tables(Field \X Field)

Next == UNCHANGED vars
-----------------------------------------------------------------------------
Key(a, b) == a * Shift + b

Keys == [i \in DOMAIN comp |-> Key(comp[i][1], comp[i][2])]

(* S6: code points, and keys that grow.                                    *)
CompAccepted ==
  /\ \A i \in DOMAIN comp : \A k \in 1..3 : comp[i][k] <= MaxCp
  /\ \A i \in 1..Len(comp) - 1 : Keys[i] < Keys[i + 1]

(* S7 to S10: no range is empty, and each begins behind the one before it. *)
RangesAccepted ==
  /\ \A i \in DOMAIN ranges : /\ ranges[i][1] <= ranges[i][2]
                              /\ ranges[i][2] <= MaxCp
  /\ \A i \in 1..Len(ranges) - 1 : ranges[i + 1][1] > ranges[i][2]

(* std::lower_bound: the first place of keys[first..last) that is not less.*)
RECURSIVE LowerBound(_, _, _, _)
LowerBound(keys, k, first, last) ==
  LET mid == first + (last - first) \div 2
  IN  IF first = last THEN first
      ELSE IF keys[mid] < k THEN LowerBound(keys, k, mid + 1, last)
                            ELSE LowerBound(keys, k, first, mid)

(* composeable: the composite of a pair, or the empty set.                 *)
Composeable(a, b) ==
  LET i == LowerBound(Keys, Key(a, b), 1, Len(comp) + 1)
  IN  IF i <= Len(comp) /\ Keys[i] = Key(a, b) THEN {comp[i][3]} ELSE {}
-----------------------------------------------------------------------------
(* Halving finds exactly the rows of an accepted table: for every pair of  *)
(* code points what the rows say, no row hidden by one before it, and no   *)
(* pair taken for another one with the same key.                           *)
FindsRows ==
  CompAccepted => \A a, b \in 0..MaxCp :
                    Composeable(a, b) = {r[3] : r \in {q \in Range(comp) :
                                                         q[1] = a /\ q[2] = b}}

(* Comparing each range with the one before it is enough for all of them   *)
(* to be apart.                                                            *)
RangesApart ==
  RangesAccepted => \A c \in 0..MaxCp :
                      Cardinality({i \in DOMAIN ranges :
                                     c \in ranges[i][1]..ranges[i][2]}) <= 1
=============================================================================
