------------------------------ MODULE MCArtifacts ------------------------------
(***************************************************************************)
(* Two byte values, and artifacts over them: the two single bytes and two  *)
(* longer tokens, all lists of up to MCMerges merges over their ids, and   *)
(* lists of added tokens one of which begins another.                      *)
(***************************************************************************)
EXTENDS Integers, Sequences

CONSTANTS MCMerges, MCText

MCStrings(lengths) == UNION {[1..n -> {0, 1}] : n \in lengths}

MCVocabs == {<<<<0>>, <<1>>, a, b>> : a, b \in MCStrings({2, 3})}

MCMergeLists == UNION {[1..n -> (0..3) \X (0..3)] : n \in 0..MCMerges}

MCAdded(id, bytes, special) == [id |-> id, bytes |-> bytes, special |-> special]

MCAddedLists == {<<>>, <<MCAdded(4, <<1, 0>>, TRUE), MCAdded(5, <<1, 0, 0>>, FALSE)>>,
                 <<MCAdded(5, <<1>>, TRUE), MCAdded(4, <<0, 1>>, FALSE)>>}

MCTwiceAdded == {<<MCAdded(4, <<1>>, TRUE), MCAdded(5, <<0>>, TRUE),
                   MCAdded(6, <<1>>, FALSE)>>,
                 <<MCAdded(4, <<1>>, TRUE), MCAdded(5, <<1>>, FALSE)>>}

MCTexts == MCStrings(0..MCText)
================================================================================
