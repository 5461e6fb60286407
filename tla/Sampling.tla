-------------------------------- MODULE Sampling --------------------------------
(***************************************************************************)
(* Picking the next token: argmax_bf16, effective_probabilities (top-k,    *)
(* top-p, normalisation) and the walk of sample_token.  Logits are small   *)
(* integers; Weight stands for exp of the distance to the greatest one and *)
(* ends in 0, as exp does.  Probabilities are counted in Unit-ths and      *)
(* rounded down, so that they may fall short of the whole.                 *)
(***************************************************************************)
EXTENDS Integers, Sequences, SequencesExt, FiniteSetsExt, Functions

CONSTANTS Vocab,   \* number of tokens
          Logits,  \* values of a logit
          Weight,  \* Weight[d + 1] for a distance d
          Unit,    \* draws there are
          TopP     \* values of top_p, in tenths

SamplingAssumption ==
  /\ Vocab \in Nat \ {0} /\ Unit \in Nat \ {0}
  /\ Logits \subseteq Nat /\ TopP \subseteq 1..10
  /\ \A a, b \in Logits : a - b + 1 <= Len(Weight)
  /\ Weight[1] > 0
  /\ \A i \in 1..Len(Weight) - 1 : Weight[i] >= Weight[i + 1]

TokenIds == 0..Vocab - 1

VARIABLES
  input,  \* [logits, top_k, top_p]
  kept,   \* the tokens both filters leave
  p       \* effective_probabilities

Logit(i) == input.logits[i]

(* argmax_bf16: the loop keeps the first of equal ones.                    *)
Argmax == FoldLeft(LAMBDA best, i : IF Logit(i) > Logit(best) THEN i ELSE best,
                   0, [i \in 1..Vocab - 1 |-> i])

MaxLogit == Max(Range(input.logits))

(* exp(f - max), as it enters every sum.                                   *)
W == LET max == MaxLogit
     IN  [i \in TokenIds |-> Weight[max - Logit(i) + 1]]

(* The sums of f over the first tokens.                                    *)
Sums(f) == LET sum[n \in 0..Vocab] == IF n = 0 THEN 0 ELSE sum[n - 1] + f[n - 1]
           IN  sum

(* by_value_then_id.                                                       *)
Before(a, b) == Logit(a) > Logit(b) \/ (Logit(a) = Logit(b) /\ a < b)

Sorted(S) == [n \in 1..Cardinality(S) |->
                CHOOSE i \in S : Cardinality({j \in S : Before(j, i)}) = n - 1]

(* Stage 2: the first top_k; 0 leaves all, more than all is all.           *)
TopKSurvivors ==
  IF input.top_k = 0 THEN TokenIds
  ELSE Range(SubSeq(Sorted(TokenIds), 1, Min({input.top_k, Vocab})))

Mass(S) == Sums([i \in TokenIds |-> IF i \in S THEN W[i] ELSE 0])[Vocab]

(* Mutant of Kept: the token that reaches the mass is cut as well.         *)
KeptShort ==
  LET order == Sorted(TopKSurvivors)
      total == Mass(TopKSurvivors)
      reached(j) == 10 * Mass(Range(SubSeq(order, 1, j))) >= input.top_p * total
      cut == Min({j \in 1..Len(order) : reached(j) \/ j = Len(order)})
  IN  IF input.top_p = 10 THEN TopKSurvivors
      ELSE Range(SubSeq(order, 1, Max({1, cut - 1})))

(* Stage 3: in that order, until the mass reaches its part of the total.   *)
Kept ==
  LET order == Sorted(TopKSurvivors)
      total == Mass(TopKSurvivors)
      reached(j) == 10 * Mass(Range(SubSeq(order, 1, j))) >= input.top_p * total
      cut == Min({j \in 1..Len(order) : reached(j) \/ j = Len(order)})
  IN  IF input.top_p = 10 THEN TopKSurvivors ELSE Range(SubSeq(order, 1, cut))

(* Stage 4.                                                                *)
Normalised(S) ==
  LET norm == Mass(S)
  IN  [i \in TokenIds |-> IF i \in S THEN (Unit * W[i]) \div norm ELSE 0]

(* sample_token with the draw u: the first token, by id, at which the sum  *)
(* exceeds u; past the end the last token with a probability.              *)
Sample(u) ==
  LET possible == {i \in TokenIds : p[i] > 0}
      hit == {i \in possible : u < Sums(p)[i + 1]}
  IN  CASE hit # {} -> Min(hit)
        [] hit = {} /\ possible # {} -> Max(possible)
        [] OTHER -> Argmax

Init == /\ input \in [logits : [TokenIds -> Logits], top_k : 0..Vocab + 1,
                      top_p : TopP]
        /\ kept = {} /\ p = <<>>

Filter == kept = {} /\ kept' = Kept /\ UNCHANGED <<input, p>>

Normalise == kept # {} /\ p = <<>> /\ p' = Normalised(kept) /\ UNCHANGED <<input, kept>>

Next == Filter \/ Normalise
-----------------------------------------------------------------------------
Draws == 0..Unit - 1

Cut(S) == \A i \in S, j \in TokenIds \ S : Before(i, j)

(* The filters keep a top of the ranking: as many as top_k allows, of      *)
(* these no more than it takes to reach top_p, and no fewer.               *)
NucleusExact ==
  p # <<>> =>
    /\ kept # {} /\ Cut(kept) /\ Cut(TopKSurvivors) /\ kept \subseteq TopKSurvivors
    /\ input.top_k # 0 => Cardinality(TopKSurvivors) = Min({input.top_k, Vocab})
    /\ 10 * Mass(kept) >= input.top_p * Mass(TopKSurvivors)
    /\ input.top_p # 10 =>
         LET least == CHOOSE i \in kept : \A j \in kept \ {i} : Before(j, i)
         IN  Cardinality(kept) > 1 =>
               10 * Mass(kept \ {least}) < input.top_p * Mass(TopKSurvivors)

(* A draw never brings a token that was filtered out, and every token has  *)
(* as many draws as its probability says; what the rounding leaves over    *)
(* goes to one token, the last.                                            *)
DrawsAreFair ==
  p # <<>> =>
    LET drawn == [u \in Draws |-> Sample(u)]
        last == Max({i \in TokenIds : p[i] > 0})
        share(i) == Cardinality({u \in Draws : drawn[u] = i})
        rest == Unit - Sums(p)[Vocab]
    IN  /\ Range(drawn) \subseteq kept
        /\ \A i \in TokenIds \ {last} : share(i) = p[i]
        /\ share(last) = p[last] + rest
        /\ rest < Cardinality(kept)

(* The two ways to pick meet: sampling that keeps one token picks what the *)
(* greedy loop picks, ties included, whatever is drawn.                    *)
GreedyLimit ==
  p # <<>> /\ Cardinality(kept) = 1 =>
    \A u \in Draws : Sample(u) = Argmax
=============================================================================
