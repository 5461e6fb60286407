------------------------------ MODULE PreTokenizer ------------------------------
(***************************************************************************)
(* pretokenize: the pattern that cuts a text into pre-tokens, and the      *)
(* backtracking matcher that runs it.  A character is a name; its classes  *)
(* are the artifact's range tables.                                        *)
(***************************************************************************)
EXTENDS Integers, Sequences, SequencesExt, FiniteSetsExt

CONSTANTS Letters, Numbers, Marks, Spaces,  \* the range tables
          Others,                           \* characters in none of them
          MaxText

Newlines == {"cr", "nl"}

Characters == Letters \cup Numbers \cup Marks \cup Spaces \cup Others

PreTokenizerAssumption ==
  /\ MaxText \in Nat
  /\ {" "} \cup Newlines \subseteq Characters

VARIABLE text

Init == text \in UNION {[1..n -> Characters] : n \in 0..MaxText}

Next == UNCHANGED text
-----------------------------------------------------------------------------
(* Nodes of the pattern, and the pattern:                                  *)
(*   (?i:'s|'t|'re|'ve|'m|'ll|'d) | [^\r\n\p{L}\p{N}]?[\p{L}\p{M}]+        *)
(*   | \p{N} | ' '?[^\s\p{L}\p{M}\p{N}]+[\r\n]* | \s*[\r\n]+               *)
(*   | \s+(?!\S) | \s+                                                     *)
Seq_(items)  == [kind |-> "seq", items |-> items]
Alt(items)   == [kind |-> "alt", items |-> items]
Class(chars) == [kind |-> "class", chars |-> chars]
NotAt(chars) == [kind |-> "not", chars |-> chars]
Opt(n)       == [kind |-> "opt", child |-> n]
Plus(n)      == [kind |-> "plus", child |-> n]
Star(n)      == [kind |-> "star", child |-> n]

(* A literal that folds case matches both forms.                           *)
Lit(c) == Class({c})
Folded(c) == Class({c} \cup (IF c = "s" THEN {"S"} ELSE {}))

LettersOrMarks == Letters \cup Marks
Printable == Characters \ (Spaces \cup Letters \cup Marks \cup Numbers)
Prefix == Characters \ (Newlines \cup Letters \cup Numbers)
NonSpaces == Characters \ Spaces

Contraction ==
  Seq_(<<Lit("'"),
         Alt(<<Seq_(<<Folded("s")>>), Seq_(<<Folded("t")>>),
               Seq_(<<Folded("r"), Folded("e")>>),
               Seq_(<<Folded("v"), Folded("e")>>), Seq_(<<Folded("m")>>),
               Seq_(<<Folded("l"), Folded("l")>>), Seq_(<<Folded("d")>>)>>)>>)

Pattern ==
  Alt(<<Contraction,
        Seq_(<<Opt(Class(Prefix)), Plus(Class(LettersOrMarks))>>),
        Seq_(<<Class(Numbers)>>),
        Seq_(<<Opt(Lit(" ")), Plus(Class(Printable)), Star(Class(Newlines))>>),
        Seq_(<<Star(Class(Spaces)), Plus(Class(Newlines))>>),
        Seq_(<<Plus(Class(Spaces)), NotAt(NonSpaces)>>),
        Seq_(<<Plus(Class(Spaces))>>)>>)

(* The place behind a match that starts at pos, or NoMatch.                *)
NoMatch == 0

RECURSIVE MatchSingle(_, _), MatchSeq(_, _), RepeatEnds(_, _)

(* The places a repetition of n can stop at, after at least one.           *)
RepeatEnds(n, pos) ==
  LET e == MatchSingle(n, pos)
  IN  IF e = NoMatch THEN <<>> ELSE <<e>> \o RepeatEnds(n, e)

MatchSingle(n, pos) ==
  CASE n.kind = "class" -> IF pos <= Len(text) /\ text[pos] \in n.chars
                           THEN pos + 1 ELSE NoMatch
    [] n.kind = "not" -> IF pos > Len(text) \/ text[pos] \notin n.chars
                         THEN pos ELSE NoMatch
    [] n.kind = "alt" ->
         LET hits == SelectSeq([i \in DOMAIN n.items |->
                                  MatchSingle(n.items[i], pos)],
                               LAMBDA e : e # NoMatch)
         IN  IF hits = <<>> THEN NoMatch ELSE Head(hits)
    [] n.kind = "seq" -> MatchSeq(n.items, pos)

(* The first place in a list from which the rest of a sequence matches.    *)
FirstEnd(items, places) ==
  LET hits == SelectSeq([i \in DOMAIN places |-> MatchSeq(items, places[i])],
                        LAMBDA e : e # NoMatch)
  IN  IF hits = <<>> THEN NoMatch ELSE Head(hits)

(* Mutant of Places: what an optional node can match it must match.        *)
PlacesWithoutFallback(n, pos) ==
  LET ends == RepeatEnds(n.child, pos)
      once == MatchSingle(n.child, pos)
  IN  CASE n.kind = "star" -> Reverse(<<pos>> \o ends)
        [] n.kind = "plus" -> Reverse(ends)
        [] OTHER -> IF once = NoMatch THEN <<pos>> ELSE <<once>>

(* Where a quantified node can stop, longest first.  (The code also stops  *)
(* behind 1,000,000 repetitions; texts here are far shorter.)              *)
Places(n, pos) ==
  LET ends == RepeatEnds(n.child, pos)
      once == MatchSingle(n.child, pos)
  IN  CASE n.kind = "star" -> Reverse(<<pos>> \o ends)
        [] n.kind = "plus" -> Reverse(ends)
        [] OTHER -> IF once = NoMatch THEN <<pos>> ELSE <<once, pos>>

(* Items in order; a quantifier is tried again, shorter, when the items    *)
(* behind it do not match.                                                 *)
MatchSeq(items, pos) ==
  IF items = <<>> THEN pos
  ELSE LET n == Head(items)
       IN  IF n.kind \in {"star", "plus", "opt"}
           THEN FirstEnd(Tail(items), Places(n, pos))
           ELSE IF MatchSingle(n, pos) = NoMatch THEN NoMatch
                ELSE MatchSeq(Tail(items), MatchSingle(n, pos))

(* pretokenize: the places at which the pre-tokens begin, and the end; it  *)
(* stops early where no branch matches, or one matches nothing.            *)
RECURSIVE CutsFrom(_)
CutsFrom(pos) ==
  LET e == MatchSingle(Pattern, pos)
  IN  IF pos > Len(text) \/ e \in {NoMatch, pos} THEN <<pos>>
      ELSE <<pos>> \o CutsFrom(e)

Cuts == CutsFrom(1)
-----------------------------------------------------------------------------
(* What the branches say of text[p..e-1] and what follows it, without a    *)
(* matcher.                                                                *)
All(chars, p, e) == \A i \in p..e - 1 : text[i] \in chars

Run(chars, p, e) == p < e /\ All(chars, p, e)

Says(branch, p, e) ==
  CASE branch = 1 -> /\ text[p] = "'"
                     /\ SubSeq(text, p + 1, e - 1) \in
                          {<<"s">>, <<"S">>, <<"t">>, <<"r", "e">>,
                           <<"v", "e">>, <<"m">>, <<"l", "l">>, <<"d">>}
    [] branch = 2 -> \/ Run(LettersOrMarks, p, e)
                     \/ text[p] \in Prefix /\ Run(LettersOrMarks, p + 1, e)
    [] branch = 3 -> e = p + 1 /\ text[p] \in Numbers
    [] branch = 4 -> \E m \in p..e : 
                       /\ All(Newlines, m, e)
                       /\ \/ Run(Printable, p, m)
                          \/ text[p] = " " /\ Run(Printable, p + 1, m)
    [] branch = 5 -> \E m \in p..e : All(Spaces, p, m) /\ Run(Newlines, m, e)
    [] branch = 6 -> /\ Run(Spaces, p, e)
                     /\ e <= Len(text) => text[e] \in Spaces
    [] branch = 7 -> Run(Spaces, p, e)

Ends(branch, p) == {e \in p + 1..Len(text) + 1 : Says(branch, p, e)}

(* The first branch that matches at all, as far as it can.                 *)
FirstLongest(p) ==
  LET branches == {b \in 1..7 : Ends(b, p) # {}}
  IN  IF branches = {} THEN NoMatch ELSE Max(Ends(Min(branches), p))

(* The matcher finds at every place, so at every one a chunk can start at, *)
(* what the pattern means; every backtracking rule has its part in that.   *)
MatcherMeansPattern ==
  \A p \in 1..Len(text) : MatchSingle(Pattern, p) = FirstLongest(p)

(* include/cudalm/qwen35_tokenizer.h, pretokenize: "every valid code point *)
(* is matchable, so a no-match is an internal error".  The pre-tokens are  *)
(* the whole text, whatever the range tables are: the loader does not      *)
(* check that they are disjoint.                                           *)
CutsAll == Last(Cuts) = Len(text) + 1
=============================================================================
