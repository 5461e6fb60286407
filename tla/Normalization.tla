----------------------------- MODULE Normalization ------------------------------
(***************************************************************************)
(* nfc_impl: one pass over the decomposed text that orders the marks of    *)
(* each starter and composes at the same time.  Code points are any        *)
(* values; the three tables of the artifact are constants.                 *)
(***************************************************************************)
EXTENDS Integers, Sequences, SequencesExt, FiniteSetsExt

CONSTANTS CodePoints,
          Ccc,      \* canonical combining class of each; 0 is a starter
          Decomp,   \* canonical decomposition, where there is one
          Comp,     \* composition of a pair, where there is one
          MaxText   \* length of a text

NormalizationAssumption ==
  /\ Ccc \in [CodePoints -> 0..254]
  /\ DOMAIN Decomp \subseteq CodePoints
  /\ \A c \in DOMAIN Decomp : Decomp[c] \in Seq(CodePoints)
  /\ DOMAIN Comp \subseteq CodePoints \X CodePoints
  /\ \A p \in DOMAIN Comp : Comp[p] \in CodePoints
  /\ MaxText \in Nat

VARIABLES
  text,      \* the input
  stream,    \* what is left of its decomposition
  pending,   \* buffer[re..]: read, not yet ordered
  ready,     \* buffer[rs..re): ordered, to be composed
  composee,  \* <<>>, or the starter that may still compose
  cbuf,      \* marks behind it that did not compose
  state,     \* "composing", "purging", "finished", "done"
  out

vars == <<text, stream, pending, ready, composee, cbuf, state, out>>

(* The work stack of the decomposition; parts are pushed back in order.    *)
RECURSIVE Decomposed(_)
Decomposed(stack) ==
  IF stack = <<>> THEN <<>>
  ELSE LET c == Head(stack)
       IN  IF c \in DOMAIN Decomp THEN Decomposed(Decomp[c] \o Tail(stack))
           ELSE <<c>> \o Decomposed(Tail(stack))

Init == /\ text \in UNION {[1..n -> CodePoints] : n \in 0..MaxText}
        /\ stream = Decomposed(text)
        /\ pending = <<>> /\ ready = <<>>
        /\ composee = <<>> /\ cbuf = <<>>
        /\ state = "composing"
        /\ out = <<>>

(* stable_sort_pending: by class, equal classes in text order.             *)
Ordered(s) ==
  FoldLeft(LAMBDA acc, class : acc \o SelectSeq(s, LAMBDA c : Ccc[c] = class),
           <<>>, SetToSortSeq({Ccc[c] : c \in Range(s)}, <))

(* decomp_next, reading: a starter makes what was read before it ready.    *)
Read == /\ state = "composing" /\ ready = <<>> /\ stream # <<>>
        /\ LET c == Head(stream)
           IN  IF Ccc[c] = 0 THEN ready' = Ordered(pending) /\ pending' = <<c>>
               ELSE pending' = Append(pending, c) /\ UNCHANGED ready
        /\ stream' = Tail(stream)
        /\ UNCHANGED <<text, composee, cbuf, state, out>>

(* decomp_next, at the end of the text.                                    *)
ReadEnd == /\ state = "composing" /\ ready = <<>> /\ stream = <<>>
           /\ pending # <<>>
           /\ ready' = Ordered(pending) /\ pending' = <<>>
           /\ UNCHANGED <<text, stream, composee, cbuf, state, out>>

(* Mutant of Blocked: only a greater class stands between.                 *)
BlockedByGreater(c) == cbuf # <<>> /\ Ccc[Last(cbuf)] > Ccc[c]

(* A mark already held back, of the same class or a greater one, stands    *)
(* between the composee and c.                                             *)
Blocked(c) == cbuf # <<>> /\ Ccc[Last(cbuf)] >= Ccc[c]

Composes(c) == /\ composee # <<>> /\ ~Blocked(c)
               /\ <<composee[1], c>> \in DOMAIN Comp

Take == /\ state = "composing" /\ ready # <<>>
        /\ ready' = Tail(ready)
        /\ UNCHANGED <<text, stream, pending>>

(* No starter yet: a mark passes, a starter becomes the composee.          *)
TakeFirst ==
  /\ Take /\ composee = <<>>
  /\ IF Ccc[Head(ready)] # 0
     THEN out' = Append(out, Head(ready)) /\ UNCHANGED composee
     ELSE composee' = <<Head(ready)>> /\ UNCHANGED out
  /\ UNCHANGED <<cbuf, state>>

TakeComposing ==
  /\ Take /\ Composes(Head(ready))
  /\ composee' = <<Comp[<<composee[1], Head(ready)>>]>>
  /\ UNCHANGED <<cbuf, state, out>>

(* A mark that does not compose is held back.                              *)
TakeMark ==
  /\ Take /\ composee # <<>> /\ ~Composes(Head(ready)) /\ Ccc[Head(ready)] # 0
  /\ cbuf' = Append(cbuf, Head(ready))
  /\ UNCHANGED <<composee, state, out>>

(* The next starter: the composee is out, then what was held back.         *)
TakeStarter ==
  /\ Take /\ composee # <<>> /\ ~Composes(Head(ready)) /\ Ccc[Head(ready)] = 0
  /\ out' = Append(out, composee[1])
  /\ composee' = <<Head(ready)>>
  /\ state' = IF cbuf = <<>> THEN "composing" ELSE "purging"
  /\ UNCHANGED cbuf

Purge == /\ state = "purging"
         /\ out' = out \o cbuf /\ cbuf' = <<>> /\ state' = "composing"
         /\ UNCHANGED <<text, stream, pending, ready, composee>>

(* The text is over: the composee, then what was held back.                *)
Finish == /\ state = "composing"
          /\ ready = <<>> /\ stream = <<>> /\ pending = <<>>
          /\ out' = out \o composee /\ composee' = <<>>
          /\ state' = "finished"
          /\ UNCHANGED <<text, stream, pending, ready, cbuf>>

Drain == /\ state = "finished"
         /\ out' = out \o cbuf /\ cbuf' = <<>> /\ state' = "done"
         /\ UNCHANGED <<text, stream, pending, ready, composee>>

Next == \/ Read \/ ReadEnd
        \/ TakeFirst \/ TakeComposing \/ TakeMark \/ TakeStarter
        \/ Purge \/ Finish \/ Drain
-----------------------------------------------------------------------------
(* UAX #15, written from its definitions.  Canonical ordering exchanges    *)
(* neighbours until none is out of order.                                  *)
RECURSIVE CanonicalOrder(_)
CanonicalOrder(s) ==
  LET wrong == {i \in 1..Len(s) - 1 : Ccc[s[i]] > Ccc[s[i + 1]]
                                        /\ Ccc[s[i + 1]] > 0}
      i == CHOOSE i \in wrong : TRUE
  IN  IF wrong = {} THEN s
      ELSE CanonicalOrder([s EXCEPT ![i] = s[i + 1], ![i + 1] = s[i]])

(* Canonical composition: from the second place on, a character that is    *)
(* not blocked from the last starter before it and has a composite with it *)
(* goes into the starter.                                                  *)
RECURSIVE Composed(_, _)
Composed(s, i) ==
  LET starters == {j \in 1..i - 1 : Ccc[s[j]] = 0}
      l == Max(starters)
      blocked == \E b \in l + 1..i - 1 : Ccc[s[b]] = 0 \/ Ccc[s[b]] >= Ccc[s[i]]
  IN  IF i > Len(s) THEN s
      ELSE IF starters # {} /\ ~blocked /\ <<s[l], s[i]>> \in DOMAIN Comp
           THEN Composed(RemoveAt([s EXCEPT ![l] = Comp[<<s[l], s[i]>>]], i), i)
           ELSE Composed(s, i + 1)

Nfc(s) == Composed(CanonicalOrder(Decomposed(s)), 2)

(* include/cudalm/qwen35_tokenizer.h:34: "This is standard UAX #15 NFC".   *)
(* The one pass comes to what ordering the whole text first and composing  *)
(* it afterwards comes to, and to a text that is in that form already.     *)
StandardNfc == state = "done" => out = Nfc(text) /\ Nfc(out) = out

(* Nothing is lost or made up at any point of the pass: what is written,   *)
(* held and still to be read decomposes into the characters of the text.   *)
Held == out \o composee \o cbuf \o ready \o pending \o stream

Occurrences(s) == [c \in CodePoints |-> Cardinality({i \in DOMAIN s : s[i] = c})]

NothingLost == Occurrences(Decomposed(Held)) = Occurrences(Decomposed(text))

=============================================================================
