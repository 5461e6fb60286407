---------------------------------- MODULE Utf8 ----------------------------------
(***************************************************************************)
(* The two readers of UTF-8 in the tokenizer: utf8_decode, which refuses   *)
(* what is not well formed, and utf8_lossy, which replaces it; and the     *)
(* writer, utf8_encode.  The input is any string over the bytes at the     *)
(* boundaries of the encoding's ranges.                                    *)
(***************************************************************************)
EXTENDS Integers, Sequences, SequencesExt, FiniteSetsExt

CONSTANTS Bytes,   \* the bytes in use, in 0..255
          MaxLen   \* length of a string

Utf8Assumption == Bytes \subseteq 0..255 /\ MaxLen \in Nat

VARIABLE input

Strings == UNION {[1..n -> Bytes] : n \in 0..MaxLen}

Init == input \in Strings

Next == UNCHANGED input

MaxCp == 1114111

Surrogates == 55296..57343

Continuation(b) == b \div 64 = 2
-----------------------------------------------------------------------------
(* utf8_seq_len.                                                           *)
SeqLen(cp) == CASE cp < 128 -> 1
                [] cp \in 128..2047 -> 2
                [] cp \in 2048..65535 -> 3
                [] OTHER -> 4

(* Length and payload bits of a lead byte; length 0 is no lead byte.       *)
Lead(b) == CASE b < 128       -> [len |-> 1, bits |-> b]
             [] b \div 32 = 6  -> [len |-> 2, bits |-> b % 32]
             [] b \div 16 = 14 -> [len |-> 3, bits |-> b % 16]
             [] b \div 8 = 30  -> [len |-> 4, bits |-> b % 8]
             [] OTHER         -> [len |-> 0, bits |-> 0]

(* Smallest code point of a sequence of n bytes.                           *)
MinCp(n) == <<0, 128, 2048, 65536>>[n]

Valid(cp, n) == cp >= MinCp(n) /\ cp <= MaxCp /\ cp \notin Surrogates

(* utf8_decode: the code points, or no success at the first bad byte.      *)
RECURSIVE DecodeFrom(_, _)
DecodeFrom(s, i) ==
  LET n  == Lead(s[i]).len
      cp == FoldLeft(LAMBDA acc, b : acc * 64 + (b % 64), Lead(s[i]).bits,
                     SubSeq(s, i + 1, i + n - 1))
      rest == DecodeFrom(s, i + n)
  IN  IF i > Len(s) THEN [ok |-> TRUE, cps |-> <<>>]
      ELSE IF /\ n > 0 /\ i + n - 1 <= Len(s)
              /\ \A k \in i + 1..i + n - 1 : Continuation(s[k])
              /\ Valid(cp, n)
           THEN [ok |-> rest.ok, cps |-> <<cp>> \o rest.cps]
           ELSE [ok |-> FALSE, cps |-> <<>>]

Decode(s) == DecodeFrom(s, 1)

(* utf8_encode of one code point, and of several.                          *)
EncodeOne(cp) ==
  LET low(k) == 128 + ((cp \div 64 ^ k) % 64)
  IN  CASE cp < 128            -> <<cp>>
        [] cp \in 128..2047     -> <<192 + cp \div 64, low(0)>>
        [] cp \in 2048..65535   -> <<224 + cp \div 4096, low(1), low(0)>>
        [] OTHER -> <<240 + cp \div 262144, low(2), low(1), low(0)>>

Encode(cps) == FlattenSeq([i \in DOMAIN cps |-> EncodeOne(cps[i])])

(* Mutant of Ranges: E0 takes any continuation byte.                       *)
RangesOverlongE0(b) ==
  CASE b \in 194..223 -> <<128..191>>
    [] b \in 224..236 \cup {238, 239} -> <<128..191, 128..191>>
    [] b = 237 -> <<128..159, 128..191>>
    [] b = 240 -> <<144..191, 128..191, 128..191>>
    [] b \in 241..243 -> <<128..191, 128..191, 128..191>>
    [] b = 244 -> <<128..143, 128..191, 128..191>>
    [] OTHER -> <<>>

(* The continuation bytes utf8_lossy accepts behind a lead byte, by place. *)
Ranges(b) ==
  CASE b \in 194..223 -> <<128..191>>
    [] b = 224 -> <<160..191, 128..191>>
    [] b \in 225..236 \cup {238, 239} -> <<128..191, 128..191>>
    [] b = 237 -> <<128..159, 128..191>>
    [] b = 240 -> <<144..191, 128..191, 128..191>>
    [] b \in 241..243 -> <<128..191, 128..191, 128..191>>
    [] b = 244 -> <<128..143, 128..191, 128..191>>
    [] OTHER -> <<>>

(* Size of the subpart at place i: the lead byte and the continuation      *)
(* bytes in range behind it.                                               *)
Subpart(s, i) ==
  LET r == Ranges(s[i])
      extends(k) == \A j \in 1..k : i + j <= Len(s) /\ s[i + j] \in r[j]
  IN  1 + Max({k \in 0..Len(r) : extends(k)})

(* utf8_lossy as the list of its pieces: copied, or one U+FFFD.            *)
RECURSIVE LossyFrom(_, _)
LossyFrom(s, i) ==
  LET size == Subpart(s, i)
      whole == s[i] < 128 \/ (Ranges(s[i]) # <<>>
                               /\ size = Len(Ranges(s[i])) + 1)
  IN  IF i > Len(s) THEN <<>>
      ELSE <<[copied |-> whole, bytes |-> SubSeq(s, i, i + size - 1)]>>
             \o LossyFrom(s, i + size)

Pieces(s) == LossyFrom(s, 1)

Lossy(s) == FlattenSeq([i \in DOMAIN Pieces(s) |->
                         IF Pieces(s)[i].copied THEN Pieces(s)[i].bytes
                         ELSE EncodeOne(65533)])
-----------------------------------------------------------------------------
(* The strict reader accepts one spelling of every text: what it reads is  *)
(* written back byte for byte, and utf8_seq_len, by which pretokenize cuts *)
(* the text, is the length of what was read.                               *)
ReadsBack ==
  Decode(input).ok =>
    /\ Encode(Decode(input).cps) = input
    /\ \A i \in DOMAIN Decode(input).cps :
         SeqLen(Decode(input).cps[i]) = Len(EncodeOne(Decode(input).cps[i]))

(* The two readers, written apart, agree on what is well formed: the lossy *)
(* one replaces something exactly when the strict one refuses the string.  *)
ReadersAgree ==
  Decode(input).ok <=> \A i \in DOMAIN Pieces(input) : Pieces(input)[i].copied

(* The well-formed sequences of one code point, and their prefixes.        *)
WellFormed == {s \in UNION {[1..n -> Bytes] : n \in 1..4} :
                 Decode(s).ok /\ Len(Decode(s).cps) = 1}

Beginnings == UNION {{SubSeq(w, 1, k) : k \in 1..Len(w)} : w \in WellFormed}

(* utf8_lossy's comment: "every maximal invalid subpart is replaced by     *)
(* exactly ONE U+FFFD".  Pieces are as long as the beginning of some       *)
(* well-formed sequence can be, or one byte; the result is well formed.    *)
MaximalSubparts(beginnings) ==
  LET pieces == Pieces(input)
      start(i) == Len(FlattenSeq([j \in 1..i - 1 |-> pieces[j].bytes]))
      beginning(i, k) == SubSeq(input, start(i) + 1, start(i) + k) \in beginnings
  IN  /\ \A i \in DOMAIN pieces :
           Len(pieces[i].bytes) =
             Max({1} \cup {k \in 1..4 : /\ start(i) + k <= Len(input)
                                        /\ beginning(i, k)})
      /\ Decode(Lossy(input)).ok
=============================================================================
