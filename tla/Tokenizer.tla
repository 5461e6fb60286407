------------------------------- MODULE Tokenizer --------------------------------
(***************************************************************************)
(* The tokenizer's vocabulary: what init_from_blob checks of an artifact,  *)
(* and encode and decode on what it accepts.  A text is a string of bytes  *)
(* in normal form (Normalization); PreTokens cuts a chunk (PreTokenizer).  *)
(* There are ByteCount byte values, 256 in the code, and byte_to_base_id_  *)
(* holds ids below ByteCount, since its element type is one byte.          *)
(***************************************************************************)
EXTENDS Integers, Sequences, SequencesExt, FiniteSetsExt

CONSTANTS ByteCount,
          Vocabs, MergeLists, AddedLists,  \* contents of the sections in use
          Texts,
          Separator  \* the byte that begins a pre-token

Byte == 0..ByteCount - 1

TokenizerAssumption ==
  /\ ByteCount \in Nat \ {0} /\ Separator \in Byte
  /\ \A v \in Vocabs : v \in Seq(Seq(Byte))
  /\ Texts \subseteq Seq(Byte)

VARIABLES
  artifact,  \* [vocab, merges, added]
  text,      \* what is encoded
  pos,       \* bytes of it that are encoded
  out        \* ids; "refused" is the outcome of the load

vars == <<artifact, text, pos, out>>

(* Tables of the artifact; ids count from 0.                               *)
Token(id) == artifact.vocab[id + 1]

BaseVocab == Len(artifact.vocab)

IsToken(bytes) == \E i \in DOMAIN artifact.vocab : artifact.vocab[i] = bytes

IdOf(bytes) == (CHOOSE i \in DOMAIN artifact.vocab : artifact.vocab[i] = bytes) - 1
-----------------------------------------------------------------------------
(* S1: no empty token, every single byte once, no string twice.            *)
VocabAccepted(vocab) ==
  /\ \A i \in DOMAIN vocab : Len(vocab[i]) >= 1
  /\ \A b \in Byte : \E i \in DOMAIN vocab : vocab[i] = <<b>>
  /\ IsInjective(vocab)

(* S2: ids of tokens, no pair twice, and what a merge makes is a token.    *)
MergesAccepted(vocab, merges) ==
  /\ \A i \in DOMAIN merges : \A k \in 1..2 : merges[i][k] < Len(vocab)
  /\ IsInjective(merges)
  /\ \A i \in DOMAIN merges :
       \E j \in DOMAIN vocab :
         vocab[j] = vocab[merges[i][1] + 1] \o vocab[merges[i][2] + 1]

(* S3: ids behind the vocabulary, in order; no string like the one before. *)
AddedAccepted(vocab, added) ==
  /\ \A i \in DOMAIN added : added[i].id = Len(vocab) + i - 1
  /\ \A i \in 1..Len(added) - 1 : added[i].bytes # added[i + 1].bytes

Accepted(a) == /\ VocabAccepted(a.vocab)
               /\ MergesAccepted(a.vocab, a.merges)
               /\ AddedAccepted(a.vocab, a.added)

(* byte_to_base_id_: the id of the single byte, in one byte.               *)
ByteId(b) == IdOf(<<b>>) % ByteCount
-----------------------------------------------------------------------------
(* The rank of a pair of ids; NoRank if it does not merge.                 *)
NoRank == Len(artifact.merges) + 1

Rank(l, r) == LET hits == {i \in DOMAIN artifact.merges :
                             artifact.merges[i] = <<l, r>>}
              IN  IF hits = {} THEN NoRank ELSE Min(hits)

(* Mutant of BestPair: of two pairs of one rank the last is taken.         *)
BestPairLast(pieces) ==
  LET ranks == [i \in 1..Len(pieces) - 1 |-> Rank(pieces[i], pieces[i + 1])]
  IN  IF \A i \in DOMAIN ranks : ranks[i] = NoRank THEN 0
      ELSE Max({i \in DOMAIN ranks : ranks[i] = Min(Range(ranks))})

(* The pair of least rank, the first of them; 0 if none merges.            *)
BestPair(pieces) ==
  LET ranks == [i \in 1..Len(pieces) - 1 |-> Rank(pieces[i], pieces[i + 1])]
  IN  IF \A i \in DOMAIN ranks : ranks[i] = NoRank THEN 0
      ELSE Min({i \in DOMAIN ranks : ranks[i] = Min(Range(ranks))})

(* The pair at i becomes one piece.                                        *)
MergeAt(pieces, i) ==
  SubSeq(pieces, 1, i - 1)
    \o <<IdOf(Token(pieces[i]) \o Token(pieces[i + 1]))>>
    \o SubSeq(pieces, i + 2, Len(pieces))

RECURSIVE Merged(_)
Merged(pieces) ==
  IF BestPair(pieces) = 0 THEN pieces
  ELSE Merged(MergeAt(pieces, BestPair(pieces)))

(* bpe_encode of one pre-token.                                            *)
BpeEncode(bytes) == Merged([i \in DOMAIN bytes |-> ByteId(bytes[i])])

(* The pre-tokens of a chunk; a separator begins one, as a space does.     *)
PreTokens(chunk) ==
  FoldLeft(LAMBDA acc, b :
             IF b = Separator \/ acc = <<>>
             THEN Append(acc, <<b>>)
             ELSE Append(Front(acc), Append(Last(acc), b)),
           <<>>, chunk)

AddedAt(p) == {i \in DOMAIN artifact.added :
                 LET t == artifact.added[i].bytes
                 IN  p + Len(t) <= Len(text) /\ SubSeq(text, p + 1, p + Len(t)) = t}

Encoding == out # "refused" /\ pos < Len(text)

Init == /\ artifact \in [vocab : Vocabs, merges : MergeLists, added : AddedLists]
        /\ text \in IF Accepted(artifact) THEN Texts ELSE {<<>>}
        /\ pos = 0
        /\ out = IF Accepted(artifact) THEN <<>> ELSE "refused"

(* encode: the longest added token that matches here.                      *)
TakeAdded ==
  /\ Encoding /\ AddedAt(pos) # {}
  /\ LET size(i) == Len(artifact.added[i].bytes)
         longest == Max({size(i) : i \in AddedAt(pos)})
         i == Min({j \in AddedAt(pos) : size(j) = longest})
     IN  out' = Append(out, artifact.added[i].id) /\ pos' = pos + longest
  /\ UNCHANGED <<artifact, text>>

(* encode: the chunk up to the next added token, pre-token by pre-token.   *)
TakeChunk ==
  /\ Encoding /\ AddedAt(pos) = {}
  /\ LET next == Min({Len(text)} \cup
                       {q \in pos + 1..Len(text) - 1 : AddedAt(q) # {}})
         pre == PreTokens(SubSeq(text, pos + 1, next))
     IN  /\ out' = out \o FlattenSeq([i \in DOMAIN pre |-> BpeEncode(pre[i])])
         /\ pos' = next
  /\ UNCHANGED <<artifact, text>>

Next == TakeAdded \/ TakeChunk

(* decode: the bytes of the ids; special tokens may be left out, and ids   *)
(* behind the added tokens stand for nothing.                              *)
DecodeId(id, skip) ==
  LET i == id - BaseVocab + 1
      shown == i <= Len(artifact.added) /\ ~(skip /\ artifact.added[i].special)
  IN  CASE id < BaseVocab -> Token(id)
        [] id >= BaseVocab /\ shown -> artifact.added[i].bytes
        [] OTHER -> <<>>

Decode(ids, skip) == FlattenSeq([i \in DOMAIN ids |-> DecodeId(ids[i], skip)])
-----------------------------------------------------------------------------
Loaded == out # "refused"

(* Decoding what was encoded gives the text back, at every point.          *)
ReadsBack == Loaded => Decode(out, FALSE) = SubSeq(text, 1, pos)

(* encode always gets on: every id stands for at least a byte of the text. *)
(* An id that stands for none is emitted without end.                      *)
GetsOn == Loaded => Len(out) <= pos

(* The merges an artifact of a trained tokenizer has: every token a merge  *)
(* makes is new, and what it joins was made before.                        *)
Made(i) == Token(artifact.merges[i][1]) \o Token(artifact.merges[i][2])

Trained ==
  /\ \A i, j \in DOMAIN artifact.merges : i # j => Made(i) # Made(j)
  /\ \A i \in DOMAIN artifact.merges, k \in 1..2 :
       LET part == Token(artifact.merges[i][k])
       IN  Len(part) = 1 \/ \E j \in 1..i - 1 : Made(j) = part

(* One rule applied to all of its places, from the left.                   *)
RECURSIVE Applied(_, _)
Applied(rule, pieces) ==
  IF Len(pieces) < 2 THEN pieces
  ELSE IF SubSeq(pieces, 1, 2) = rule
       THEN <<IdOf(Token(rule[1]) \o Token(rule[2]))>>
              \o Applied(rule, SubSeq(pieces, 3, Len(pieces)))
       ELSE <<Head(pieces)>> \o Applied(rule, Tail(pieces))

(* Picking one pair at a time comes to what the merges mean as they were   *)
(* learned: each rule in its turn, applied to the whole pre-token.         *)
MergesInTurn ==
  Loaded /\ Trained =>
    BpeEncode(text) = FoldLeft(LAMBDA pieces, rule : Applied(rule, pieces),
                               [i \in DOMAIN text |-> ByteId(text[i])],
                               artifact.merges)

(* bpe_encode: "merge output not in vocab (internal)" cannot happen.       *)
MergesKnown ==
  Loaded => \A l, r \in 0..BaseVocab - 1 :
              Rank(l, r) # NoRank => IsToken(Token(l) \o Token(r))

(* The comment in encode: "Longest added-token match at pos".  No added    *)
(* token of the text is cut: where one begins there is the longest one in  *)
(* the ids, or one that began before it.                                   *)
AddedKept ==
  LET from(i) == Len(Decode(SubSeq(out, 1, i - 1), FALSE))
      size(i) == Len(DecodeId(out[i], FALSE))
  IN  Loaded => \A q \in 0..pos - 1 : AddedAt(q) # {} =>
        \E i \in DOMAIN out :
          /\ out[i] >= BaseVocab /\ q \in from(i)..from(i) + size(i) - 1
          /\ q = from(i) => size(i) = Max({Len(artifact.added[k].bytes) : k \in AddedAt(q)})

(* "S3 duplicate added token string": no two added tokens are spelled      *)
(* alike.                                                                  *)
AddedDistinct ==
  Loaded => \A i, j \in DOMAIN artifact.added :
              i # j => artifact.added[i].bytes # artifact.added[j].bytes
=============================================================================
