----------------------------- MODULE MCGeneration -----------------------------
(***************************************************************************)
(* From a text to a text, part by part: how UTF-8 is read, the normal      *)
(* form, the pre-tokens, the vocabulary, the tables behind them, the       *)
(* choice of a token, the engines that generate, and the options of a      *)
(* turn.  A behaviour is of one part; the variables of the others stay as  *)
(* they are.                                                               *)
(***************************************************************************)
EXTENDS Generators, MCArtifacts, TLC

CONSTANTS ByteCount, Separator  \* of Tokenizer

VARIABLES
  part,
  input, text, out,    \* of several
  artifact, pos,       \* of Tokenizer
  stream, pending, ready, composee, cbuf, state,  \* of Normalization
  comp, ranges,        \* of TokenizerTables
  kept, p,             \* of Sampling
  options              \* of SamplingOptions

(* Bytes at both ends of every class of Table 3-7 of the standard.         *)
Utf == INSTANCE Utf8 WITH
  Bytes <- {65, 128, 143, 144, 159, 160, 191, 193, 194, 224, 237, 239, 240,
            243, 244, 245}, MaxLen <- 4
MCBeginnings == Utf!Beginnings

(* A starter A with three marks, two of the same class, one of a lesser    *)
(* one; composites of a composite; a pair of starters that composes, as    *)
(* Hangul syllables do; and a singleton, which decomposes and never comes  *)
(* back.                                                                   *)
MCAll == {"A", "B", "S", "Ax", "Ay", "Axy", "Ayz", "BA", "x", "y", "z"}

MCCcc == [c \in MCAll |-> CASE c = "x" -> 7 [] c \in {"y", "z"} -> 230
                            [] OTHER -> 0]

MCDecomp == "Ax" :> <<"A", "x">> @@ "Ay" :> <<"A", "y">>
            @@ "Axy" :> <<"Ax", "y">> @@ "Ayz" :> <<"Ay", "z">>
            @@ "BA" :> <<"B", "A">> @@ "S" :> <<"A">>

MCComp == <<"A", "x">> :> "Ax" @@ <<"A", "y">> :> "Ay"
          @@ <<"Ax", "y">> :> "Axy" @@ <<"Ay", "z">> :> "Ayz"
          @@ <<"B", "A">> :> "BA"

Nfc == INSTANCE Normalization WITH
  CodePoints <- MCAll, Ccc <- MCCcc, Decomp <- MCDecomp, Comp <- MCComp,
  MaxText <- 4

Pre == INSTANCE PreTokenizer WITH
  Letters <- {"S", "r", "e", "both"}, Numbers <- {"1"}, Marks <- {"mark"},
  Spaces <- {" ", "nl", "cr", "both"}, Others <- {"'", "-"}, MaxText <- 4

Tables == INSTANCE TokenizerTables WITH MaxCp <- 2, Shift <- 3, Rows <- 3

(* A fourth of the weight at each step, and none at a distance of three.   *)
Choice == INSTANCE Sampling WITH
  Vocab <- 4, Logits <- 0..3, Weight <- <<16, 4, 1, 0>>, Unit <- 16,
  TopP <- {1, 5, 7, 9, 10}

Vocabulary == INSTANCE Tokenizer WITH
  Vocabs <- MCVocabs, MergeLists <- MCMergeLists, AddedLists <- MCAddedLists,
  Texts <- MCTexts

(* The engines as the configuration bounds them, and a run more of inputs  *)
(* and outputs of one token.                                               *)
Longer == INSTANCE Generators WITH MaxInput <- 1, MaxNew <- 1, MaxRuns <- 3

Flags == INSTANCE SamplingOptions WITH
  Cap <- 3, MaxInt <- 5, MaxWord <- 7, MaxOptions <- 3

ASSUME PartsAssumption ==
  /\ Vocabulary!TokenizerAssumption
  /\ Utf!Utf8Assumption /\ Nfc!NormalizationAssumption
  /\ Pre!PreTokenizerAssumption /\ Tables!TablesAssumption
  /\ Choice!SamplingAssumption /\ Flags!OptionsAssumption

buffers == <<stream, pending, ready, composee, cbuf, state>>
tokens == <<artifact, text, pos, out>>

NoBuffers == /\ stream = <<>> /\ pending = <<>> /\ ready = <<>>
             /\ composee = <<>> /\ cbuf = <<>> /\ state = "none"
NoVocabulary == artifact = <<>> /\ pos = 0

MCInit ==
  /\ part \in {"utf8", "nfc", "pretokens", "vocabulary", "tables", "choice",
               "turns", "more turns", "flags"}
  /\ \/ part = "utf8" /\ Utf!Init /\ kept = {} /\ p = <<>>
     \/ part = "choice" /\ Choice!Init
     \/ part \notin {"utf8", "choice"} /\ input = <<>> /\ kept = {} /\ p = <<>>
  /\ \/ part = "nfc" /\ Nfc!Init /\ NoVocabulary
     \/ part = "pretokens" /\ Pre!Init /\ NoBuffers /\ NoVocabulary /\ out = <<>>
     \/ part = "vocabulary" /\ Vocabulary!Init /\ NoBuffers
     \/ /\ part \notin {"nfc", "pretokens", "vocabulary"}
        /\ NoBuffers /\ NoVocabulary /\ text = <<>> /\ out = <<>>
  /\ \/ part = "tables" /\ Tables!Init
     \/ part # "tables" /\ comp = <<>> /\ ranges = <<>>
  /\ Init
  /\ \/ part = "flags" /\ Flags!Init
     \/ part # "flags" /\ options = <<>>

MCNext ==
  /\ UNCHANGED <<part, input, comp, ranges, options>>
  /\ \/ part = "nfc" /\ Nfc!Next /\ UNCHANGED <<artifact, pos, kept, p, vars>>
     \/ part = "vocabulary" /\ Vocabulary!Next /\ UNCHANGED <<buffers, kept, p, vars>>
     \/ part = "choice" /\ Choice!Next /\ UNCHANGED <<tokens, buffers, vars>>
     \/ part = "turns" /\ Next /\ UNCHANGED <<tokens, buffers, kept, p>>
     \/ part = "more turns" /\ Longer!Next /\ UNCHANGED <<tokens, buffers, kept, p>>
-----------------------------------------------------------------------------
(* utf8_decode and utf8_lossy, written apart, agree on what is well formed *)
(* (Table 3-7 of the standard): the strict one accepts one spelling of     *)
(* each text, the lossy one replaces each maximal invalid subpart by one   *)
(* U+FFFD.                                                                 *)
ReadersAgree ==
  part = "utf8" => Utf!ReadsBack /\ Utf!ReadersAgree /\ Utf!MaximalSubparts(MCBeginnings)

(* The one pass of nfc_impl comes to what UAX #15 defines, loses nothing   *)
(* on the way, and finds in its tables exactly what they say.              *)
NormalFormIsStandard ==
  /\ part = "nfc" => Nfc!StandardNfc /\ Nfc!NothingLost
  /\ part = "tables" => Tables!FindsRows /\ Tables!RangesApart

(* The matcher finds at every place what the pattern means, and the        *)
(* pre-tokens are the whole text.                                          *)
MatcherMeansPattern ==
  part = "pretokens" => Pre!MatcherMeansPattern /\ Pre!CutsAll

(* encode comes to what the merges mean as they were learned, cuts no      *)
(* added token, and decode gives the text back.                            *)
MergesAsLearned ==
  part = "vocabulary" =>
    /\ Vocabulary!MergesInTurn /\ Vocabulary!MergesKnown
    /\ Vocabulary!AddedKept /\ Vocabulary!GetsOn /\ Vocabulary!ReadsBack

(* The filters keep a top of the ranking and no more than top_k and top_p  *)
(* ask for; every kept token is drawn as often as its probability says,    *)
(* and one kept token is the greedy one.                                   *)
DrawsFromNucleus ==
  part = "choice" =>
    Choice!NucleusExact /\ Choice!DrawsAreFair /\ Choice!GreedyLimit

(* The server, cudalm-generate and, but for a seed alone, cudalm-chat make *)
(* the same configuration of the same options, and who asked to sample is  *)
(* not answered greedily.                                                  *)
ServerMirrorsGenerate ==
  part = "flags" => /\ Flags!ServerMirrorsGenerate /\ Flags!ChatMirrorsGenerate
                    /\ Flags!NoSilentGreedy
=============================================================================
