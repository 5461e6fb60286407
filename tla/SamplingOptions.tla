---------------------------- MODULE SamplingOptions ----------------------------
(***************************************************************************)
(* How three programs read the options of a turn: the query of the HTTP    *)
(* server (resolve_turn_query), the arguments of cudalm-generate and those *)
(* of cudalm-chat.  A value is one of a few texts, told apart by what the  *)
(* number parsers make of it.                                              *)
(***************************************************************************)
EXTENDS Integers, Sequences, FiniteSets, SequencesExt, TLC

CONSTANTS
  Cap, MaxInt, MaxWord,  \* the caps of parse_int, int and uint64_t
  MaxOptions             \* bound of the options given

OptionsAssumption ==
  /\ {Cap, MaxInt, MaxWord, MaxOptions} \subseteq Nat
  /\ 2 < Cap /\ Cap < MaxInt /\ MaxInt < MaxWord

VARIABLE options       \* [key, text], in the order they are given

(* The texts that are digits only, and their numbers.                      *)
Digits == "zero" :> 0 @@ "one" :> 1 @@ "two" :> 2 @@ "over_cap" :> Cap + 1
            @@ "over_int" :> MaxInt + 1 @@ "over_word" :> MaxWord + 1

(* The texts that strtod takes to their end, and the float they round to.  *)
(* "tiny" is not zero but rounds to it, "vanishing" underflows in strtod;  *)
(* "large" overflows to infinity.                                          *)
Floats == "zero" :> "zero" @@ "minus_zero" :> "zero" @@ "tiny" :> "zero"
            @@ "vanishing" :> "zero" @@ "minus_one" :> "negative"
            @@ "half" :> "half" @@ "one" :> "one" @@ "two" :> "above"
            @@ "plus_two" :> "above" @@ "over_cap" :> "above"
            @@ "over_int" :> "above" @@ "over_word" :> "above"
            @@ "large" :> "inf" @@ "nan" :> "nan"

Spellings == DOMAIN Digits \cup DOMAIN Floats \cup {"junk", "empty", "percent"}

Keys == {"max_new_tokens", "temperature", "top_k", "top_p", "seed",
         "deadline_ms", "greedy", "unknown"}

(* The texts worth telling apart for a key.                                *)
SpellingsOf(key) ==
  CASE key = "temperature" -> Spellings
    [] key = "top_p" -> {"zero", "tiny", "half", "one", "two", "minus_one",
                         "nan", "junk"}
    [] key = "top_k" -> {"zero", "two", "plus_two", "minus_one", "over_int",
                         "over_word", "half"}
    [] key = "seed" -> {"zero", "two", "over_word", "junk"}
    [] key = "max_new_tokens" -> {"zero", "two", "plus_two", "over_cap",
                                  "minus_one", "percent"}
    [] key = "deadline_ms" -> {"zero", "two", "empty"}
    [] key \in {"greedy", "unknown"} -> {"empty"}

Options == UNION {[key : {key}, text : SpellingsOf(key)] : key \in Keys}

Init == options \in BoundedSeq(Options, MaxOptions)

Next == UNCHANGED options

Given(key) == \E i \in DOMAIN options : options[i].key = key

(* The text of a key: the last one given, as a map and a variable have it. *)
TextOf(key) ==
  Last(SelectSeq(options, LAMBDA o : o.key = key)).text

(* The texts a key was given with.                                         *)
TextsGiven(key) == {o.text : o \in {o \in Range(options) : o.key = key}}

-----------------------------------------------------------------------------
(* The parsers, as the texts they accept.                                  *)
IntOK(t, allow_zero) ==
  \/ t = "plus_two"
  \/ t \in DOMAIN Digits /\ Digits[t] <= Cap /\ (Digits[t] = 0 => allow_zero)

UintOK(t) == t \in DOMAIN Digits /\ Digits[t] <= MaxWord

TopKOK(t) == UintOK(t) /\ Digits[t] <= MaxInt

FloatOK(t) == t \in DOMAIN Floats

(* A temperature rounds to a finite float, and to zero only from zero.     *)
TemperatureOK(t) ==
  /\ FloatOK(t)
  /\ Floats[t] \notin {"inf", "nan"}
  /\ Floats[t] = "zero" => t \in {"zero", "minus_zero"}

(* validate_sampling_config; a parsed top_k is never negative.             *)
ConfigOK(c) == /\ c.temperature \notin {"inf", "nan"}
               /\ c.top_k >= 0
               /\ c.top_p \in {"half", "one"}

Greedy == [temperature |-> "zero", top_k |-> 0, top_p |-> "one", seed |-> 0]

IsGreedy(c) == c.temperature \in {"zero", "negative"}

(* The configuration of the flags given: an omitted temperature is 1.      *)
Sampled(top_k, seed) ==
  [temperature |-> IF Given("temperature") THEN Floats[TextOf("temperature")]
                   ELSE "one",
   top_k |-> IF Given("top_k") THEN top_k ELSE 0,
   top_p |-> IF Given("top_p") THEN Floats[TextOf("top_p")] ELSE "one",
   seed |-> IF Given("seed") THEN seed ELSE 0]

Flagged == Given("temperature") \/ Given("top_k") \/ Given("top_p")

Parsed == Sampled(Digits[TextOf("top_k")], Digits[TextOf("seed")])

(* Mutant of ServerConfig: a seed alone turns sampling on.                 *)
ServerConfigOnSeed == IF Flagged \/ Given("seed") THEN Parsed ELSE Greedy

(* The server's query: none of the flags is greedy, a seed alone is not    *)
(* one of them.                                                            *)
ServerConfig == IF Flagged THEN Parsed ELSE Greedy

(* Only the last value of a key is parsed.                                 *)
ServerOK ==
  LET last(key, Accepts(_)) == Given(key) => Accepts(TextOf(key))
  IN  /\ \A i \in DOMAIN options : options[i].text # "percent"
      /\ ~Given("unknown") /\ ~Given("greedy")
      /\ last("max_new_tokens", LAMBDA t : IntOK(t, FALSE))
      /\ last("temperature", TemperatureOK)
      /\ last("top_k", TopKOK)
      /\ last("top_p", FloatOK)
      /\ last("seed", UintOK)
      /\ ConfigOK(ServerConfig)
      /\ last("deadline_ms", LAMBDA t : IntOK(t, TRUE))

(* cudalm-generate: every value is parsed as it comes, and validated by    *)
(* the program.                                                            *)
GenerateConfig == IF Given("greedy") \/ ~Flagged THEN Greedy ELSE Parsed

GenerateOK ==
  /\ ~Given("unknown") /\ ~Given("deadline_ms")
  /\ \A t \in TextsGiven("max_new_tokens") : TopKOK(t)
  /\ \A t \in TextsGiven("temperature") : TemperatureOK(t)
  /\ \A t \in TextsGiven("top_k") : TopKOK(t)
  /\ \A t \in TextsGiven("top_p") : FloatOK(t)
  /\ \A t \in TextsGiven("seed") : UintOK(t)
  /\ ~(Given("greedy") /\ Flagged)
  /\ ConfigOK(GenerateConfig)

(* cudalm-chat: strtod, atoi and strtoull.                                 *)
Atoi(t) == CASE t \in DOMAIN Digits /\ Digits[t] <= MaxInt -> Digits[t]
             [] t = "plus_two" -> 2
             [] t = "minus_one" -> -1
             [] OTHER -> 0

Strtoull(t) == CASE UintOK(t) -> Digits[t]
                 [] t = "over_word" -> MaxWord
                 [] OTHER -> 0

ChatConfig == IF Given("greedy") \/ ~(Flagged \/ Given("seed")) THEN Greedy
              ELSE Sampled(Atoi(TextOf("top_k")), Strtoull(TextOf("seed")))

ChatOK == /\ ~Given("unknown") /\ ~Given("deadline_ms")
          /\ \A t \in TextsGiven("temperature") : FloatOK(t)
          /\ \A t \in TextsGiven("top_p") : FloatOK(t)
          /\ \A t \in TextsGiven("max_new_tokens") : Atoi(t) >= 0
          /\ ConfigOK(ChatConfig)
-----------------------------------------------------------------------------
Once == \A i, j \in DOMAIN options : options[i].key = options[j].key => i = j

(* The server and cudalm-generate make the same configuration of the same  *)
(* sampling options, or both refuse them.                                  *)
ServerMirrorsGenerate ==
  Once /\ (\A i \in DOMAIN options :
             options[i].key \in {"temperature", "top_k", "top_p", "seed"}) =>
    /\ ServerOK <=> GenerateOK
    /\ ServerOK => ServerConfig = GenerateConfig

(* What cudalm-chat accepts, too, it reads the same way, unless a seed is  *)
(* the only flag: its parsers take more texts, but none to another number. *)
ChatMirrorsGenerate ==
  ChatOK /\ GenerateOK /\ (Flagged \/ Given("greedy") \/ ~Given("seed")) =>
    ChatConfig = GenerateConfig

(* Who asked to sample is not answered greedily: with a temperature given, *)
(* the greedy path is only taken for one that denotes zero or less, and    *)
(* without any flag it is always taken.                                    *)
NoSilentGreedy ==
  /\ ServerOK /\ IsGreedy(ServerConfig) /\ Given("temperature") =>
       TextOf("temperature") \in {"zero", "minus_zero", "minus_one"}
  /\ GenerateOK /\ IsGreedy(GenerateConfig) /\ Given("temperature") =>
       TextOf("temperature") \in {"zero", "minus_zero", "minus_one"}
  /\ ServerOK /\ ~Flagged => IsGreedy(ServerConfig)

=============================================================================
