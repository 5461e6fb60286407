--------------------------- MODULE GeneratorsProofs ---------------------------
(***************************************************************************)
(* What a result of the generating engines says was done is what was done, *)
(* and how a conversation was cut into turns shows in none of them.  The   *)
(* model's answers are only ever added to, a run's generated tokens are    *)
(* the model's answers to what was fed before each of them, and so they    *)
(* are a function of the tokens that were told.                            *)
(***************************************************************************)
EXTENDS Generators, Summation, SequenceTheorems

-----------------------------------------------------------------------------
(* What a run was told, and what it has forwarded.                         *)
Told(r) == r.context \o r.input

Runs == [engine : Engines, input : Seq(Tokens), max : Nat, gate : BOOLEAN,
         context : Seq(Tokens), phase : {"input", "generate"}, fed : Nat,
         generated : Seq(Tokens), committed : Nat, forwards : Nat,
         ok : BOOLEAN, length : Nat,
         stop : {"none", "Failed", "Eos", "MaxNewTokens", "MaxSeqLen"}]

(* Whether a run with this gate and limit stops at its count-th token.     *)
Halt(gate, max, token, count) ==
  IF gate /\ token = Eos THEN "Eos"
  ELSE IF count >= max THEN "MaxNewTokens" ELSE "none"

HaltAt(r, k) == Halt(r.gate, r.max, r.generated[k], k)

(* What was fed when the k-th token was sampled.                           *)
Before(r, k) == Told(r) \o SubSeq(r.generated, 1, k - 1)

(* Every generated token is the answer to all the tokens before it.        *)
Answered(m, r) ==
  \A k \in 1..Len(r.generated) :
    Before(r, k) \in DOMAIN m /\ r.generated[k] = m[Before(r, k)]

(* No token but the last one stops the run.                                *)
NoneStops(r) == \A k \in 1..Len(r.generated) - 1 : HaltAt(r, k) = "none"

(* A run that ended of itself: what it generated is determined by what it  *)
(* was told.                                                               *)
Whole(m, r) ==
  r.ok /\ r.stop # "MaxSeqLen" =>
    /\ Reported(r) = r.generated
    /\ r.max = 0 => r.generated = <<>> /\ r.stop = "MaxNewTokens"
    /\ r.max > 0 =>
         /\ r.generated # <<>> /\ Answered(m, r) /\ NoneStops(r)
         /\ r.stop = HaltAt(r, Len(r.generated)) /\ r.stop # "none"

(* What the session holds after the run.                                   *)
Over(r) == r.context \o SubSeq(r.input, 1, r.fed) \o Reported(r)

SessionExact(r) ==
  r.engine # "oneshot" /\ r.fed > 0 =>
    r.length = Len(Over(r)) /\ r.forwards = r.fed + r.committed

OneShotExact(r) ==
  r.engine = "oneshot" =>
    /\ Len(r.input) + Len(r.generated) <= MaxSeqLen
    /\ r.stop \in {"Eos", "MaxNewTokens"} /\ r.generated # <<>> =>
         r.forwards = Len(r.input) + Len(r.generated) - 1

PastSound(m, r) == r \in Runs /\ SessionExact(r) /\ OneShotExact(r) /\ Whole(m, r)

(* The state of the engine of r.                                           *)
Held(r) == IF r.engine = "oneshot" THEN own ELSE history

InputSound(s, r) ==
  /\ r.phase = "input"
  /\ r.fed < Len(r.input) /\ r.generated = <<>> /\ r.committed = 0
  /\ r.forwards = r.fed
  /\ s = r.context \o SubSeq(r.input, 1, r.fed)

GenerateSound(m, s, r) ==
  /\ r.phase = "generate"
  /\ r.fed = Len(r.input) /\ r.generated # <<>> /\ r.max > 0
  /\ r.forwards = r.fed + Len(r.generated) - 1
  /\ r.engine # "oneshot" => r.committed = Len(r.generated) - 1
  /\ r.engine = "oneshot" => Len(r.input) + Len(r.generated) - 1 <= MaxSeqLen
  /\ s = Before(r, Len(r.generated))
  /\ Answered(m, r) /\ NoneStops(r)

(* A run under way, with the model m and the state s of its engine.        *)
RunSound(m, s, r) ==
  /\ r \in Runs
  /\ r.engine = "oneshot" => r.context = <<>> /\ Len(r.input) <= MaxSeqLen
  /\ InputSound(s, r) \/ GenerateSound(m, s, r)

ModelSound(m) == DOMAIN m \subseteq Seq(Tokens) /\ m \in [DOMAIN m -> Tokens]

LastSound ==
  past # <<>> /\ run = Idle =>
    LET r == past[Len(past)]
    IN  r.engine # "oneshot" /\ r.fed > 0 => history \in {<<>>, Over(r)}

IInv ==
  /\ ModelSound(model)
  /\ history \in Seq(Tokens) /\ own \in Seq(Tokens)
  /\ run = Idle \/ RunSound(model, Held(run), run)
  /\ past \in Seq(Runs)
  /\ \A i \in DOMAIN past : PastSound(model, past[i])
  /\ LastSound

-----------------------------------------------------------------------------
(* Sequences: a prefix, a prefix and its next element, and what is added.  *)
LEMMA PrefixFacts ==
  ASSUME NEW S, NEW g \in Seq(S), NEW k \in 0..Len(g)
  PROVE  /\ SubSeq(g, 1, k) \in Seq(S) /\ Len(SubSeq(g, 1, k)) = k
         /\ \A i \in 1..k : SubSeq(g, 1, k)[i] = g[i]
PROOF
<1>1. Len(g) \in Nat /\ k \in Int /\ 1 \in Int
  BY LenProperties
<1>2. \A i \in 1..k : g[i] \in S
  BY <1>1, ElementOfSeq
<1>3. /\ SubSeq(g, 1, k) \in Seq(S)
      /\ Len(SubSeq(g, 1, k)) = IF 1 <= k THEN k - 1 + 1 ELSE 0
      /\ \A i \in 1..k - 1 + 1 : SubSeq(g, 1, k)[i] = g[1 + i - 1]
  BY <1>1, <1>2, SubSeqProperties
<1> QED BY <1>1, <1>3

(* Nothing is a prefix.                                                    *)
LEMMA NoPrefix ==
  ASSUME NEW g
  PROVE  SubSeq(g, 1, 0) = <<>>
PROOF
<1>1. 1 \in Int /\ 0 \in Int /\ 0 < 1
  OBVIOUS
<1> QED BY <1>1, SubSeqEmpty

(* A prefix grows by one element.                                          *)
LEMMA PrefixOneMore ==
  ASSUME NEW S, NEW g \in Seq(S), NEW k \in Nat, k < Len(g)
  PROVE  g[k + 1] \in S /\ SubSeq(g, 1, k + 1) = Append(SubSeq(g, 1, k), g[k + 1])
PROOF
<1>1. Len(g) \in Nat /\ k + 1 \in 1..Len(g) /\ k \in 0..Len(g) /\ k + 1 \in 0..Len(g)
  BY LenProperties
<1>2. g[k + 1] \in S
  BY <1>1, ElementOfSeq
<1>3. PICK p : p = SubSeq(g, 1, k)
  OBVIOUS
<1>4. p \in Seq(S) /\ Len(p) = k /\ \A i \in 1..k : p[i] = g[i]
  BY <1>1, <1>3, PrefixFacts
<1>5. PICK q : q = SubSeq(g, 1, k + 1)
  OBVIOUS
<1>6. q \in Seq(S) /\ Len(q) = k + 1 /\ \A i \in 1..k + 1 : q[i] = g[i]
  BY <1>1, <1>5, PrefixFacts
<1>7. PICK a : a = Append(p, g[k + 1])
  OBVIOUS
<1>8. /\ a \in Seq(S) /\ Len(a) = k + 1
      /\ \A i \in 1..k : a[i] = p[i]
      /\ a[k + 1] = g[k + 1]
  BY <1>2, <1>4, <1>7, AppendProperties
<1>9. \A i \in 1..Len(q) : q[i] = a[i]
  BY <1>4, <1>6, <1>8
<1> QED BY <1>2, <1>3, <1>5, <1>6, <1>7, <1>8, <1>9, SeqEqual

(* What is added leaves the prefixes.                                      *)
LEMMA PrefixKept ==
  ASSUME NEW S, NEW g \in Seq(S), NEW e \in S, NEW k \in 0..Len(g)
  PROVE  SubSeq(Append(g, e), 1, k) = SubSeq(g, 1, k)
PROOF
<1>1. PICK a : a = Append(g, e)
  OBVIOUS
<1>2. /\ a \in Seq(S) /\ Len(a) = Len(g) + 1
      /\ \A i \in 1..Len(g) : a[i] = g[i]
  BY <1>1, AppendProperties
<1>3. Len(g) \in Nat /\ k \in 0..Len(a)
  BY <1>2, LenProperties
<1>4. PICK p : p = SubSeq(g, 1, k)
  OBVIOUS
<1>5. PICK q : q = SubSeq(a, 1, k)
  OBVIOUS
<1>6. p \in Seq(S) /\ Len(p) = k /\ \A i \in 1..k : p[i] = g[i]
  BY <1>4, PrefixFacts
<1>7. q \in Seq(S) /\ Len(q) = k /\ \A i \in 1..k : q[i] = a[i]
  BY <1>2, <1>3, <1>5, PrefixFacts
<1>8. \A i \in 1..Len(p) : p[i] = q[i]
  BY <1>2, <1>3, <1>6, <1>7
<1> QED BY <1>1, <1>4, <1>5, <1>6, <1>7, <1>8, SeqEqual

(* Adding to a part is adding to the whole.                                *)
LEMMA AppendToConcat ==
  ASSUME NEW S, NEW s \in Seq(S), NEW t \in Seq(S), NEW e \in S
  PROVE  s \o Append(t, e) = Append(s \o t, e)
PROOF
<1>1. Append(t, e) = t \o <<e>> /\ <<e>> \in Seq(S)
  BY AppendIsConcat
<1>2. s \o t \in Seq(S)
  BY ConcatProperties
<1>3. Append(s \o t, e) = (s \o t) \o <<e>>
  BY <1>2, AppendIsConcat
<1> QED BY <1>1, <1>3, ConcatAssociative

(* The answers of m are answers of n.                                      *)
Grown(m, n) == \A h \in DOMAIN m : h \in DOMAIN n /\ n[h] = m[h]

(* The model learns what it is asked, and forgets nothing.                 *)
LEMMA Learned ==
  ASSUME ModelSound(model), NEW h \in Seq(Tokens), NEW token \in Asked(h),
         Learn(h, token)
  PROVE  /\ token \in Tokens /\ ModelSound(model') /\ Grown(model, model')
         /\ h \in DOMAIN model' /\ model'[h] = token
PROOF
<1>1. token \in Tokens
  BY DEF ModelSound, Asked
<1>2. h \in DOMAIN model => model[h] = token
  BY DEF Asked
<1>3. /\ DOMAIN model' = DOMAIN model \cup {h}
      /\ \A x \in DOMAIN model \cup {h} :
           model'[x] = IF x = h THEN token ELSE model[x]
      /\ model' = [x \in DOMAIN model \cup {h} |-> model'[x]]
  BY DEF Learn
<1>4. ModelSound(model')
  BY <1>1, <1>3 DEF ModelSound
<1> QED BY <1>1, <1>2, <1>3, <1>4 DEF Grown

(* What was answered stays answered.                                       *)
LEMMA AnsweredStays ==
  ASSUME NEW m, NEW n, Grown(m, n), NEW r, Answered(m, r)
  PROVE  Answered(n, r)
  BY DEF Grown, Answered

(* A result that was right stays right.                                    *)
LEMMA ResultStays ==
  ASSUME NEW m, NEW n, Grown(m, n), NEW r, PastSound(m, r)
  PROVE  PastSound(n, r)
  BY AnsweredStays DEF PastSound, Whole

(* One result more.                                                        *)
LEMMA OneResultMore ==
  ASSUME past \in Seq(Runs), \A i \in DOMAIN past : PastSound(model, past[i]),
         NEW n, Grown(model, n), NEW r, PastSound(n, r),
         NEW q, q = Append(past, r)
  PROVE  /\ q \in Seq(Runs) /\ q # <<>> /\ q[Len(q)] = r
         /\ \A i \in DOMAIN q : PastSound(n, q[i])
PROOF
<1>1. r \in Runs
  BY DEF PastSound
<1>2. /\ q \in Seq(Runs) /\ q # <<>> /\ Len(q) = Len(past) + 1
      /\ \A i \in 1..Len(past) : q[i] = past[i]
      /\ q[Len(past) + 1] = r
  BY <1>1, AppendProperties
<1>3. /\ DOMAIN q = 1..Len(q) /\ Len(past) \in Nat
      /\ DOMAIN past = 1..Len(past)
  BY <1>2, LenProperties
<1>4. \A i \in DOMAIN past : PastSound(n, past[i])
  BY ResultStays
<1>5. ASSUME NEW i \in DOMAIN q PROVE PastSound(n, q[i])
  <2>1. CASE i \in 1..Len(past)
    BY <1>2, <1>3, <1>4, <2>1
  <2>2. CASE i = Len(past) + 1
    BY <1>2, <2>2
  <2> QED BY <1>2, <1>3, <2>1, <2>2
<1> QED BY <1>2, <1>5

(* The first answer, and one answer more.                                  *)
LEMMA OneAnswerMore ==
  ASSUME NEW r \in Runs, NEW q \in Runs, NEW m, NEW n, NEW token \in Tokens,
         Grown(m, n), Answered(m, r), NoneStops(r),
         r.generated # <<>> => HaltAt(r, Len(r.generated)) = "none",
         q.generated = Append(r.generated, token),
         q.context = r.context, q.input = r.input,
         q.gate = r.gate, q.max = r.max,
         Told(r) \o r.generated \in DOMAIN n,
         n[Told(r) \o r.generated] = token
  PROVE  /\ Answered(n, q) /\ NoneStops(q) /\ q.generated # <<>>
         /\ Len(q.generated) = Len(r.generated) + 1
         /\ Before(q, Len(q.generated)) = Told(r) \o r.generated
PROOF
<1>1. PICK g : g = r.generated
  OBVIOUS
<1>2. PICK c : c = q.generated
  OBVIOUS
<1>3. g \in Seq(Tokens) /\ c = Append(g, token)
  BY <1>1, <1>2 DEF Runs
<1>4. /\ c \in Seq(Tokens) /\ c # <<>> /\ Len(c) = Len(g) + 1
      /\ \A i \in 1..Len(g) : c[i] = g[i]
      /\ c[Len(g) + 1] = token
  BY <1>3, AppendProperties
<1>5. Len(g) \in Nat
  BY <1>3, LenProperties
<1>6. Told(q) = Told(r)
  BY DEF Told
<1>7. \A k \in 0..Len(g) : SubSeq(c, 1, k) = SubSeq(g, 1, k)
  BY <1>3, PrefixKept
<1>8. \A k \in 1..Len(g) : Before(q, k) = Before(r, k)
  <2> TAKE k \in 1..Len(g)
  <2>1. k - 1 \in 0..Len(g)
    BY <1>5
  <2> QED BY <1>1, <1>2, <1>6, <1>7, <2>1 DEF Before
<1>9. Before(q, Len(g) + 1) = Told(r) \o g
  <2>1. Len(g) \in 0..Len(g) /\ Len(g) + 1 - 1 = Len(g)
    BY <1>5
  <2>2. SubSeq(c, 1, Len(g)) = g
    BY <1>3, <1>7, <2>1, SubSeqFull
  <2>3. PICK k : k = Len(g) + 1
    OBVIOUS
  <2>4. k - 1 = Len(g)
    BY <2>1, <2>3
  <2>5. Before(q, k) = Told(q) \o SubSeq(c, 1, k - 1)
    BY <1>2 DEF Before
  <2> QED BY <1>6, <2>2, <2>3, <2>4, <2>5
<1>10. Answered(n, q)
  <2>1. Answered(n, r)
    BY AnsweredStays
  <2>2. \A k \in 1..Len(g) : Before(q, k) \in DOMAIN n /\ c[k] = n[Before(q, k)]
    BY <1>1, <1>4, <1>8, <2>1 DEF Answered
  <2>3. Before(q, Len(g) + 1) \in DOMAIN n
        /\ c[Len(g) + 1] = n[Before(q, Len(g) + 1)]
    BY <1>1, <1>4, <1>9
  <2>4. \A k \in 1..Len(c) : k \in 1..Len(g) \/ k = Len(g) + 1
    BY <1>4, <1>5
  <2> QED BY <1>2, <2>2, <2>3, <2>4 DEF Answered
<1>11. NoneStops(q)
  <2>1. ASSUME NEW k \in 1..Len(c) - 1 PROVE HaltAt(q, k) = "none"
    <3>1. k \in 1..Len(g) /\ c[k] = g[k]
      BY <1>4, <1>5
    <3>2. HaltAt(q, k) = HaltAt(r, k)
      BY <1>1, <1>2, <3>1 DEF HaltAt
    <3>3. CASE k = Len(g)
      <4>1. g # <<>>
        BY <3>1, <3>3
      <4> QED BY <1>1, <3>2, <3>3, <4>1
    <3>4. CASE k # Len(g)
      <4>1. k \in 1..Len(g) - 1
        BY <1>5, <3>1, <3>4
      <4> QED BY <1>1, <3>2, <4>1 DEF NoneStops
    <3> QED BY <3>3, <3>4
  <2> QED BY <1>2, <2>1 DEF NoneStops
<1> QED BY <1>1, <1>2, <1>4, <1>9, <1>10, <1>11

-----------------------------------------------------------------------------
(* Why a run can be over.                                                  *)
Stops == {"none", "Failed", "Eos", "MaxNewTokens", "MaxSeqLen"}

(* A run that is over leaves a sound result, when the session is at what   *)
(* it reports and what it generated is whole.                              *)
LEMMA Ending ==
  ASSUME IInv, NEW r \in Runs, NEW ok \in BOOLEAN, NEW stop \in Stops,
         Finish(r, ok, stop), model' = model,
         history' \in Seq(Tokens), own' \in Seq(Tokens),
         r.engine # "oneshot" =>
           history' = Over(r) /\ r.forwards = r.fed + r.committed,
         r.engine = "oneshot" =>
           /\ Len(r.input) + Len(r.generated) <= MaxSeqLen
           /\ stop \in {"Eos", "MaxNewTokens"} /\ r.generated # <<>> =>
                r.forwards = Len(r.input) + Len(r.generated) - 1,
         ok /\ stop # "MaxSeqLen" =>
           /\ Reported(r) = r.generated
           /\ r.max = 0 => r.generated = <<>> /\ stop = "MaxNewTokens"
           /\ r.max > 0 =>
                /\ r.generated # <<>> /\ Answered(model, r) /\ NoneStops(r)
                /\ stop = HaltAt(r, Len(r.generated)) /\ stop # "none"
  PROVE  IInv'
PROOF
<1>1. PICK l \in Nat : l = Len(After(r)) /\ (r.engine # "oneshot" => l = Len(history'))
  <2>1. After(r) \in Seq(Tokens)
    BY DEF After
  <2>2. r.engine # "oneshot" => After(r) = history'
    BY DEF After
  <2> QED BY <2>1, <2>2, LenProperties
<1>2. PICK e : e = [r EXCEPT !.ok = ok, !.stop = stop, !.length = l]
  OBVIOUS
<1>3. /\ e \in Runs /\ e.ok = ok /\ e.stop = stop /\ e.length = l
      /\ e.engine = r.engine /\ e.context = r.context /\ e.input = r.input
      /\ e.fed = r.fed /\ e.generated = r.generated /\ e.gate = r.gate
      /\ e.max = r.max /\ e.committed = r.committed /\ e.forwards = r.forwards
  BY <1>2 DEF Runs, Stops
<1>4. past' = Append(past, e) /\ run' = Idle
  BY <1>1, <1>2 DEF Finish
<1>5. /\ Over(e) = Over(r) /\ Reported(e) = Reported(r)
      /\ \A k \in Nat : HaltAt(e, k) = HaltAt(r, k) /\ Before(e, k) = Before(r, k)
  BY <1>3 DEF Over, Reported, HaltAt, Before, Told
<1>6. Len(r.generated) \in Nat
  BY LenProperties DEF Runs
<1>7. SessionExact(e)
  BY <1>1, <1>3, <1>5 DEF SessionExact
<1>8. OneShotExact(e)
  BY <1>3 DEF OneShotExact
<1>9. Whole(model, e)
  <2>1. Answered(model, r) => Answered(model, e)
    BY <1>3, <1>5, <1>6 DEF Answered
  <2>2. NoneStops(r) => NoneStops(e)
    BY <1>3, <1>5, <1>6 DEF NoneStops
  <2> QED BY <1>3, <1>5, <1>6, <2>1, <2>2 DEF Whole
<1>10. PastSound(model, e)
  BY <1>3, <1>7, <1>8, <1>9 DEF PastSound
<1>11. PICK q : q = past'
  OBVIOUS
<1>12. /\ q \in Seq(Runs) /\ q # <<>> /\ q[Len(q)] = e
       /\ \A i \in DOMAIN q : PastSound(model, q[i])
  <2>1. Grown(model, model)
    BY DEF Grown
  <2> QED BY <1>4, <1>10, <1>11, <2>1, OneResultMore DEF IInv
<1>13. LastSound'
  BY <1>3, <1>5, <1>11, <1>12 DEF LastSound
<1> QED BY <1>4, <1>11, <1>12, <1>13 DEF IInv

(* A run that goes on.                                                     *)
LEMMA GoingOn ==
  ASSUME IInv, Grown(model, model'), ModelSound(model'),
         history' \in Seq(Tokens), own' \in Seq(Tokens), past' = past,
         NEW q, run' = q, RunSound(model', After(q), q)
  PROVE  IInv'
PROOF
<1>1. Held(run)' = After(q)
  BY DEF Held, After
<1>2. run' # Idle
  BY DEF RunSound, InputSound, GenerateSound, Idle, Runs
<1>3. LastSound'
  BY <1>2 DEF LastSound
<1>4. \A i \in DOMAIN past' : PastSound(model', past'[i])
  BY ResultStays DEF IInv
<1> QED BY <1>1, <1>3, <1>4 DEF IInv

(* One more token is forwarded, by the engine of the run.                  *)
LEMMA OneForward ==
  ASSUME IInv, RunSound(model, Held(run), run), NEW token \in Tokens,
         Forwarded(token), NEW r, r.engine = run.engine
  PROVE  /\ After(r) = Append(Held(run), token) /\ After(r) \in Seq(Tokens)
         /\ history' \in Seq(Tokens) /\ own' \in Seq(Tokens)
         /\ r.engine # "oneshot" => history' = After(r)
PROOF
<1>1. Append(history, token) \in Seq(Tokens) /\ Append(own, token) \in Seq(Tokens)
  BY AppendProperties DEF IInv
<1> QED BY <1>1 DEF IInv, Forwarded, After, Held

(* Within a bound, in numbers.                                             *)
LEMMA WithinBound ==
  ASSUME NEW a \in Nat, NEW b \in Nat, NEW n \in Nat, a + b <= n
  PROVE  a <= n /\ a + (b + 1) - 1 <= n
  OBVIOUS

(* A run that samples its next token.                                      *)
LEMMA SamplingSound ==
  ASSUME IInv, NEW r \in Runs, Pick(r), Answered(model, r), NoneStops(r),
         r.generated # <<>> => HaltAt(r, Len(r.generated)) = "none",
         After(r) = Told(r) \o r.generated, After(r) \in Seq(Tokens),
         history' \in Seq(Tokens), own' \in Seq(Tokens),
         r.engine = "oneshot" =>
           r.context = <<>> /\ Len(r.input) + Len(r.generated) <= MaxSeqLen,
         r.fed = Len(r.input), r.max > 0,
         r.forwards = r.fed + Len(r.generated),
         r.engine # "oneshot" => r.committed = Len(r.generated)
  PROVE  IInv'
PROOF
<1>1. PICK token \in Asked(After(r)) :
        /\ Learn(After(r), token)
        /\ run' = [r EXCEPT !.phase = "generate", !.generated = Append(@, token)]
        /\ past' = past
  BY DEF Pick
<1>2. /\ token \in Tokens /\ ModelSound(model') /\ Grown(model, model')
      /\ After(r) \in DOMAIN model' /\ model'[After(r)] = token
  <2>1. ModelSound(model)
    BY DEF IInv
  <2> QED BY <1>1, <2>1, Learned
<1>3. PICK g : g = Append(r.generated, token)
  OBVIOUS
<1>4. g \in Seq(Tokens) /\ r.generated \in Seq(Tokens) /\ r.input \in Seq(Tokens)
  BY <1>2, <1>3, AppendProperties DEF Runs
<1>5. PICK q : q = [r EXCEPT !.phase = "generate", !.generated = g]
  OBVIOUS
<1>6. /\ q \in Runs /\ q.generated = g /\ q.phase = "generate"
      /\ q.engine = r.engine /\ q.context = r.context /\ q.input = r.input
      /\ q.fed = r.fed /\ q.gate = r.gate /\ q.max = r.max
      /\ q.committed = r.committed /\ q.forwards = r.forwards
  BY <1>4, <1>5 DEF Runs
<1>7. run' = q
  BY <1>1, <1>3, <1>5
<1>8. /\ Answered(model', q) /\ NoneStops(q) /\ q.generated # <<>>
      /\ Len(q.generated) = Len(r.generated) + 1
      /\ Before(q, Len(q.generated)) = After(r)
  <2>1. PICK n : n = model'
    OBVIOUS
  <2>2. /\ token \in Tokens /\ Grown(model, n)
        /\ Told(r) \o r.generated \in DOMAIN n
        /\ n[Told(r) \o r.generated] = token
    BY <1>2, <2>1
  <2>3. /\ q \in Runs /\ q.generated = Append(r.generated, token)
        /\ q.context = r.context /\ q.input = r.input
        /\ q.gate = r.gate /\ q.max = r.max
    BY <1>3, <1>6
  <2>4. /\ Answered(n, q) /\ NoneStops(q) /\ q.generated # <<>>
        /\ Len(q.generated) = Len(r.generated) + 1
        /\ Before(q, Len(q.generated)) = Told(r) \o r.generated
    BY <2>2, <2>3, OneAnswerMore
  <2> QED BY <2>1, <2>4
<1>9. After(q) = After(r)
  BY <1>6 DEF After
<1>10. Len(r.generated) \in Nat /\ Len(r.input) \in Nat
  BY <1>4, LenProperties
<1>11. MaxSeqLen \in Nat
  BY GeneratorsAssumption
<1>12. GenerateSound(model', After(q), q)
  <2>1. /\ q.fed = Len(q.input) /\ q.max > 0
        /\ q.forwards = q.fed + Len(q.generated) - 1
        /\ q.engine # "oneshot" => q.committed = Len(q.generated) - 1
    BY <1>6, <1>8, <1>10 DEF Runs
  <2>2. q.engine = "oneshot" => Len(q.input) + Len(q.generated) - 1 <= MaxSeqLen
    <3> SUFFICES ASSUME q.engine = "oneshot"
                 PROVE  Len(q.input) + Len(q.generated) - 1 <= MaxSeqLen
      OBVIOUS
    <3>1. PICK a, b : /\ a = Len(r.input) /\ b = Len(r.generated)
                  /\ a \in Nat /\ b \in Nat
      BY <1>10
    <3>2. a + b <= MaxSeqLen
      BY <1>6, <3>1
    <3>3. a + (b + 1) - 1 <= MaxSeqLen
      BY <1>11, <3>1, <3>2, WithinBound
    <3> QED BY <1>6, <1>8, <3>1, <3>3
  <2>3. After(q) = Before(q, Len(q.generated))
    BY <1>8, <1>9
  <2> QED BY <1>6, <1>8, <2>1, <2>2, <2>3 DEF GenerateSound
<1>13. RunSound(model', After(q), q)
  <2>1. q.engine = "oneshot" => q.context = <<>> /\ Len(q.input) <= MaxSeqLen
    <3> SUFFICES ASSUME q.engine = "oneshot"
                 PROVE  q.context = <<>> /\ Len(q.input) <= MaxSeqLen
      OBVIOUS
    <3>1. PICK a, b : /\ a = Len(r.input) /\ b = Len(r.generated)
                  /\ a \in Nat /\ b \in Nat
      BY <1>10
    <3>2. a + b <= MaxSeqLen
      BY <1>6, <3>1
    <3>3. a <= MaxSeqLen
      BY <1>11, <3>1, <3>2, WithinBound
    <3> QED BY <1>6, <3>1, <3>3
  <2> QED BY <1>6, <1>12, <2>1 DEF RunSound
<1> QED BY <1>1, <1>2, <1>7, <1>13, GoingOn

(* A run as it begins.                                                     *)
LEMMA Beginning ==
  ASSUME IInv, NEW engine \in Engines, NEW input \in Seq(Tokens), input # <<>>,
         NEW max \in Nat, NEW gate \in BOOLEAN,
         engine = "oneshot" => Len(input) <= MaxSeqLen /\ own' = <<>>,
         engine # "oneshot" => own' = own,
         UNCHANGED <<model, history, past>>,
         run' = NewRun(engine, input, max, gate)
  PROVE  IInv'
PROOF
<1>1. history \in Seq(Tokens) /\ own \in Seq(Tokens) /\ ModelSound(model)
  BY DEF IInv
<1>2. <<>> \in Seq(Tokens) /\ Len(input) \in Nat /\ 0 < Len(input)
  BY EmptySeq, LenProperties
<1>3. PICK c : c = IF engine = "oneshot" THEN <<>> ELSE history
  OBVIOUS
<1>4. PICK q : q = NewRun(engine, input, max, gate)
  OBVIOUS
<1>5. c \in Seq(Tokens)
  BY <1>1, <1>2, <1>3
<1>6. /\ q \in Runs /\ q.engine = engine /\ q.input = input /\ q.context = c
      /\ q.phase = "input" /\ q.fed = 0 /\ q.generated = <<>>
      /\ q.committed = 0 /\ q.forwards = 0
  BY <1>2, <1>3, <1>4, <1>5 DEF NewRun, Runs
<1>7. After(q) = c
  BY <1>3, <1>6 DEF After
<1>8. c \o SubSeq(input, 1, 0) = c
  BY <1>5, NoPrefix, ConcatEmptySeq
<1>9. InputSound(After(q), q)
  BY <1>2, <1>6, <1>7, <1>8 DEF InputSound
<1>10. RunSound(model', After(q), q)
  BY <1>3, <1>6, <1>9 DEF RunSound
<1>11. Grown(model, model')
  BY DEF Grown
<1>12. own' \in Seq(Tokens)
  BY <1>1, <1>2
<1> QED BY <1>1, <1>4, <1>10, <1>11, <1>12, GoingOn

(* A turn of the facade that is refused leaves a sound result.             *)
LEMMA RefusalSound ==
  ASSUME IInv, run = Idle, NEW input \in Seq(Tokens), NEW max \in Nat,
         TextRefused(input, max)
  PROVE  IInv'
PROOF
<1>1. PICK encoded \in BOOLEAN :
        past' = Append(past,
            [NewRun("text", IF encoded THEN input ELSE <<>>, max, TRUE)
               EXCEPT !.ok = FALSE,
                      !.length = IF encoded THEN Len(history) ELSE 0])
  BY DEF TextRefused
<1>2. UNCHANGED <<model, history, own, run>>
  BY DEF TextRefused
<1>3. PICK i : i = IF encoded THEN input ELSE <<>>
  OBVIOUS
<1>4. PICK l : l = IF encoded THEN Len(history) ELSE 0
  OBVIOUS
<1>5. i \in Seq(Tokens) /\ l \in Nat /\ history \in Seq(Tokens) /\ <<>> \in Seq(Tokens)
  BY <1>3, <1>4, EmptySeq, LenProperties DEF IInv
<1>6. PICK n : n = NewRun("text", i, max, TRUE)
  OBVIOUS
<1>7. n \in Runs /\ n.fed = 0 /\ n.engine = "text"
  BY <1>5, <1>6 DEF NewRun, Runs, Engines
<1>8. PICK e : e = [n EXCEPT !.ok = FALSE, !.length = l]
  OBVIOUS
<1>9. e \in Runs /\ e.fed = 0 /\ e.engine = "text" /\ e.ok = FALSE
  BY <1>5, <1>7, <1>8 DEF Runs
<1>10. past' = Append(past, e)
  BY <1>1, <1>3, <1>4, <1>6, <1>8
<1>11. PastSound(model, e)
  BY <1>9 DEF PastSound, SessionExact, OneShotExact, Whole
<1>12. PICK q : q = past'
  OBVIOUS
<1>13. /\ q \in Seq(Runs) /\ q # <<>> /\ q[Len(q)] = e
       /\ \A k \in DOMAIN q : PastSound(model, q[k])
  <2>1. Grown(model, model)
    BY DEF Grown
  <2> QED BY <1>10, <1>11, <1>12, <2>1, OneResultMore DEF IInv
<1>14. LastSound'
  BY <1>9, <1>12, <1>13 DEF LastSound
<1> QED BY <1>2, <1>12, <1>13, <1>14 DEF IInv, Idle

(* The inputs there are.                                                   *)
LEMMA InputsAre ==
  ASSUME NEW input \in Inputs
  PROVE  input \in Seq(Tokens) /\ input # <<>>
PROOF
<1>1. PICK n \in 0..MaxInput : input \in [1..n -> Tokens]
  BY DEF Inputs, SeqOf
<1>2. n \in Nat
  BY <1>1
<1>3. input \in Seq(Tokens)
  BY <1>1, <1>2, SeqDef
<1> QED BY <1>3 DEF Inputs

(* What begins is sound.                                                   *)
LEMMA StartSound ==
  ASSUME IInv, Start
  PROVE  IInv'
PROOF
<1>1. run = Idle
  BY DEF Start
<1>2. PICK input \in Inputs, max \in 0..MaxNew :
        \/ \E gate \in BOOLEAN : StartTurn("session", input, max, gate)
        \/ StartTurn("text", input, max, TRUE)
        \/ TextRefused(input, max)
        \/ \E i \in DOMAIN past :
             /\ past[i].engine # "oneshot"
             /\ OneShot(past[i].context \o past[i].input, max)
        \/ OneShot(input, max)
  BY DEF Start
<1>3. input \in Seq(Tokens) /\ input # <<>> /\ max \in Nat
  <2>1. max \in Nat
    OBVIOUS
  <2> QED BY <2>1, InputsAre
<1>4. ASSUME NEW engine \in {"session", "text"}, NEW gate \in BOOLEAN,
             StartTurn(engine, input, max, gate)
      PROVE  IInv'
  <2>1. engine \in Engines /\ engine # "oneshot"
    BY DEF Engines
  <2>2. /\ own' = own /\ UNCHANGED <<model, history, past>>
        /\ run' = NewRun(engine, input, max, gate)
    BY <1>4 DEF StartTurn
  <2> QED BY <1>3, <2>1, <2>2, Beginning
<1>5. ASSUME NEW t \in Seq(Tokens), OneShot(t, max)
      PROVE  IInv'
  <2>1. "oneshot" \in Engines /\ TRUE \in BOOLEAN
    BY DEF Engines
  <2>2. /\ t # <<>> /\ Len(t) <= MaxSeqLen /\ own' = <<>>
        /\ UNCHANGED <<model, history, past>>
        /\ run' = NewRun("oneshot", t, max, TRUE)
    BY <1>5 DEF OneShot
  <2> QED BY <1>3, <2>1, <2>2, Beginning
<1>6. CASE \E gate \in BOOLEAN : StartTurn("session", input, max, gate)
  BY <1>4, <1>6
<1>7. CASE StartTurn("text", input, max, TRUE)
  BY <1>4, <1>7
<1>8. CASE TextRefused(input, max)
  BY <1>1, <1>3, <1>8, RefusalSound
<1>9. ASSUME NEW i \in DOMAIN past,
             OneShot(past[i].context \o past[i].input, max)
      PROVE  IInv'
  <2>1. past[i] \in Runs
    BY DEF IInv, PastSound
  <2>2. past[i].context \in Seq(Tokens) /\ past[i].input \in Seq(Tokens)
    BY <2>1 DEF Runs
  <2>3. past[i].context \o past[i].input \in Seq(Tokens)
    BY <2>2, ConcatProperties
  <2> QED BY <1>5, <1>9, <2>3
<1>10. CASE OneShot(input, max)
  BY <1>3, <1>5, <1>10
<1> QED BY <1>2, <1>6, <1>7, <1>8, <1>9, <1>10

(* Nothing is generated while the input is fed.                            *)
LEMMA NothingReported ==
  ASSUME NEW r \in Runs, r.generated = <<>>, r.committed = 0,
         r.fed <= Len(r.input)
  PROVE  /\ Reported(r) = <<>>
         /\ Over(r) = r.context \o SubSeq(r.input, 1, r.fed)
PROOF
<1>1. Reported(r) = <<>>
  BY NoPrefix DEF Reported
<1>2. /\ r.context \in Seq(Tokens) /\ r.input \in Seq(Tokens)
      /\ r.fed \in Nat
  BY DEF Runs
<1>3. PICK p : p = r.context \o SubSeq(r.input, 1, r.fed)
  OBVIOUS
<1>4. r.fed \in 0..Len(r.input)
  BY <1>2, LenProperties
<1>5. SubSeq(r.input, 1, r.fed) \in Seq(Tokens)
  BY <1>2, <1>4, PrefixFacts
<1>6. p \in Seq(Tokens)
  BY <1>2, <1>3, <1>5, ConcatProperties
<1>7. p \o <<>> = p
  BY <1>6, ConcatEmptySeq
<1> QED BY <1>1, <1>3, <1>7 DEF Over

(* A fed token is sound: the next one, the first sampling, the end of a    *)
(* run that is to generate nothing, and the failure.                       *)
LEMMA FeedSound ==
  ASSUME IInv, Feed
  PROVE  IInv'
PROOF
<1>1. run.phase = "input" /\ RunSound(model, Held(run), run) /\ run \in Runs
  BY DEF Feed, IInv, Idle, RunSound
<1>2. InputSound(Held(run), run)
  BY <1>1 DEF RunSound, GenerateSound
<1>3. /\ run.input \in Seq(Tokens) /\ run.context \in Seq(Tokens)
      /\ run.fed \in Nat /\ run.forwards \in Nat /\ run.engine \in Engines
  BY <1>1 DEF Runs
<1>4. /\ run.fed < Len(run.input) /\ run.generated = <<>> /\ run.committed = 0
      /\ run.forwards = run.fed /\ Len(run.input) \in Nat
      /\ Held(run) = run.context \o SubSeq(run.input, 1, run.fed)
  BY <1>2, <1>3, LenProperties DEF InputSound
<1>5. PICK n \in Nat : n = run.fed + 1
  BY <1>3
<1>6. PICK token : token = run.input[n]
  OBVIOUS
<1>7. /\ token \in Tokens
      /\ SubSeq(run.input, 1, n) = Append(SubSeq(run.input, 1, run.fed), token)
  BY <1>3, <1>4, <1>5, <1>6, PrefixOneMore
<1>8. PICK f \in Nat : f = run.forwards + 1
  BY <1>3
<1>9. PICK r : r = [run EXCEPT !.fed = n, !.forwards = f]
  OBVIOUS
<1>10. /\ r \in Runs /\ r.fed = n /\ r.forwards = f /\ r.generated = <<>>
       /\ r.committed = 0 /\ r.engine = run.engine /\ r.input = run.input
       /\ r.context = run.context /\ r.max = run.max /\ r.gate = run.gate
       /\ r.phase = "input" /\ r.ok = run.ok
  BY <1>1, <1>4, <1>9 DEF Runs
<1>11. \/ /\ run.engine # "oneshot"
          /\ Kept /\ UNCHANGED model
          /\ Finish(run, FALSE, "Failed")
       \/ /\ Forwarded(token)
          /\ \/ n # Len(run.input) /\ run' = r /\ UNCHANGED <<model, past>>
             \/ /\ n = Len(run.input) /\ run.max = 0
                /\ UNCHANGED model /\ Finish(r, TRUE, "MaxNewTokens")
             \/ /\ n = Len(run.input) /\ run.engine = "oneshot"
                /\ UNCHANGED model /\ Finish(r, TRUE, "MaxSeqLen")
             \/ /\ n = Len(run.input) /\ run.max # 0
                /\ run.engine = "oneshot" => Len(run.input) < MaxSeqLen
                /\ Pick(r)
  <2>1. \/ /\ run.engine # "oneshot"
           /\ Kept /\ UNCHANGED model
           /\ Finish(run, FALSE, "Failed")
        \/ /\ Forwarded(token)
           /\ CASE ~(n = Len(run.input)) -> run' = r /\ UNCHANGED <<model, past>>
                [] n = Len(run.input) /\ run.max = 0 ->
                     UNCHANGED model /\ Finish(r, TRUE, "MaxNewTokens")
                [] n = Len(run.input) /\ run.max > 0 /\ run.engine = "oneshot"
                     /\ Len(run.input) >= MaxSeqLen ->
                     UNCHANGED model /\ Finish(r, TRUE, "MaxSeqLen")
                [] OTHER -> Pick(r)
    BY <1>5, <1>6, <1>8, <1>9, <1>10 DEF Feed
  <2>2. run.max \in Nat /\ MaxSeqLen \in Nat
    BY <1>1, GeneratorsAssumption DEF Runs
  <2>3. PICK l \in Nat : l = Len(run.input)
    BY <1>4
  <2>4. PICK m \in Nat : m = run.max
    BY <2>2
  <2>5. CASE /\ run.engine # "oneshot"
             /\ Kept /\ UNCHANGED model
             /\ Finish(run, FALSE, "Failed")
    BY <2>5, Zenon
  <2>6. CASE /\ Forwarded(token)
             /\ CASE ~(n = Len(run.input)) -> run' = r /\ UNCHANGED <<model, past>>
                  [] n = Len(run.input) /\ run.max = 0 ->
                       UNCHANGED model /\ Finish(r, TRUE, "MaxNewTokens")
                  [] n = Len(run.input) /\ run.max > 0 /\ run.engine = "oneshot"
                       /\ Len(run.input) >= MaxSeqLen ->
                       UNCHANGED model /\ Finish(r, TRUE, "MaxSeqLen")
                  [] OTHER -> Pick(r)
    <3>1. CASE n # Len(run.input)
      <4>1. run' = r /\ UNCHANGED <<model, past>>
        BY <2>6, <3>1
      <4> QED BY <2>6, <3>1, <4>1, Zenon
    <3>2. CASE n = Len(run.input) /\ run.max = 0
      <4>1. UNCHANGED model /\ Finish(r, TRUE, "MaxNewTokens")
        BY <2>6, <3>2 DEF Finish
      <4> QED BY <2>6, <3>2, <4>1, Zenon
    <3>3. CASE /\ n = Len(run.input) /\ run.max # 0
               /\ run.engine = "oneshot" /\ Len(run.input) >= MaxSeqLen
      <4>1. UNCHANGED model /\ Finish(r, TRUE, "MaxSeqLen")
        BY <2>2, <2>6, <3>3 DEF Finish
      <4> QED BY <2>6, <3>3, <4>1, Zenon
    <3>4. CASE /\ n = Len(run.input) /\ run.max # 0
               /\ ~(run.engine = "oneshot" /\ Len(run.input) >= MaxSeqLen)
      <4>1. Pick(r)
        BY <2>2, <2>6, <3>4
      <4>2. run.engine = "oneshot" => Len(run.input) < MaxSeqLen
        BY <2>2, <2>3, <3>4
      <4> QED BY <2>6, <3>4, <4>1, <4>2, Zenon
    <3> QED BY <3>1, <3>2, <3>3, <3>4
  <2> QED BY <2>1, <2>5, <2>6, Zenon
<1>12. Len(run.input) \in Nat /\ n \in 0..Len(run.input)
  BY <1>3, <1>4, <1>5
<1>13. PICK p : p = SubSeq(run.input, 1, run.fed)
  OBVIOUS
<1>14. p \in Seq(Tokens) /\ SubSeq(run.input, 1, n) = Append(p, token)
  BY <1>3, <1>4, <1>7, <1>13, PrefixFacts
<1>15. CASE /\ run.engine # "oneshot"
            /\ Kept /\ UNCHANGED model
            /\ Finish(run, FALSE, "Failed")
  <2>1. history' = history /\ own' = own /\ model' = model
    BY <1>15 DEF Kept
  <2>2. history \in Seq(Tokens) /\ own \in Seq(Tokens)
    BY DEF IInv
  <2>3. Over(run) = history
    <3>1. run.fed <= Len(run.input)
      BY <1>3, <1>4
    <3>2. Over(run) = Held(run)
      BY <1>1, <1>4, <3>1, NothingReported
    <3> QED BY <1>15, <3>2 DEF Held
  <2>4. run.forwards = run.fed + run.committed
    BY <1>3, <1>4
  <2>5. FALSE \in BOOLEAN /\ "Failed" \in Stops
    BY DEF Stops
  <2> QED BY <1>1, <1>15, <2>1, <2>2, <2>3, <2>4, <2>5, Ending
<1>16. CASE Forwarded(token)
  <2>1. /\ After(r) = Append(Held(run), token) /\ After(r) \in Seq(Tokens)
        /\ history' \in Seq(Tokens) /\ own' \in Seq(Tokens)
        /\ r.engine # "oneshot" => history' = After(r)
    BY <1>1, <1>7, <1>10, <1>16, OneForward
  <2>2. After(r) = r.context \o SubSeq(r.input, 1, n)
    <3>1. run.context \o Append(p, token) = Append(run.context \o p, token)
      <4>1. PICK c \in Seq(Tokens) : c = run.context
        BY <1>3
      <4>2. c \o Append(p, token) = Append(c \o p, token)
        <5>1. c \in Seq(Tokens) /\ p \in Seq(Tokens) /\ token \in Tokens
          BY <1>7, <1>14, <4>1
        <5> QED BY <5>1, AppendToConcat
      <4> QED BY <4>1, <4>2
    <3>2. After(r) = Append(run.context \o p, token)
      BY <1>4, <1>13, <2>1
    <3> QED BY <1>10, <1>14, <3>1, <3>2
  <2>3. Over(r) = After(r) /\ Reported(r) = <<>>
    <3>1. r.fed <= Len(r.input)
      BY <1>10, <1>12
    <3>2. Over(r) = r.context \o SubSeq(r.input, 1, r.fed) /\ Reported(r) = <<>>
      BY <1>10, <3>1, NothingReported
    <3> QED BY <1>10, <2>2, <3>2
  <2>4. r.forwards = n /\ r.forwards = r.fed + r.committed
    BY <1>4, <1>5, <1>8, <1>10
  <2>5. r.engine = "oneshot" => r.context = <<>> /\ Len(r.input) <= MaxSeqLen
    BY <1>1, <1>10 DEF RunSound
  <2>6. Len(r.generated) = 0
    BY <1>10, EmptySeq
  <2>7. r.engine = "oneshot" => Len(r.input) + Len(r.generated) <= MaxSeqLen
    BY <1>10, <1>12, <2>5, <2>6
  <2>8. CASE n # Len(run.input) /\ run' = r /\ UNCHANGED <<model, past>>
    <3>1. InputSound(After(r), r)
      BY <1>10, <1>12, <2>2, <2>4, <2>8 DEF InputSound
    <3>2. RunSound(model', After(r), r)
      BY <1>10, <2>5, <3>1 DEF RunSound
    <3>3. Grown(model, model') /\ ModelSound(model')
      BY <2>8 DEF Grown, IInv
    <3> QED BY <2>1, <2>8, <3>2, <3>3, GoingOn
  <2>9. CASE /\ n = Len(run.input) /\ run.max = 0
             /\ UNCHANGED model /\ Finish(r, TRUE, "MaxNewTokens")
    <3>1. TRUE \in BOOLEAN /\ "MaxNewTokens" \in Stops /\ model' = model
      BY <2>9 DEF Stops
    <3>2. r.max = 0 /\ ~(r.max > 0)
      BY <1>10, <2>9
    <3>3. "MaxNewTokens" \in {"Eos", "MaxNewTokens"} /\ r.generated # <<>> =>
            r.forwards = Len(r.input) + Len(r.generated) - 1
      BY <1>10
    <3> QED BY <1>10, <2>1, <2>3, <2>4, <2>7, <2>9, <3>1, <3>2, <3>3, Ending
  <2>10. CASE /\ n = Len(run.input) /\ run.engine = "oneshot"
              /\ UNCHANGED model /\ Finish(r, TRUE, "MaxSeqLen")
    <3>1. TRUE \in BOOLEAN /\ "MaxSeqLen" \in Stops /\ model' = model
      BY <2>10 DEF Stops
    <3> QED BY <1>10, <2>1, <2>3, <2>4, <2>7, <2>10, <3>1, Ending
  <2>11. CASE /\ n = Len(run.input) /\ run.max # 0
              /\ run.engine = "oneshot" => Len(run.input) < MaxSeqLen
              /\ Pick(r)
    <3>1. Answered(model, r) /\ NoneStops(r)
      BY <2>6 DEF Answered, NoneStops
    <3>2. After(r) = Told(r) \o r.generated
      <4>1. SubSeq(r.input, 1, n) = r.input
        BY <1>3, <1>10, <2>11, SubSeqFull
      <4>2. After(r) = Told(r)
        BY <2>2, <4>1 DEF Told
      <4> QED BY <1>10, <2>1, <4>2, ConcatEmptySeq
    <3>3. r.fed = Len(r.input) /\ r.max > 0 /\ r.forwards = r.fed + Len(r.generated)
          /\ r.committed = Len(r.generated)
      BY <1>10, <2>4, <2>6, <2>11 DEF Runs
    <3> QED BY <1>10, <2>1, <2>5, <2>7, <2>11, <3>1, <3>2, <3>3, SamplingSound
  <2> QED BY <1>11, <1>15, <1>16, <2>8, <2>9, <2>10, <2>11
<1> QED BY <1>11, <1>15, <1>16

(* The last token, and what is before it.                                  *)
LEMMA LastToken ==
  ASSUME NEW g \in Seq(Tokens), g # <<>>
  PROVE  /\ Len(g) \in Nat /\ Len(g) - 1 \in Nat /\ Len(g) - 1 \in 0..Len(g)
         /\ Last(g) = g[Len(g)] /\ Last(g) \in Tokens
         /\ Front(g) = SubSeq(g, 1, Len(g) - 1)
         /\ Append(SubSeq(g, 1, Len(g) - 1), Last(g)) = g
PROOF
<1>1. Len(g) \in Nat \ {0}
  BY EmptySeq
<1>2. Last(g) = g[Len(g)] /\ Front(g) = SubSeq(g, 1, Len(g) - 1)
  BY DEF Last, Front
<1>3. PICK k \in Nat : k = Len(g) - 1
  BY <1>1
<1>4. k < Len(g) /\ k + 1 = Len(g)
  BY <1>1, <1>3
<1>5. /\ g[k + 1] \in Tokens
      /\ SubSeq(g, 1, k + 1) = Append(SubSeq(g, 1, k), g[k + 1])
  BY <1>4, PrefixOneMore
<1>6. SubSeq(g, 1, Len(g)) = g
  BY SubSeqFull
<1> QED BY <1>1, <1>2, <1>3, <1>4, <1>5, <1>6

(* When the last token is forwarded, all that was generated is.            *)
LEMMA LastForwarded ==
  ASSUME NEW r \in Runs, NEW m, NEW s, GenerateSound(m, s, r)
  PROVE  Append(s, Last(r.generated)) = Told(r) \o r.generated
PROOF
<1>1. r.generated \in Seq(Tokens) /\ r.generated # <<>>
  BY DEF GenerateSound, Runs
<1>2. PICK p : p = SubSeq(r.generated, 1, Len(r.generated) - 1)
  OBVIOUS
<1>3. PICK e : e = Last(r.generated)
  OBVIOUS
<1>4. p \in Seq(Tokens) /\ e \in Tokens /\ Append(p, e) = r.generated
  BY <1>1, <1>2, <1>3, LastToken, PrefixFacts
<1>5. PICK t : t = Told(r)
  OBVIOUS
<1>6. t \in Seq(Tokens)
  <2>1. r.context \in Seq(Tokens) /\ r.input \in Seq(Tokens)
    BY DEF Runs
  <2> QED BY <1>5, <2>1, ConcatProperties DEF Told
<1>7. t \o Append(p, e) = Append(t \o p, e)
  <2>1. t \in Seq(Tokens) /\ p \in Seq(Tokens) /\ e \in Tokens
    BY <1>4, <1>6
  <2> QED BY <2>1, AppendToConcat
<1>8. s = t \o p
  BY <1>2, <1>5 DEF GenerateSound, Before
<1> QED BY <1>3, <1>4, <1>5, <1>7, <1>8

(* What is over when all the input was fed.                                *)
LEMMA OverTold ==
  ASSUME NEW r \in Runs, r.fed = Len(r.input)
  PROVE  Over(r) = Told(r) \o Reported(r)
PROOF
<1>1. r.input \in Seq(Tokens)
  BY DEF Runs
<1>2. SubSeq(r.input, 1, r.fed) = r.input
  BY <1>1, SubSeqFull
<1> QED BY <1>2 DEF Over, Told

(* The stop of a token, in the run's terms.                                *)
LEMMA StopIsHalt ==
  ASSUME run \in Runs, NEW token, NEW count \in Nat
  PROVE  /\ Stop(token, count) = Halt(run.gate, run.max, token, count)
         /\ Stop(token, count) \in {"none", "Eos", "MaxNewTokens"}
PROOF
<1>1. run.max \in Nat /\ run.gate \in BOOLEAN
  BY DEF Runs
<1> QED BY <1>1 DEF Stop, Halt

(* A committed token is sound: the failure, the stop, and the next one.    *)
LEMMA CommitSound ==
  ASSUME IInv, Commit
  PROVE  IInv'
PROOF
<1>1. /\ run.phase = "generate" /\ run.engine # "oneshot"
      /\ RunSound(model, Held(run), run) /\ run \in Runs
  BY DEF Commit, IInv, Idle, RunSound
<1>2. GenerateSound(model, Held(run), run)
  BY <1>1 DEF RunSound, InputSound
<1>3. PICK g : g = run.generated
  OBVIOUS
<1>4. PICK n : n = Len(g)
  OBVIOUS
<1>5. /\ g \in Seq(Tokens) /\ g # <<>> /\ run.input \in Seq(Tokens)
      /\ run.committed \in Nat /\ run.forwards \in Nat /\ run.fed \in Nat
  BY <1>1, <1>2, <1>3 DEF Runs, GenerateSound
<1>6. PICK token : token = Last(g)
  OBVIOUS
<1>7. n \in Nat /\ n - 1 \in 0..n /\ token = g[n] /\ token \in Tokens
  BY <1>4, <1>5, <1>6, LastToken
<1>8. /\ run.fed = Len(run.input) /\ run.max > 0
      /\ run.forwards = run.fed + n - 1 /\ run.committed = n - 1
      /\ Held(run) = Told(run) \o SubSeq(g, 1, n - 1)
      /\ Answered(model, run) /\ NoneStops(run)
  BY <1>1, <1>2, <1>3, <1>4 DEF GenerateSound, Before
<1>9. PICK f \in Nat : f = run.forwards + 1
  BY <1>5
<1>10. PICK r : r = [run EXCEPT !.committed = n, !.forwards = f]
  OBVIOUS
<1>11. /\ r \in Runs /\ r.fed = run.fed /\ r.forwards = f /\ r.generated = g
       /\ r.committed = n /\ r.engine = run.engine /\ r.input = run.input
       /\ r.context = run.context /\ r.max = run.max /\ r.gate = run.gate
       /\ r.phase = "generate"
  BY <1>1, <1>3, <1>7, <1>9, <1>10 DEF Runs
<1>12. PICK stop : stop = Stop(token, n)
  OBVIOUS
<1>13. stop = HaltAt(r, n) /\ stop \in {"none", "Eos", "MaxNewTokens"}
  BY <1>1, <1>7, <1>11, <1>12, StopIsHalt DEF HaltAt
<1>14. \/ /\ Kept /\ UNCHANGED model
          /\ Finish(run, FALSE, "Failed")
       \/ /\ Forwarded(token)
          /\ stop = "none" => Pick(r)
          /\ stop # "none" => UNCHANGED model /\ Finish(r, TRUE, stop)
  <2>1. r = [run EXCEPT !.committed = run.committed + 1,
                        !.forwards = run.forwards + 1]
    <3>1. n = run.committed + 1
      BY <1>7, <1>8
    <3> QED BY <1>9, <1>10, <3>1
  <2> QED BY <1>3, <1>4, <1>6, <1>12, <2>1 DEF Commit
<1>15. history \in Seq(Tokens) /\ own \in Seq(Tokens)
  BY DEF IInv
<1>16. CASE Kept /\ UNCHANGED model /\ Finish(run, FALSE, "Failed")
  <2>1. history' = history /\ own' = own /\ model' = model
    BY <1>16 DEF Kept
  <2>2. Reported(run) = SubSeq(g, 1, n - 1)
    BY <1>1, <1>3, <1>8 DEF Reported
  <2>3. Over(run) = history
    BY <1>1, <1>8, <2>2, OverTold DEF Held
  <2>4. run.forwards = run.fed + run.committed
    BY <1>5, <1>7, <1>8
  <2>5. FALSE \in BOOLEAN /\ "Failed" \in Stops
    BY DEF Stops
  <2> QED BY <1>1, <1>15, <1>16, <2>1, <2>3, <2>4, <2>5, Ending
<1>17. CASE /\ Forwarded(token)
            /\ stop = "none" => Pick(r)
            /\ stop # "none" => UNCHANGED model /\ Finish(r, TRUE, stop)
  <2>1. /\ After(r) = Append(Held(run), token) /\ After(r) \in Seq(Tokens)
        /\ history' \in Seq(Tokens) /\ own' \in Seq(Tokens)
        /\ history' = After(r)
    BY <1>1, <1>7, <1>11, <1>17, OneForward
  <2>2. Told(r) = Told(run)
    BY <1>11 DEF Told
  <2>3. After(r) = Told(r) \o g
    BY <1>1, <1>2, <1>3, <1>6, <2>1, <2>2, LastForwarded
  <2>4. Reported(r) = g
    <3>1. SubSeq(g, 1, n) = g
      BY <1>4, <1>5, SubSeqFull
    <3> QED BY <1>1, <1>11, <3>1 DEF Reported
  <2>5. Over(r) = After(r)
    BY <1>8, <1>11, <2>3, <2>4, OverTold
  <2>6. r.forwards = r.fed + n /\ r.forwards = r.fed + r.committed
    BY <1>5, <1>7, <1>8, <1>9, <1>11
  <2>7. Answered(model, r) /\ NoneStops(r)
    BY <1>3, <1>8, <1>11, <2>2
       DEF Answered, NoneStops, Before, HaltAt
  <2>8. CASE stop = "none"
    <3>1. Pick(r) /\ r.fed = Len(r.input) /\ r.max > 0
      BY <1>8, <1>11, <1>17, <2>8
    <3>2. HaltAt(r, Len(r.generated)) = "none"
      BY <1>4, <1>11, <1>13, <2>8
    <3>3. r.forwards = r.fed + Len(r.generated) /\ r.committed = Len(r.generated)
      BY <1>4, <1>11, <2>6
    <3>4. After(r) = Told(r) \o r.generated /\ r.engine # "oneshot"
      BY <1>1, <1>11, <2>3
    <3> QED BY <1>11, <2>1, <2>7, <3>1, <3>2, <3>3, <3>4, SamplingSound
  <2>9. CASE stop # "none"
    <3>1. /\ TRUE \in BOOLEAN /\ stop \in Stops /\ model' = model
          /\ Finish(r, TRUE, stop)
      BY <1>13, <1>17, <2>9 DEF Stops
    <3>2. /\ r.max > 0 /\ r.max # 0 /\ r.generated # <<>>
          /\ stop = HaltAt(r, Len(r.generated)) /\ Reported(r) = r.generated
      BY <1>4, <1>5, <1>8, <1>11, <1>13, <2>4 DEF Runs
    <3>3. r.engine # "oneshot" /\ history' = Over(r)
      BY <1>1, <1>11, <2>1, <2>5
    <3> QED BY <1>11, <2>1, <2>6, <2>7, <2>9, <3>1, <3>2, <3>3, Ending
  <2> QED BY <2>8, <2>9
<1> QED BY <1>14, <1>16, <1>17

(* A placed token is sound: no room for it, the stop, and the next one.    *)
LEMMA PlaceSound ==
  ASSUME IInv, Place
  PROVE  IInv'
PROOF
<1>1. /\ run.phase = "generate" /\ run.engine = "oneshot"
      /\ RunSound(model, Held(run), run) /\ run \in Runs
  BY DEF Place, IInv, Idle, RunSound
<1>2. GenerateSound(model, Held(run), run)
  BY <1>1 DEF RunSound, InputSound
<1>3. PICK g : g = run.generated
  OBVIOUS
<1>4. PICK n : n = Len(g)
  OBVIOUS
<1>5. /\ g \in Seq(Tokens) /\ g # <<>> /\ run.input \in Seq(Tokens)
      /\ run.forwards \in Nat /\ run.fed \in Nat /\ run.max \in Nat
  BY <1>1, <1>2, <1>3 DEF Runs, GenerateSound
<1>6. PICK token : token = Last(g)
  OBVIOUS
<1>7. /\ n \in Nat /\ n - 1 \in 0..n /\ n - 1 \in Nat /\ token = g[n]
      /\ token \in Tokens /\ Front(g) = SubSeq(g, 1, n - 1)
  BY <1>4, <1>5, <1>6, LastToken
<1>8. PICK l \in Nat : l = Len(run.input)
  BY <1>5, LenProperties
<1>9. /\ run.fed = l /\ run.max > 0
      /\ run.forwards = l + n - 1 /\ l + n - 1 <= MaxSeqLen
      /\ Held(run) = Told(run) \o SubSeq(g, 1, n - 1)
      /\ Answered(model, run) /\ NoneStops(run)
      /\ run.context = <<>>
  BY <1>1, <1>2, <1>3, <1>4, <1>8 DEF GenerateSound, Before, RunSound
<1>10. PICK f \in Nat : f = run.forwards + 1
  BY <1>5
<1>11. PICK r : r = [run EXCEPT !.forwards = f]
  OBVIOUS
<1>12. /\ r \in Runs /\ r.fed = run.fed /\ r.forwards = f /\ r.generated = g
       /\ r.engine = "oneshot" /\ r.input = run.input
       /\ r.context = run.context /\ r.max = run.max /\ r.gate = run.gate
  BY <1>1, <1>3, <1>10, <1>11 DEF Runs
<1>13. PICK p : p = SubSeq(g, 1, n - 1)
  OBVIOUS
<1>14. p \in Seq(Tokens) /\ Len(p) = n - 1
  BY <1>4, <1>5, <1>7, <1>13, PrefixFacts
<1>15. PICK q : q = [run EXCEPT !.generated = p]
  OBVIOUS
<1>16. /\ q \in Runs /\ q.generated = p /\ q.engine = "oneshot"
       /\ q.input = run.input
  BY <1>1, <1>14, <1>15 DEF Runs
<1>17. PICK stop : stop = Stop(token, n)
  OBVIOUS
<1>18. stop = HaltAt(run, n) /\ stop \in {"none", "Eos", "MaxNewTokens"}
  BY <1>1, <1>3, <1>7, <1>17, StopIsHalt DEF HaltAt
<1>19. MaxSeqLen \in Nat
  BY GeneratorsAssumption
<1>20. /\ history \in Seq(Tokens) /\ own \in Seq(Tokens)
       /\ Kept => history' = history /\ own' = own
  BY DEF IInv, Kept
<1>21. \/ Kept /\ UNCHANGED model /\ Finish(q, TRUE, "MaxSeqLen")
       \/ /\ l + (n - 1) < MaxSeqLen /\ stop # "none"
          /\ Kept /\ UNCHANGED model /\ Finish(run, TRUE, stop)
       \/ /\ l + (n - 1) < MaxSeqLen /\ stop = "none"
          /\ Forwarded(token) /\ Pick(r)
  <2>1. n - 1 + 1 = n
    BY <1>7
  <2>2. q = [run EXCEPT !.generated = Front(run.generated)]
    BY <1>3, <1>7, <1>13, <1>15
  <2>3. r = [run EXCEPT !.forwards = run.forwards + 1]
    BY <1>10, <1>11
  <2>4. (CASE l + (n - 1) >= MaxSeqLen ->
               Kept /\ UNCHANGED model /\ Finish(q, TRUE, "MaxSeqLen")
          [] l + (n - 1) < MaxSeqLen /\ stop # "none" ->
               Kept /\ UNCHANGED model /\ Finish(run, TRUE, stop)
          [] OTHER -> Forwarded(token) /\ Pick(r))
    BY <1>3, <1>4, <1>6, <1>8, <1>17, <2>1, <2>2, <2>3 DEF Place
  <2>5. CASE l + (n - 1) >= MaxSeqLen
    <3>1. ~(l + (n - 1) < MaxSeqLen)
      BY <1>7, <1>19, <2>5
    <3> QED BY <2>4, <2>5, <3>1 DEF Finish, Kept
  <2>6. CASE l + (n - 1) < MaxSeqLen /\ stop # "none"
    <3>1. ~(l + (n - 1) >= MaxSeqLen)
      BY <1>7, <1>19, <2>6
    <3> QED BY <2>4, <2>6, <3>1 DEF Finish, Kept
  <2>7. CASE l + (n - 1) < MaxSeqLen /\ stop = "none"
    <3>1. ~(l + (n - 1) >= MaxSeqLen)
      BY <1>7, <1>19, <2>7
    <3>2. Forwarded(token) /\ Pick(r)
      BY <2>4, <2>7, <3>1 DEF Forwarded, Pick
    <3> QED BY <2>7, <3>2
  <2>8. l + (n - 1) < MaxSeqLen \/ l + (n - 1) >= MaxSeqLen
    BY <1>7, <1>19
  <2> QED BY <2>5, <2>6, <2>7, <2>8
<1>22. CASE Kept /\ UNCHANGED model /\ Finish(q, TRUE, "MaxSeqLen")
  <2>1. Len(q.input) + Len(q.generated) <= MaxSeqLen
    BY <1>7, <1>8, <1>9, <1>14, <1>16
  <2>2. TRUE \in BOOLEAN /\ "MaxSeqLen" \in Stops /\ model' = model
    BY <1>22 DEF Stops
  <2> QED BY <1>16, <1>20, <1>22, <2>1, <2>2, Ending
<1>23. CASE /\ l + (n - 1) < MaxSeqLen /\ stop # "none"
            /\ Kept /\ UNCHANGED model /\ Finish(run, TRUE, stop)
  <2>1. Len(run.input) + Len(run.generated) <= MaxSeqLen
    <3>1. l + (n - 1) < MaxSeqLen
      BY <1>23
    <3>2. l + n <= MaxSeqLen
      BY <1>7, <1>19, <3>1
    <3> QED BY <1>3, <1>4, <1>8, <3>2
  <2>2. TRUE \in BOOLEAN /\ stop \in Stops /\ model' = model
    BY <1>18, <1>23 DEF Stops
  <2>3. run.forwards = Len(run.input) + Len(run.generated) - 1
    BY <1>3, <1>4, <1>8, <1>9
  <2>4. /\ Reported(run) = run.generated /\ run.generated # <<>>
        /\ run.max # 0 /\ stop = HaltAt(run, Len(run.generated))
    BY <1>1, <1>3, <1>4, <1>5, <1>9, <1>18 DEF Reported
  <2> QED BY <1>1, <1>9, <1>20, <1>23, <2>1, <2>2, <2>3, <2>4, Ending
<1>24. CASE /\ l + (n - 1) < MaxSeqLen /\ stop = "none"
            /\ Forwarded(token) /\ Pick(r)
  <2>1. /\ After(r) = Append(Held(run), token) /\ After(r) \in Seq(Tokens)
        /\ history' \in Seq(Tokens) /\ own' \in Seq(Tokens)
    BY <1>1, <1>7, <1>12, <1>24, OneForward
  <2>2. Told(r) = Told(run)
    BY <1>12 DEF Told
  <2>3. After(r) = Told(r) \o r.generated
    BY <1>1, <1>2, <1>3, <1>6, <1>12, <2>1, <2>2, LastForwarded
  <2>4. Answered(model, r) /\ NoneStops(r)
    BY <1>3, <1>9, <1>12, <2>2 DEF Answered, NoneStops, Before, HaltAt
  <2>5. HaltAt(r, Len(r.generated)) = "none"
    BY <1>3, <1>4, <1>12, <1>18, <1>24 DEF HaltAt
  <2>6. r.context = <<>> /\ Len(r.input) + Len(r.generated) <= MaxSeqLen
    BY <1>4, <1>7, <1>8, <1>9, <1>12, <1>19, <1>24
  <2>7. /\ r.fed = Len(r.input) /\ r.max > 0
        /\ r.forwards = r.fed + Len(r.generated)
    BY <1>4, <1>7, <1>8, <1>9, <1>10, <1>12
  <2> QED BY <1>12, <1>24, <2>1, <2>3, <2>4, <2>5, <2>6, <2>7, SamplingSound
<1> QED BY <1>21, <1>22, <1>23, <1>24

(* What the engines keep: every result that is over is sound, the run      *)
(* under way is, and the session is where the last one left it.            *)
THEOREM GeneratorsAreSound == Spec => []IInv
PROOF
<1>1. Init => IInv
  <2> SUFFICES ASSUME Init PROVE IInv
    OBVIOUS
  <2>1. /\ <<>> \in Seq(Tokens) /\ <<>> \in Seq(Runs) /\ DOMAIN <<>> = {}
    BY EmptySeq
  <2>2. ModelSound(model)
    BY <2>1 DEF Init, ModelSound
  <2> QED BY <2>1, <2>2 DEF Init, IInv, LastSound
<1>2. IInv /\ [Next]_vars => IInv'
  <2> SUFFICES ASSUME IInv, [Next]_vars PROVE IInv'
    OBVIOUS
  <2>1. CASE Reset
    <3>1. LastSound'
      BY <2>1 DEF Reset, LastSound
    <3>2. history' \in Seq(Tokens)
      BY <2>1, EmptySeq DEF Reset
    <3> QED BY <2>1, <3>1, <3>2 DEF Reset, IInv, Idle
  <2>2. CASE UNCHANGED vars
    BY <2>2 DEF vars, IInv, LastSound, Held
  <2>3. CASE Done
    BY <2>2, <2>3 DEF Done
  <2> QED BY <2>1, <2>2, <2>3, StartSound, FeedSound, CommitSound, PlaceSound
          DEF Next
<1> QED BY <1>1, <1>2, PTL DEF Spec

(* ResultsAreExact: for any vocabulary, sequence length and turns, what a  *)
(* result says was fed, committed and forwarded is what the session holds, *)
(* and the one-shot generator stays within the sequence.                   *)
THEOREM GeneratorsExact == Spec => []ResultsAreExact
PROOF
<1>1. IInv => ResultsAreExact
  <2> SUFFICES ASSUME IInv PROVE ResultsAreExact
    OBVIOUS
  <2>1. SessionIsWhatWasReported
    <3> SUFFICES ASSUME NEW i \in DOMAIN past,
                        past[i].engine # "oneshot", past[i].fed > 0
                 PROVE  /\ past[i].length = Len(Over(past[i]))
                        /\ past[i].forwards = past[i].fed + past[i].committed
                        /\ i = Len(past) /\ run = Idle =>
                             history \in {<<>>, Over(past[i])}
      BY Zenon DEF SessionIsWhatWasReported, Over
    <3>1. PastSound(model, past[i])
      BY DEF IInv
    <3>2. past # <<>>
      BY EmptySeq DEF IInv
    <3> QED BY <3>1, <3>2 DEF PastSound, SessionExact, IInv, LastSound
  <2>2. OneShotForwards
    BY DEF IInv, PastSound, OneShotExact, OneShotForwards
  <2> QED BY <2>1, <2>2 DEF ResultsAreExact
<1> QED BY <1>1, GeneratorsAreSound, PTL

-----------------------------------------------------------------------------
(* Two runs that were told the same generate the same, as far as both go:  *)
(* the first token in which they differed would be two answers to one      *)
(* question.                                                               *)
LEMMA SameAnswers ==
  ASSUME NEW r \in Runs, NEW q \in Runs, NEW m, Answered(m, r), Answered(m, q),
         Told(r) = Told(q), NEW n \in Nat,
         n <= Len(r.generated), n <= Len(q.generated)
  PROVE  \A i \in 1..n : r.generated[i] = q.generated[i]
PROOF
<1>1. PICK g : g = r.generated
  OBVIOUS
<1>2. PICK c : c = q.generated
  OBVIOUS
<1>3. /\ g \in Seq(Tokens) /\ c \in Seq(Tokens)
      /\ Len(g) \in Nat /\ Len(c) \in Nat
  BY <1>1, <1>2, LenProperties DEF Runs
<1>4. SUFFICES ASSUME NEW k \in 1..n, g[k] # c[k] PROVE FALSE
  BY <1>1, <1>2
<1>5. PICK S : S = {i \in 1..n : g[i] # c[i]}
  OBVIOUS
<1>6. S \in SUBSET Nat /\ S # {}
  BY <1>4, <1>5
<1>7. PICK i \in S : \A j \in S : i <= j
  BY <1>6, LeastNat
<1>8. i \in 1..n /\ g[i] # c[i]
  BY <1>5, <1>7
<1>9. PICK b \in Nat : b = i - 1
  BY <1>8
<1>10. b \in 0..Len(g) /\ b \in 0..Len(c)
  BY <1>1, <1>2, <1>3, <1>8, <1>9
<1>11. \A j \in 1..b : g[j] = c[j]
  <2>1. ASSUME NEW j \in 1..b, g[j] # c[j] PROVE FALSE
    <3>1. j \in 1..n /\ j < i
      BY <1>8, <1>9
    <3>2. j \in S
      BY <1>5, <2>1, <3>1
    <3> QED BY <1>6, <1>7, <3>1, <3>2
  <2> QED BY <2>1
<1>12. SubSeq(g, 1, b) = SubSeq(c, 1, b)
  <2>1. PICK x : x = SubSeq(g, 1, b)
    OBVIOUS
  <2>2. PICK y : y = SubSeq(c, 1, b)
    OBVIOUS
  <2>3. x \in Seq(Tokens) /\ Len(x) = b /\ \A j \in 1..b : x[j] = g[j]
    BY <1>3, <1>10, <2>1, PrefixFacts
  <2>4. y \in Seq(Tokens) /\ Len(y) = b /\ \A j \in 1..b : y[j] = c[j]
    BY <1>3, <1>10, <2>2, PrefixFacts
  <2>5. \A j \in 1..Len(x) : x[j] = y[j]
    BY <1>11, <2>3, <2>4
  <2> QED BY <2>1, <2>2, <2>3, <2>4, <2>5, SeqEqual
<1>13. Before(r, i) = Before(q, i)
  BY <1>1, <1>2, <1>9, <1>12 DEF Before
<1>14. i \in 1..Len(r.generated) /\ i \in 1..Len(q.generated)
  BY <1>1, <1>2, <1>3, <1>8
<1>15. g[i] = m[Before(r, i)] /\ c[i] = m[Before(q, i)]
  BY <1>1, <1>2, <1>14 DEF Answered
<1> QED BY <1>8, <1>13, <1>15

(* Two such runs that stopped of themselves, under one gate and limit, did *)
(* so at the same token: neither can be a part of the other.               *)
LEMMA NotShorter ==
  ASSUME NEW r \in Runs, NEW q \in Runs, NEW m, Answered(m, r), Answered(m, q),
         Told(r) = Told(q), r.gate = q.gate, r.max = q.max,
         r.generated # <<>>, NoneStops(q),
         HaltAt(r, Len(r.generated)) # "none"
  PROVE  ~(Len(r.generated) < Len(q.generated))
PROOF
<1> SUFFICES ASSUME Len(r.generated) < Len(q.generated) PROVE FALSE
  OBVIOUS
<1>1. r.generated \in Seq(Tokens) /\ q.generated \in Seq(Tokens)
  BY DEF Runs
<1>2. PICK n : n = Len(r.generated)
  OBVIOUS
<1>3. n \in Nat \ {0}
  BY <1>1, <1>2, EmptySeq
<1>4. Len(q.generated) \in Nat
  BY <1>1, LenProperties
<1>5. n \in 1..n /\ n \in 1..Len(q.generated) - 1
  BY <1>2, <1>3, <1>4
<1>6. \A i \in 1..n : r.generated[i] = q.generated[i]
  <2>1. n \in Nat /\ n <= Len(r.generated) /\ n <= Len(q.generated)
    BY <1>2, <1>3, <1>4
  <2> QED BY <2>1, SameAnswers
<1>7. HaltAt(q, n) = HaltAt(r, n)
  BY <1>5, <1>6 DEF HaltAt
<1> QED BY <1>2, <1>5, <1>7 DEF NoneStops

(* What was told decides the result.                                       *)
LEMMA SameResult ==
  ASSUME NEW r \in Runs, NEW q \in Runs, NEW m, Whole(m, r), Whole(m, q),
         r.ok, q.ok, r.stop # "MaxSeqLen", q.stop # "MaxSeqLen",
         Told(r) = Told(q), r.gate = q.gate, r.max = q.max
  PROVE  Reported(r) = Reported(q) /\ r.stop = q.stop
PROOF
<1>1. Reported(r) = r.generated /\ Reported(q) = q.generated
  BY DEF Whole
<1>2. r.max \in Nat
  BY DEF Runs
<1>3. CASE r.max = 0
  BY <1>1, <1>3 DEF Whole
<1>4. CASE r.max > 0
  <2>1. /\ r.generated # <<>> /\ Answered(m, r) /\ NoneStops(r)
        /\ r.stop = HaltAt(r, Len(r.generated)) /\ r.stop # "none"
        /\ q.generated # <<>> /\ Answered(m, q) /\ NoneStops(q)
        /\ q.stop = HaltAt(q, Len(q.generated)) /\ q.stop # "none"
    BY <1>4 DEF Whole
  <2>2. ~(Len(r.generated) < Len(q.generated))
    BY <2>1, NotShorter
  <2>3. ~(Len(q.generated) < Len(r.generated))
    BY <2>1, NotShorter
  <2>4. /\ r.generated \in Seq(Tokens) /\ q.generated \in Seq(Tokens)
        /\ Len(r.generated) \in Nat /\ Len(q.generated) \in Nat
    BY LenProperties DEF Runs
  <2>5. Len(r.generated) = Len(q.generated)
    BY <2>2, <2>3, <2>4
  <2>6. PICK n \in Nat : n = Len(r.generated)
    BY <2>4
  <2>7. \A i \in 1..n : r.generated[i] = q.generated[i]
    <3>1. n <= Len(r.generated) /\ n <= Len(q.generated)
      BY <2>5, <2>6
    <3> QED BY <2>1, <3>1, SameAnswers
  <2>8. r.generated = q.generated
    BY <2>4, <2>5, <2>6, <2>7, SeqEqual
  <2> QED BY <1>1, <2>1, <2>8 DEF HaltAt
<1> QED BY <1>2, <1>3, <1>4

(* TurnsAreInvisible: for any vocabulary, sequence length and turns, two   *)
(* runs that came to the same tokens generate the same and stop for the    *)
(* same reason, whichever engine they ran on and however the tokens were   *)
(* cut into turns.                                                         *)
THEOREM GeneratorsCutInvisibly == Spec => []TurnsAreInvisible
PROOF
<1>1. IInv => TurnsAreInvisible
  <2> SUFFICES ASSUME IInv, NEW i \in DOMAIN past, NEW j \in DOMAIN past,
                      past[i].ok, past[j].ok,
                      past[i].max = past[j].max, past[i].gate = past[j].gate,
                      Told(past[i]) = Told(past[j]),
                      "MaxSeqLen" \notin {past[i].stop, past[j].stop}
               PROVE  /\ Reported(past[i]) = Reported(past[j])
                      /\ past[i].stop = past[j].stop
    BY Zenon DEF TurnsAreInvisible, Told
  <2>1. PastSound(model, past[i]) /\ PastSound(model, past[j])
    BY DEF IInv
  <2>2. past[i] \in Runs /\ past[j] \in Runs
        /\ Whole(model, past[i]) /\ Whole(model, past[j])
    BY <2>1 DEF PastSound
  <2> QED BY <2>2, SameResult
<1> QED BY <1>1, GeneratorsAreSound, PTL
=============================================================================
