------------------------------ MODULE Generators ------------------------------
(***************************************************************************)
(* The engines that generate tokens with one model: SessionGenerator,      *)
(* which appends turns to a session, the text facade over the scheduler,   *)
(* which does the same for texts, and Qwen35Generator, which answers one   *)
(* prompt from the model's own state.  A step is a forward.  The model is  *)
(* a function from the tokens it was fed to the next one, discovered as it *)
(* is asked (greedy decoding, or a seed that is drawn anew).               *)
(***************************************************************************)
EXTENDS Integers, Sequences, FiniteSets, SequencesExt

CONSTANTS
  Tokens, Eos,         \* the vocabulary and its end-of-sequence token
  MaxSeqLen,
  MaxInput, MaxNew,    \* bounds of the inputs
  MaxRuns              \* bound of the turns and requests

ASSUME GeneratorsAssumption ==
  /\ IsFiniteSet(Tokens) /\ Eos \in Tokens
  /\ {MaxSeqLen, MaxInput, MaxNew, MaxRuns} \subseteq Nat

VARIABLES
  model,               \* the next token, for the histories asked so far
  history,             \* tokens committed to the session's state
  own,                 \* tokens forwarded through the model's own state
  run,                 \* the turn or request under way
  past                 \* those that are over, in order

vars == <<model, history, own, run, past>>

Engines == {"session", "text", "oneshot"}

Inputs == SeqOf(Tokens, MaxInput) \ {<<>>}

Idle == [phase |-> "idle"]

(* generated holds sampled tokens; committed of them are forwarded, in the *)
(* session engines.  fed counts the input tokens that are.                 *)
NewRun(engine, input, max, gate) ==
  [engine |-> engine, input |-> input, max |-> max, gate |-> gate,
   context |-> IF engine = "oneshot" THEN <<>> ELSE history,
   phase |-> "input", fed |-> 0, generated |-> <<>>, committed |-> 0,
   forwards |-> 0, ok |-> TRUE, stop |-> "none", length |-> 0]

Init == /\ model = <<>>
        /\ history = <<>>
        /\ own = <<>>
        /\ run = Idle
        /\ past = <<>>

(* The tokens the engine of r has been fed when the step is over.          *)
After(r) == IF r.engine = "oneshot" THEN own' ELSE history'

-----------------------------------------------------------------------------
(* Mutant of OneShot: the model goes on from the last request.             *)
OneShotWithoutReset(input, max) ==
  /\ input # <<>> /\ Len(input) <= MaxSeqLen
  /\ run' = NewRun("oneshot", input, max, TRUE)
  /\ UNCHANGED <<model, history, own, past>>

(* Qwen35Generator: the EOS gate is always on, and a request that is too   *)
(* long is cut, not refused.                                               *)
OneShot(input, max) ==
  /\ input # <<>> /\ Len(input) <= MaxSeqLen
  /\ run' = NewRun("oneshot", input, max, TRUE)
  /\ own' = <<>>
  /\ UNCHANGED <<model, history, past>>

(* A turn is refused when all it may commit does not fit.                  *)
StartTurn(engine, input, max, gate) ==
  /\ Len(history) + Len(input) + max <= MaxSeqLen
  /\ run' = NewRun(engine, input, max, gate)
  /\ UNCHANGED <<model, history, own, past>>

(* The facade encodes the text first.  When that fails, or the turn is     *)
(* refused, its result is all that is left; only the refusal looks up the  *)
(* length of the session.                                                  *)
TextRefused(input, max) ==
  /\ \E encoded \in BOOLEAN :
       /\ encoded => Len(history) + Len(input) + max > MaxSeqLen
       /\ past' = Append(past,
            [NewRun("text", IF encoded THEN input ELSE <<>>, max, TRUE)
               EXCEPT !.ok = FALSE,
                      !.length = IF encoded THEN Len(history) ELSE 0])
  /\ UNCHANGED <<model, history, own, run>>

Start ==
  /\ run = Idle /\ Len(past) < MaxRuns
  /\ \E input \in Inputs, max \in 0..MaxNew :
       \/ \E gate \in BOOLEAN : StartTurn("session", input, max, gate)
       \/ StartTurn("text", input, max, TRUE)
       \/ TextRefused(input, max)
       \/ \E i \in DOMAIN past :
            /\ past[i].engine # "oneshot"
            /\ OneShot(past[i].context \o past[i].input, max)
       \/ OneShot(input, max)

(* What the model says after these tokens.                                 *)
Asked(tokens) == IF tokens \in DOMAIN model THEN {model[tokens]} ELSE Tokens

Learn(tokens, token) ==
  model' = [h \in DOMAIN model \cup {tokens} |->
              IF h = tokens THEN token ELSE model[h]]

(* The run is over, with this result.                                      *)
Finish(r, ok, stop) ==
  /\ past' = Append(past, [r EXCEPT !.ok = ok, !.stop = stop,
                              !.length = Len(After(r))])
  /\ run' = Idle

Forwarded(token) ==
  IF run.engine = "oneshot"
  THEN own' = Append(own, token) /\ UNCHANGED history
  ELSE history' = Append(history, token) /\ UNCHANGED own

Kept == UNCHANGED <<history, own>>

(* Sampling after a forward; the session engines keep the sampled token as *)
(* a tail that is not committed yet, the one-shot generator places it.     *)
Pick(r) ==
  \E token \in Asked(After(r)) :
    /\ Learn(After(r), token)
    /\ run' = [r EXCEPT !.phase = "generate", !.generated = Append(@, token)]
    /\ UNCHANGED past

(* One token of the input: positions go on from the session's length.  A   *)
(* forward of a session may find no page; what is committed stays.         *)
Feed ==
  /\ run.phase = "input"
  /\ LET token == run.input[run.fed + 1]
         r == [run EXCEPT !.fed = @ + 1, !.forwards = @ + 1]
         last == r.fed = Len(run.input)
     IN  \/ /\ run.engine # "oneshot"
            /\ Kept /\ UNCHANGED model
            /\ Finish(run, FALSE, "Failed")
         \/ /\ Forwarded(token)
            /\ CASE ~last -> run' = r /\ UNCHANGED <<model, past>>
                 [] last /\ run.max = 0 ->
                      UNCHANGED model /\ Finish(r, TRUE, "MaxNewTokens")
                 [] last /\ run.max > 0 /\ run.engine = "oneshot"
                      /\ Len(run.input) >= MaxSeqLen ->
                      UNCHANGED model /\ Finish(r, TRUE, "MaxSeqLen")
                 [] OTHER -> Pick(r)

(* EOS before max_new_tokens.                                              *)
Stop(token, count) ==
  CASE run.gate /\ token = Eos -> "Eos"
    [] ~(run.gate /\ token = Eos) /\ count >= run.max -> "MaxNewTokens"
    [] OTHER -> "none"

(* Mutant of Commit: the stop check comes before the forward.              *)
CommitLate ==
  /\ run.phase = "generate" /\ run.engine # "oneshot"
  /\ LET token == Last(run.generated)
         r == [run EXCEPT !.committed = @ + 1, !.forwards = @ + 1]
     IN  IF Stop(token, Len(run.generated)) # "none"
         THEN /\ Kept /\ UNCHANGED model
              /\ Finish(r, TRUE, Stop(token, Len(run.generated)))
         ELSE Forwarded(token) /\ Pick(r)

(* A session's turn commits a token and then stops; a token whose forward  *)
(* fails is not committed.                                                 *)
Commit ==
  /\ run.phase = "generate" /\ run.engine # "oneshot"
  /\ LET token == Last(run.generated)
         r == [run EXCEPT !.committed = @ + 1, !.forwards = @ + 1]
         stop == Stop(token, Len(run.generated))
     IN  \/ /\ Kept /\ UNCHANGED model
            /\ Finish(run, FALSE, "Failed")
         \/ /\ Forwarded(token)
            /\ IF stop = "none" THEN Pick(r)
               ELSE UNCHANGED model /\ Finish(r, TRUE, stop)

(* The one-shot generator stops without a forward; a token that does not   *)
(* fit is dropped again.                                                   *)
Place ==
  /\ run.phase = "generate" /\ run.engine = "oneshot"
  /\ LET token == Last(run.generated)
         step == Len(run.generated) - 1
         stop == Stop(token, step + 1)
     IN  CASE Len(run.input) + step >= MaxSeqLen ->
                /\ Kept /\ UNCHANGED model
                /\ Finish([run EXCEPT !.generated = Front(@)], TRUE, "MaxSeqLen")
           [] Len(run.input) + step < MaxSeqLen /\ stop # "none" ->
                Kept /\ UNCHANGED model /\ Finish(run, TRUE, stop)
           [] OTHER ->
                Forwarded(token) /\ Pick([run EXCEPT !.forwards = @ + 1])

(* reset_session, between two turns.                                       *)
Reset == /\ run = Idle /\ history # <<>>
         /\ history' = <<>>
         /\ UNCHANGED <<model, own, run, past>>

Done == run = Idle /\ Len(past) = MaxRuns /\ UNCHANGED vars

Next == Start \/ Feed \/ Commit \/ Place \/ Reset \/ Done

Spec == Init /\ [][Next]_vars
-----------------------------------------------------------------------------
(* What a run reports: the committed tokens, or those that were placed.    *)
Reported(r) == IF r.engine = "oneshot" THEN r.generated
               ELSE SubSeq(r.generated, 1, r.committed)

(* A turn that failed half way, at an input token or at a generated one,   *)
(* leaves the session with exactly what its result says: the context it    *)
(* came to, the input that was fed and the tokens that were committed, and *)
(* never a token that was only sampled.                                    *)
SessionIsWhatWasReported ==
  \A i \in DOMAIN past :
    LET r == past[i]
        over == r.context \o SubSeq(r.input, 1, r.fed) \o Reported(r)
    IN  r.engine # "oneshot" /\ r.fed > 0 =>
          /\ r.length = Len(over)
          /\ r.forwards = r.fed + r.committed
          /\ (i = Len(past) /\ run = Idle) => history \in {<<>>, over}

(* The one-shot generator never runs past the end of the sequence, and     *)
(* never forwards the token it stops with.                                 *)
OneShotForwards ==
  \A i \in DOMAIN past :
    LET r == past[i]
    IN  r.engine = "oneshot" =>
          /\ Len(r.input) + Len(r.generated) <= MaxSeqLen
          /\ r.stop \in {"Eos", "MaxNewTokens"} /\ r.generated # <<>> =>
               r.forwards = Len(r.input) + Len(r.generated) - 1

(* What a result says was done is what was done, whichever engine did it.  *)
ResultsAreExact == SessionIsWhatWasReported /\ OneShotForwards

(* Cutting a conversation into turns is invisible: two runs that came to   *)
(* the same tokens, whatever the engine and the turns before, generate the *)
(* same and stop for the same reason.                                      *)
TurnsAreInvisible ==
  \A i, j \in DOMAIN past :
    LET r == past[i]
        q == past[j]
    IN  /\ r.ok /\ q.ok /\ r.max = q.max /\ r.gate = q.gate
        /\ r.context \o r.input = q.context \o q.input
        /\ "MaxSeqLen" \notin {r.stop, q.stop}
        => Reported(r) = Reported(q) /\ r.stop = q.stop
=============================================================================
