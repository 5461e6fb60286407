--------------------------- MODULE AdmissionGates ---------------------------
(***************************************************************************)
(* The arithmetic of the three length gates a request meets on its way in: *)
(* the legacy gate of Scheduler::admit and the policy cap of the serving   *)
(* controller add in int, the gate of Scheduler::admit_session_turn adds   *)
(* in long long.  int has IntBits bits and long long twice as many; signed *)
(* overflow is undefined, and the build may evaluate an expression that    *)
(* overflows in wrapping or in wider, exact arithmetic.                    *)
(***************************************************************************)
EXTENDS Integers

CONSTANTS IntBits, MaxSeqLen, ContextCap, MaxTokens

MaxInt(bits) == 2^(bits - 1) - 1

GatesAssumption ==
  /\ IntBits \in Nat \ {0, 1}
  /\ {MaxSeqLen, ContextCap, MaxTokens} \subseteq 0..MaxInt(IntBits)

VARIABLES
  length,              \* tokens in the session's sequence
  tokens,              \* size of the prompt or of the turn's input
  max_new              \* max_new_tokens, any int the caller likes

vars == <<length, tokens, max_new>>

Wrapped(x, bits) == ((x + 2^(bits - 1)) % 2^bits) - 2^(bits - 1)

(* The values an expression of the exact value x can have in the build:    *)
(* all of its sums are exact, or all wrap.  Wrapping sums come to the same *)
(* wherever they wrap, and to x itself when x fits the width.              *)
Evaluated(x, bits) == {x, Wrapped(x, bits)}

(* Whether the gate can let the request pass.                              *)
LegacyGate(n, m) ==
  \E t \in Evaluated(n + m - 1, IntBits) : t <= MaxSeqLen

SessionGate(l, n, m) ==
  \E t \in Evaluated(l + n + m, 2 * IntBits) : t <= MaxSeqLen

(* 0 disables the policy cap.                                              *)
CapGate(l, n, m) ==
  ContextCap > 0 =>
    \E t \in Evaluated(l + n + m, IntBits) : t <= ContextCap

(* Any request meets the gates, in a session of any length.                *)
Init == /\ length \in 0..MaxSeqLen
        /\ tokens \in 1..MaxTokens
        /\ max_new \in 0..MaxInt(IntBits)

(* An admitted turn that generates all it may; the next request follows.   *)
AdmitTurn ==
  /\ CapGate(length, tokens, max_new) /\ SessionGate(length, tokens, max_new)
  /\ length' = length + tokens + max_new
  /\ tokens' \in 1..MaxTokens
  /\ max_new' \in 0..MaxInt(IntBits)

Next == AdmitTurn

Spec == Init /\ [][Next]_vars

-----------------------------------------------------------------------------
(* However large max_new_tokens is, a turn passes the session gate exactly *)
(* when all it may commit fits: long long cannot overflow on three ints.   *)
SessionGateExact ==
  SessionGate(length, tokens, max_new) <=> length + tokens + max_new <= MaxSeqLen

(* With both gates no sequence of admitted turns outgrows max_seq_len.     *)
WithinSequence == length <= MaxSeqLen

(* src/runtime/scheduler.cpp:147-148: "the sequence length after the last  *)
(* possible forward is prompt.size() + (max_new_tokens - 1); it must fit   *)
(* max_seq_len."                                                           *)
LegacyGateExact ==
  (max_new >= 1 /\ LegacyGate(tokens, max_new)) =>
    tokens + (max_new - 1) <= MaxSeqLen

=============================================================================
