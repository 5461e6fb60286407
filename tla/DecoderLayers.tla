----------------------------- MODULE DecoderLayers ------------------------------
(***************************************************************************)
(* One decoder layer as the sequence of kernels it launches: DecoderBlock  *)
(* ("block"), Qwen35FullAttentionLayer ("full") and Qwen35DeltaNetLayer    *)
(* ("linear").  A value is the term of operations it was computed by, so   *)
(* that stale data of an earlier call or of another row shows in it.       *)
(* Sequence 0 is the layer's own state; the others keep theirs outside and *)
(* run through the single or the batched forward.                          *)
(***************************************************************************)
EXTENDS Integers, Sequences, SequencesExt, FiniteSetsExt, Functions

CONSTANTS LayerKinds, \* kinds of layer to check
          Sequences,  \* sequences with state of their own
          MaxLen,     \* max_seq_len
          Calls,      \* forwards made
          Dim         \* sizes of the config

ASSUME DecoderLayersAssumption ==
  /\ LayerKinds \subseteq {"block", "full", "linear"}
  /\ Sequences \subseteq Nat \ {0} /\ IsFiniteSet(Sequences)
  /\ MaxLen \in Nat \ {0} /\ Calls \in Nat
  /\ Dim \in [{"hidden", "heads", "kv_heads", "head_dim", "inter", "lin_heads",
               "lin_head_dim"} -> Nat \ {0}]

H == Dim.hidden
QO == Dim.heads * Dim.head_dim
KVO == Dim.kv_heads * Dim.head_dim
I == Dim.inter
KEY == Dim.lin_heads * Dim.lin_head_dim
VALUE == KEY
CONV == 2 * KEY + VALUE
NV == Dim.lin_heads

VARIABLES
  kind,
  pc,      \* 0 between calls, else the stage to launch next
  path,    \* "single" or "batch"
  rows,    \* of the call: a sequence of [seq, pos]
  timed,   \* is it forwardTimed?
  events,  \* events recorded by the call
  buf,     \* path -> buffer -> row -> value
  caps,    \* [rows, t_max] the batch buffers are allocated for
  cells,   \* sequence -> position -> <<key, value>>
  conv,    \* sequence -> the last three inputs of the convolution
  rec,     \* sequence -> recurrent state
  len,     \* sequence -> tokens
  left     \* calls left
layerVars == <<kind, pc, path, rows, timed, events, buf, caps, cells, conv, rec,
               len, left>>

Stage(ops, from, to, widths) == [ops |-> ops, from |-> from, to |-> to, widths |-> widths]
One(op, from, to, width) == Stage(<<op>>, from, <<to>>, <<width>>)

--------------------------------------------------------------------------------
(* The stages, in launch order: operations, inputs, outputs, elements a    *)
(* row of each output.                                                     *)

(* SwiGLU and the second residual, the same in all.                        *)
MlpStages == <<
  One("gate_proj", <<"rms2">>, "mlp_gate", I),
  One("up_proj", <<"rms2">>, "mlp_up", I),
  One("silu_mul", <<"mlp_gate", "mlp_up">>, "silu_mul", I),
  One("down_proj", <<"silu_mul">>, "mlp_down", H),
  One("add", <<"res1", "mlp_down">>, "final", H)>>

BlockStages == <<
  One("copy", <<"x">>, "input", H),
  One("input_norm", <<"input">>, "rms1", H),
  One("q_proj", <<"rms1">>, "q", QO),
  One("k_proj", <<"rms1">>, "k", KVO),
  One("v_proj", <<"rms1">>, "v", KVO),
  One("rope", <<"q">>, "rope_q", QO),
  One("rope", <<"k">>, "rope_k", KVO),
  Stage(<<"kv_write">>, <<"rope_k", "v">>, <<>>, <<>>),
  One("attention", <<"rope_q">>, "attn_raw", QO),
  One("o_proj", <<"attn_raw">>, "o_proj", H),
  One("add", <<"input", "o_proj">>, "res1", H),
  One("post_norm", <<"res1">>, "rms2", H)>> \o MlpStages

(* The residual and the second norm are one kernel in version 2.           *)
AddNorm(y) ==
  Stage(<<"add", "post_norm_of_add">>, <<"input", y>>, <<"res1", "rms2">>, <<H, H>>)

AttentionStages == <<
  One("copy", <<"x">>, "input", H),
  One("input_norm", <<"input">>, "rms1", H),
  One("q_proj", <<"rms1">>, "q_gate", 2 * QO),
  Stage(<<"q_of", "gate_of">>, <<"q_gate">>, <<"q", "att_gate">>, <<QO, QO>>),
  One("k_proj", <<"rms1">>, "k", KVO),
  One("v_proj", <<"rms1">>, "v", KVO),
  One("q_norm", <<"q">>, "q_norm", QO),
  One("k_norm", <<"k">>, "k_norm", KVO),
  One("rope", <<"q_norm">>, "rope_q", QO),
  One("rope", <<"k_norm">>, "rope_k", KVO),
  Stage(<<"kv_write">>, <<"rope_k", "v">>, <<>>, <<>>),
  One("attention", <<"rope_q">>, "attn_raw", QO),
  One("sigmoid_mul", <<"attn_raw", "att_gate">>, "attn_gated", QO),
  One("o_proj", <<"attn_gated">>, "o_proj", H),
  AddNorm("o_proj")>>

FullStages == AttentionStages \o MlpStages

DeltaNetStages == <<
  One("copy", <<"x">>, "input", H),
  One("input_norm", <<"input">>, "rms1", H),
  One("in_proj_qkv", <<"rms1">>, "mixed", CONV),
  One("in_proj_z", <<"rms1">>, "z", VALUE),
  One("in_proj_b", <<"rms1">>, "b", NV),
  One("in_proj_a", <<"rms1">>, "a", NV),
  Stage(<<"conv", "conv_silu">>, <<"mixed">>, <<"conv_out", "conv_silu">>, <<CONV, CONV>>),
  Stage(<<"q_of", "k_of", "v_of">>, <<"conv_silu">>, <<"q", "k", "v">>, <<KEY, KEY, VALUE>>),
  Stage(<<"beta", "g">>, <<"b", "a">>, <<"beta", "g">>, <<NV, NV>>),
  One("delta_rule", <<"q", "k", "v", "g", "beta">>, "core", VALUE),
  One("gated_norm", <<"core", "z">>, "gated", VALUE),
  One("out_proj", <<"gated">>, "o_proj", H),
  AddNorm("o_proj")>>

LinearStages == DeltaNetStages \o MlpStages

(* The batched forwards launch the same operations over all rows.          *)
FullBatchStages == FullStages
LinearBatchStages == LinearStages

Stages == CASE kind = "block" -> BlockStages
            [] kind = "full" -> IF path = "single" THEN FullStages ELSE FullBatchStages
            [] kind = "linear" -> IF path = "single" THEN LinearStages ELSE LinearBatchStages

--------------------------------------------------------------------------------
(* Buffers.                                                                *)

Width ==
  [input |-> H, rms1 |-> H, q |-> IF kind = "linear" THEN KEY ELSE QO, q_gate |-> 2 * QO,
   att_gate |-> QO, k |-> IF kind = "linear" THEN KEY ELSE KVO,
   v |-> IF kind = "linear" THEN VALUE ELSE KVO, q_norm |-> QO, k_norm |-> KVO,
   rope_q |-> QO, rope_k |-> KVO, attn_raw |-> QO, attn_gated |-> QO, o_proj |-> H,
   res1 |-> H, rms2 |-> H, mlp_gate |-> I, mlp_up |-> I, silu_mul |-> I, mlp_down |-> H,
   final |-> H, mixed |-> CONV, z |-> VALUE, b |-> NV, a |-> NV, conv_out |-> CONV,
   conv_silu |-> CONV, beta |-> NV, g |-> NV, core |-> VALUE, gated |-> VALUE]

Names == DOMAIN Width
Paths == {"single", "batch"}
MaxRows == Cardinality(Sequences \cup {0})

(* Elements allocated: the constructors', and grow_batch's.                *)
Allocated(n) == IF path = "single" THEN Width[n] ELSE caps.rows * Width[n]

(* Elements of the scores and probabilities of the attention.              *)
ScratchAllocated ==
  2 * Dim.heads * (IF path = "single" THEN MaxLen ELSE caps.rows * caps.t_max)

t_max == Max({1} \cup {rows[r].pos + 1 : r \in DOMAIN rows})

(* A single row's scores reach up to its own position.                     *)
ScratchUsed ==
  2 * Dim.heads * (IF path = "single" THEN rows[1].pos + 1 ELSE Len(rows) * t_max)

Zero == <<>>
LayersInit ==
  /\ kind \in LayerKinds
  /\ pc = 0 /\ path = "single" /\ rows = <<>> /\ timed = FALSE /\ events = {}
  /\ buf = [p \in Paths |-> [n \in Names |-> [r \in 1..MaxRows |-> Zero]]]
  /\ caps = [rows |-> 0, t_max |-> 0]
  /\ cells = [s \in Sequences \cup {0} |-> [p \in 0..MaxLen - 1 |-> <<Zero, Zero>>]]
  /\ conv = [s \in Sequences \cup {0} |-> <<Zero, Zero, Zero>>]
  /\ rec = [s \in Sequences \cup {0} |-> Zero]
  /\ len = [s \in Sequences \cup {0} |-> 0]
  /\ left = Calls

x(r) == <<"x", rows[r].seq, rows[r].pos>>

--------------------------------------------------------------------------------
(* The calls.                                                              *)

kNumStages == IF kind = "block" THEN 17 ELSE 21

(* forward, forwardTimed, or the forward with state of a sequence; version *)
(* 1 and a timed forward have the internal state only.                     *)
BeginSingle ==
  /\ pc = 0 /\ left > 0
  /\ \E s \in Sequences \cup {0}, t \in BOOLEAN :
       /\ len[s] < MaxLen
       /\ kind = "block" => s = 0
       /\ t => s = 0 /\ kind # "linear"
       /\ rows' = <<[seq |-> s, pos |-> len[s]]>>
       /\ timed' = t
  /\ path' = "single" /\ pc' = 1 /\ left' = left - 1
  /\ events' = IF timed' THEN {2 * kNumStages} ELSE {}
  /\ UNCHANGED <<kind, buf, caps, cells, conv, rec, len>>

(* grow_batch of either layer.                                             *)
GrownTo(b, t) ==
  IF kind = "linear" THEN [rows |-> IF b <= caps.rows THEN caps.rows ELSE b, t_max |-> 0]
  ELSE [rows |-> Max({caps.rows, b}), t_max |-> Max({caps.t_max, t})]

(* The batched forward of sequences in any order, each at its own length.  *)
(* Growing reallocates every buffer.                                       *)
BeginBatch ==
  /\ pc = 0 /\ left > 0 /\ kind # "block"
  /\ \E q \in SeqOf(Sequences, MaxRows) \ {<<>>} :
       /\ IsInjective(q) /\ \A r \in DOMAIN q : len[q[r]] < MaxLen
       /\ rows' = [r \in DOMAIN q |-> [seq |-> q[r], pos |-> len[q[r]]]]
       /\ caps' = GrownTo(Len(q), Max({1} \cup {len[q[r]] + 1 : r \in DOMAIN q}))
  /\ buf' = IF caps' = caps THEN buf
             ELSE [buf EXCEPT !["batch"] = [n \in Names |-> [r \in 1..MaxRows |-> Zero]]]
  /\ path' = "batch" /\ timed' = FALSE /\ events' = {} /\ pc' = 1 /\ left' = left - 1
  /\ UNCHANGED <<kind, cells, conv, rec, len>>

(* The pair of events around stage k of a timed forward.                   *)
EventPair(k) ==
  IF kind = "block" \/ k <= 14 THEN {2 * k - 2, 2 * k - 1}
  ELSE IF k = 15 THEN {28, 31} ELSE {2 * k, 2 * k + 1}

Recorded == IF timed THEN events \cup EventPair(pc) ELSE events

In(n, r) == IF n = "x" THEN x(r) ELSE buf[path][n][r]
Args(r) == [k \in DOMAIN Stages[pc].from |-> In(Stages[pc].from[k], r)]

(* What operation k of the stage yields for row r.  The tables of a batch  *)
(* hold the angles of each row's own position.                             *)
Value(k, r) ==
  LET op == Stages[pc].ops[k]
      s == rows[r].seq
  IN  CASE op = "copy" -> x(r)
        [] op = "rope" -> <<"rope", rows[r].pos, Args(r)>>
        [] op = "attention" -> <<"attention", Args(r), [p \in 0..rows[r].pos |-> cells[s][p]]>>
        [] op \in {"conv", "conv_silu"} -> <<op, Append(conv[s], Args(r)[1])>>
        [] op = "delta_rule" -> <<op, Args(r), rec[s]>>
        [] OTHER -> <<op, Args(r)>>

(* The outputs of the stage, for every row of the call.                    *)
Outputs ==
  LET to == Stages[pc].to
  IN  [buf EXCEPT ![path] = [n \in Names |->
         IF n \in Range(to)
         THEN [r \in 1..MaxRows |-> IF r \in DOMAIN rows
                                     THEN Value(CHOOSE k \in DOMAIN to : to[k] = n, r)
                                     ELSE buf[path][n][r]]
         ELSE buf[path][n]]]

Op == Stages[pc].ops[1]
NextStage == /\ pc' = pc + 1 /\ events' = Recorded
             /\ UNCHANGED <<kind, path, rows, timed, caps, len, left>>

(* A kernel that only maps buffers to buffers, or reads the state.         *)
Launch ==
  /\ pc \in 1..Len(Stages) /\ Op \notin {"kv_write", "conv", "delta_rule"}
  /\ buf' = Outputs
  /\ NextStage /\ UNCHANGED <<cells, conv, rec>>

RowOf(s) == CHOOSE r \in DOMAIN rows : rows[r].seq = s
InCall(s) == \E r \in DOMAIN rows : rows[r].seq = s

(* Mutant of WriteKv: every row at the first row's position.               *)
WriteKvFirst ==
  /\ pc \in 1..Len(Stages) /\ Op = "kv_write"
  /\ cells' = [s \in DOMAIN cells |->
               IF InCall(s) THEN [cells[s] EXCEPT ![rows[1].pos] = Args(RowOf(s))]
               ELSE cells[s]]
  /\ buf' = buf
  /\ NextStage /\ UNCHANGED <<conv, rec>>

(* KvCache::write, or the paged write at each row's own position.          *)
WriteKv ==
  /\ pc \in 1..Len(Stages) /\ Op = "kv_write"
  /\ cells' = [s \in DOMAIN cells |->
               IF InCall(s) THEN [cells[s] EXCEPT ![rows[RowOf(s)].pos] = Args(RowOf(s))]
               ELSE cells[s]]
  /\ buf' = buf
  /\ NextStage /\ UNCHANGED <<conv, rec>>

(* The convolution shifts the state of each row's own slot.                *)
ShiftConv ==
  /\ pc \in 1..Len(Stages) /\ Op = "conv"
  /\ buf' = Outputs
  /\ conv' = [s \in DOMAIN conv |->
                 IF InCall(s) THEN Append(Tail(conv[s]), Args(RowOf(s))[1]) ELSE conv[s]]
  /\ NextStage /\ UNCHANGED <<cells, rec>>

(* The delta rule updates the recurrent state in place; z is not read.     *)
UpdateRec ==
  /\ pc \in 1..Len(Stages) /\ Op = "delta_rule"
  /\ buf' = Outputs
  /\ rec' = [s \in DOMAIN rec |->
                IF InCall(s) THEN <<"state", Args(RowOf(s)), rec[s]>> ELSE rec[s]]
  /\ NextStage /\ UNCHANGED <<cells, conv>>

(* The forward returns; its caller has one token more in every sequence.   *)
Return ==
  /\ pc = Len(Stages) + 1
  /\ len' = [s \in DOMAIN len |-> len[s] + IF InCall(s) THEN 1 ELSE 0]
  /\ pc' = 0
  /\ events' = IF timed THEN events \cup {2 * kNumStages + 1} ELSE events
  /\ UNCHANGED <<kind, path, rows, timed, buf, caps, cells, conv, rec, left>>

(* Mutant of ResetState: the recurrent state is kept.                      *)
ResetStateKept ==
  /\ pc = 0 /\ kind # "block" /\ len[0] > 0
  /\ cells' = [cells EXCEPT ![0] = [p \in 0..MaxLen - 1 |-> <<Zero, Zero>>]]
  /\ conv' = [conv EXCEPT ![0] = <<Zero, Zero, Zero>>]
  /\ len' = [len EXCEPT ![0] = 0]
  /\ UNCHANGED <<kind, pc, path, rows, timed, events, buf, caps, rec, left>>

(* Qwen35HybridMicroStack::reset_state: zero the layer's own state.        *)
ResetState ==
  /\ pc = 0 /\ kind # "block" /\ len[0] > 0
  /\ cells' = [cells EXCEPT ![0] = [p \in 0..MaxLen - 1 |-> <<Zero, Zero>>]]
  /\ conv' = [conv EXCEPT ![0] = <<Zero, Zero, Zero>>]
  /\ rec' = [rec EXCEPT ![0] = Zero]
  /\ len' = [len EXCEPT ![0] = 0]
  /\ UNCHANGED <<kind, pc, path, rows, timed, events, buf, caps, left>>

LayersNext == BeginSingle \/ BeginBatch \/ Launch \/ WriteKv \/ ShiftConv
              \/ UpdateRec \/ Return \/ ResetState

LayersSpec == LayersInit /\ [][LayersNext]_layerVars

--------------------------------------------------------------------------------
(* The layer as a function of the tokens of one sequence.                  *)

Normed(s, p) == <<"input_norm", <<<<"x", s, p>>>>>>
Proj(name, v) == <<name, <<v>>>>

Mlp(res1, n) ==
  <<"add", <<res1, Proj("down_proj", <<"silu_mul", <<Proj("gate_proj", n), Proj("up_proj", n)>>>>)>>>>

BlockOut(s, p) ==
  LET n(i) == Normed(s, i)
      rope(i, v) == <<"rope", i, <<v>>>>
      att == <<"attention", <<rope(p, Proj("q_proj", n(p)))>>,
               [i \in 0..p |-> <<rope(i, Proj("k_proj", n(i))), Proj("v_proj", n(i))>>]>>
      res1 == <<"add", <<<<"x", s, p>>, Proj("o_proj", att)>>>>
  IN  Mlp(res1, <<"post_norm", <<res1>>>>)

Residual(s, p, y) ==
  LET args == <<<<"x", s, p>>, y>> IN Mlp(<<"add", args>>, <<"post_norm_of_add", args>>)

FullOut(s, p) ==
  LET n(i) == Normed(s, i)
      rope(i, v) == <<"rope", i, <<v>>>>
      qg == Proj("q_proj", n(p))
      att == <<"attention", <<rope(p, Proj("q_norm", Proj("q_of", qg)))>>,
               [i \in 0..p |-> <<rope(i, Proj("k_norm", Proj("k_proj", n(i)))),
                                 Proj("v_proj", n(i))>>]>>
  IN  Residual(s, p, Proj("o_proj", <<"sigmoid_mul", <<att, Proj("gate_of", qg)>>>>))

(* The arguments of the delta rule at a position, and the state before it. *)
DeltaArgs(s, p) ==
  LET n == Normed(s, p)
      mixed(i) == IF i < 0 THEN Zero ELSE Proj("in_proj_qkv", Normed(s, i))
      silu == <<"conv_silu", <<mixed(p - 3), mixed(p - 2), mixed(p - 1), mixed(p)>>>>
      ba == <<Proj("in_proj_b", n), Proj("in_proj_a", n)>>
  IN  <<Proj("q_of", silu), Proj("k_of", silu), Proj("v_of", silu), <<"g", ba>>, <<"beta", ba>>>>

RecState(s) ==
  LET st[p \in 0..MaxLen] ==
        IF p = 0 THEN Zero ELSE <<"state", DeltaArgs(s, p - 1), st[p - 1]>>
  IN  st

LinearOut(s, p) ==
  LET core == <<"delta_rule", DeltaArgs(s, p), RecState(s)[p]>>
  IN  Residual(s, p, Proj("out_proj", <<"gated_norm", <<core, Proj("in_proj_z", Normed(s, p))>>>>))

Out(s, p) == CASE kind = "block" -> BlockOut(s, p)
               [] kind = "full" -> FullOut(s, p)
               [] kind = "linear" -> LinearOut(s, p)

(* The output of a row is the layer's function of its own sequence.        *)
OutputsAreOwn ==
  pc = Len(Stages) + 1 =>
    \A r \in DOMAIN rows : buf[path]["final"][r] = Out(rows[r].seq, rows[r].pos)

(* No kernel writes past its buffers, or the attention past its scores,    *)
(* whatever batches the buffers were grown for.                            *)
WidthsFit ==
  pc \in 1..Len(Stages) =>
    /\ \A k \in DOMAIN Stages[pc].to :
         Len(rows) * Stages[pc].widths[k] <= Allocated(Stages[pc].to[k])
    /\ Op = "attention" => ScratchUsed <= ScratchAllocated

(* Whatever calls came before, single or batched, of whichever sequences:  *)
(* the output of a row is the layer's function of its own sequence, and no *)
(* kernel writes past its buffers.                                         *)
RowsAreTheirOwn == OutputsAreOwn /\ WidthsFit

(* Between calls the recurrent and the convolution state of a sequence in  *)
(* a linear layer are those of its own tokens, so that it may change       *)
(* between the single and the batched forward at any position; a reset     *)
(* state is a fresh one.  (The caches of the other layers are in the       *)
(* outputs, of which RowsAreTheirOwn speaks.)                              *)
StateIsHistory ==
  pc = 0 /\ kind = "linear" =>
    \A s \in DOMAIN len :
      /\ rec[s] = RecState(s)[len[s]]
      /\ conv[s] = [k \in 1..3 |-> IF len[s] - 4 + k < 0 THEN Zero
                                    ELSE Proj("in_proj_qkv", Normed(s, len[s] - 4 + k))]

(* A timed forward has recorded both events of every pair whose time it    *)
(* then asks for ("records one CUDA-event pair per stage",                 *)
(* qwen35_full_attention.cpp).                                             *)
TimedStagesRecorded ==
  pc = 0 /\ timed => \A i \in 0..kNumStages : {2 * i, 2 * i + 1} \subseteq events

================================================================================
