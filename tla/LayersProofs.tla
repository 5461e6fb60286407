----------------------------- MODULE LayersProofs ------------------------------
(***************************************************************************)
(* A layer's forward computes, for every row, the layer's function of the  *)
(* row's own sequence, whatever calls came before it.  Each stage writes   *)
(* buffers of its own, from buffers that earlier stages of the same call   *)
(* have written and from the row's own state; so behind stage k the        *)
(* buffers of the first k stages hold the terms of the call's tokens.      *)
(***************************************************************************)
EXTENDS DecoderLayers, Summation, SequenceTheorems

--------------------------------------------------------------------------------
(* The terms of a token: what each buffer holds of position p of s.        *)

Token(s, p) == <<"x", s, p>>

(* The tail that all layers share, over the residual and its norm.         *)
MlpTerm(n, res1, rms2) ==
  CASE n = "mlp_gate" -> Proj("gate_proj", rms2)
    [] n = "mlp_up" -> Proj("up_proj", rms2)
    [] n = "silu_mul" -> <<"silu_mul", <<Proj("gate_proj", rms2), Proj("up_proj", rms2)>>>>
    [] n = "mlp_down" ->
         Proj("down_proj", <<"silu_mul", <<Proj("gate_proj", rms2), Proj("up_proj", rms2)>>>>)
    [] n = "final" -> Mlp(res1, rms2)

MlpNames == {"mlp_gate", "mlp_up", "silu_mul", "mlp_down", "final"}

(* Rotated by the angles of position p.                                    *)
Rotated(p, v) == <<"rope", p, <<v>>>>

(* Key and value of a position, in version 1.                              *)
BlockCell(s, p) ==
  <<Rotated(p, Proj("k_proj", Normed(s, p))), Proj("v_proj", Normed(s, p))>>

BlockAttention(s, p) ==
  <<"attention", <<Rotated(p, Proj("q_proj", Normed(s, p)))>>,
    [i \in 0..p |-> BlockCell(s, i)]>>

BlockResidual(s, p) ==
  <<"add", <<Token(s, p), Proj("o_proj", BlockAttention(s, p))>>>>

BlockTerm(n, s, p) ==
  CASE n \in {"x", "input"} -> Token(s, p)
    [] n = "rms1" -> Normed(s, p)
    [] n = "q" -> Proj("q_proj", Normed(s, p))
    [] n = "k" -> Proj("k_proj", Normed(s, p))
    [] n = "v" -> Proj("v_proj", Normed(s, p))
    [] n = "rope_q" -> Rotated(p, Proj("q_proj", Normed(s, p)))
    [] n = "rope_k" -> Rotated(p, Proj("k_proj", Normed(s, p)))
    [] n = "attn_raw" -> BlockAttention(s, p)
    [] n = "o_proj" -> Proj("o_proj", BlockAttention(s, p))
    [] n = "res1" -> BlockResidual(s, p)
    [] n = "rms2" -> <<"post_norm", <<BlockResidual(s, p)>>>>
    [] n \in MlpNames ->
         MlpTerm(n, BlockResidual(s, p), <<"post_norm", <<BlockResidual(s, p)>>>>)

(* The same for full attention with its norms and its gate.                *)
FullCell(s, p) ==
  <<Rotated(p, Proj("k_norm", Proj("k_proj", Normed(s, p)))), Proj("v_proj", Normed(s, p))>>

QGate(s, p) == Proj("q_proj", Normed(s, p))
FullQuery(s, p) == Rotated(p, Proj("q_norm", Proj("q_of", QGate(s, p))))

FullAttention(s, p) ==
  <<"attention", <<FullQuery(s, p)>>, [i \in 0..p |-> FullCell(s, i)]>>

FullGated(s, p) == <<"sigmoid_mul", <<FullAttention(s, p), Proj("gate_of", QGate(s, p))>>>>

(* What the fused residual and norm see.                                   *)
Added(s, p, y) == <<Token(s, p), y>>

FullTerm(n, s, p) ==
  CASE n \in {"x", "input"} -> Token(s, p)
    [] n = "rms1" -> Normed(s, p)
    [] n = "q_gate" -> QGate(s, p)
    [] n = "q" -> Proj("q_of", QGate(s, p))
    [] n = "att_gate" -> Proj("gate_of", QGate(s, p))
    [] n = "k" -> Proj("k_proj", Normed(s, p))
    [] n = "v" -> Proj("v_proj", Normed(s, p))
    [] n = "q_norm" -> Proj("q_norm", Proj("q_of", QGate(s, p)))
    [] n = "k_norm" -> Proj("k_norm", Proj("k_proj", Normed(s, p)))
    [] n = "rope_q" -> FullQuery(s, p)
    [] n = "rope_k" -> Rotated(p, Proj("k_norm", Proj("k_proj", Normed(s, p))))
    [] n = "attn_raw" -> FullAttention(s, p)
    [] n = "attn_gated" -> FullGated(s, p)
    [] n = "o_proj" -> Proj("o_proj", FullGated(s, p))
    [] n = "res1" -> <<"add", Added(s, p, Proj("o_proj", FullGated(s, p)))>>
    [] n = "rms2" -> <<"post_norm_of_add", Added(s, p, Proj("o_proj", FullGated(s, p)))>>
    [] n \in MlpNames ->
         MlpTerm(n, <<"add", Added(s, p, Proj("o_proj", FullGated(s, p)))>>,
                 <<"post_norm_of_add", Added(s, p, Proj("o_proj", FullGated(s, p)))>>)

(* The same for the linear attention: inputs and state of the convolution. *)
Mixed(s, p) == IF p < 0 THEN Zero ELSE Proj("in_proj_qkv", Normed(s, p))
ConvBefore(s, p) == <<Mixed(s, p - 3), Mixed(s, p - 2), Mixed(s, p - 1)>>
Convolved(op, s, p) ==
  <<op, <<Mixed(s, p - 3), Mixed(s, p - 2), Mixed(s, p - 1), Mixed(s, p)>>>>
Beta(s, p) == <<Proj("in_proj_b", Normed(s, p)), Proj("in_proj_a", Normed(s, p))>>
Core(s, p) == <<"delta_rule", DeltaArgs(s, p), RecState(s)[p]>>
LinearGated(s, p) == <<"gated_norm", <<Core(s, p), Proj("in_proj_z", Normed(s, p))>>>>

LinearTerm(n, s, p) ==
  CASE n \in {"x", "input"} -> Token(s, p)
    [] n = "rms1" -> Normed(s, p)
    [] n = "mixed" -> Mixed(s, p)
    [] n = "z" -> Proj("in_proj_z", Normed(s, p))
    [] n = "b" -> Proj("in_proj_b", Normed(s, p))
    [] n = "a" -> Proj("in_proj_a", Normed(s, p))
    [] n = "conv_out" -> Convolved("conv", s, p)
    [] n = "conv_silu" -> Convolved("conv_silu", s, p)
    [] n = "q" -> Proj("q_of", Convolved("conv_silu", s, p))
    [] n = "k" -> Proj("k_of", Convolved("conv_silu", s, p))
    [] n = "v" -> Proj("v_of", Convolved("conv_silu", s, p))
    [] n = "beta" -> <<"beta", Beta(s, p)>>
    [] n = "g" -> <<"g", Beta(s, p)>>
    [] n = "core" -> Core(s, p)
    [] n = "gated" -> LinearGated(s, p)
    [] n = "o_proj" -> Proj("out_proj", LinearGated(s, p))
    [] n = "res1" -> <<"add", Added(s, p, Proj("out_proj", LinearGated(s, p)))>>
    [] n = "rms2" -> <<"post_norm_of_add", Added(s, p, Proj("out_proj", LinearGated(s, p)))>>
    [] n \in MlpNames ->
         MlpTerm(n, <<"add", Added(s, p, Proj("out_proj", LinearGated(s, p)))>>,
                 <<"post_norm_of_add", Added(s, p, Proj("out_proj", LinearGated(s, p)))>>)

--------------------------------------------------------------------------------
(* The stage that writes a buffer; 99 if none does.                        *)

MlpOrder(n) == CASE n = "mlp_gate" -> 1 [] n = "mlp_up" -> 2 [] n = "silu_mul" -> 3
                 [] n = "mlp_down" -> 4 [] n = "final" -> 5

BlockOrder(n) ==
  CASE n = "x" -> 0
    [] n = "input" -> 1
    [] n = "rms1" -> 2
    [] n = "q" -> 3
    [] n = "k" -> 4
    [] n = "v" -> 5
    [] n = "rope_q" -> 6
    [] n = "rope_k" -> 7
    [] n = "attn_raw" -> 9
    [] n = "o_proj" -> 10
    [] n = "res1" -> 11
    [] n = "rms2" -> 12
    [] n \in MlpNames -> 12 + MlpOrder(n)
    [] OTHER -> 99

FullOrder(n) ==
  CASE n = "x" -> 0
    [] n = "input" -> 1
    [] n = "rms1" -> 2
    [] n = "q_gate" -> 3
    [] n \in {"q", "att_gate"} -> 4
    [] n = "k" -> 5
    [] n = "v" -> 6
    [] n = "q_norm" -> 7
    [] n = "k_norm" -> 8
    [] n = "rope_q" -> 9
    [] n = "rope_k" -> 10
    [] n = "attn_raw" -> 12
    [] n = "attn_gated" -> 13
    [] n = "o_proj" -> 14
    [] n \in {"res1", "rms2"} -> 15
    [] n \in MlpNames -> 15 + MlpOrder(n)
    [] OTHER -> 99

LinearOrder(n) ==
  CASE n = "x" -> 0
    [] n = "input" -> 1
    [] n = "rms1" -> 2
    [] n = "mixed" -> 3
    [] n = "z" -> 4
    [] n = "b" -> 5
    [] n = "a" -> 6
    [] n \in {"conv_out", "conv_silu"} -> 7
    [] n \in {"q", "k", "v"} -> 8
    [] n \in {"beta", "g"} -> 9
    [] n = "core" -> 10
    [] n = "gated" -> 11
    [] n = "o_proj" -> 12
    [] n \in {"res1", "rms2"} -> 13
    [] n \in MlpNames -> 13 + MlpOrder(n)
    [] OTHER -> 99

--------------------------------------------------------------------------------
(* The three kinds of layer.                                               *)
KINDS == {"block", "full", "linear"}

ListOf(K) == CASE K = "block" -> BlockStages [] K = "full" -> FullStages
               [] K = "linear" -> LinearStages

OrderOf(K, n) == CASE K = "block" -> BlockOrder(n) [] K = "full" -> FullOrder(n)
                   [] K = "linear" -> LinearOrder(n)

TermOf(K, n, s, p) ==
  CASE K = "block" -> BlockTerm(n, s, p) [] K = "full" -> FullTerm(n, s, p)
    [] K = "linear" -> LinearTerm(n, s, p)

CellOf(K, s, p) == IF K = "block" THEN BlockCell(s, p) ELSE FullCell(s, p)

(* What an operation makes of its arguments for a token.                   *)
Applied(K, op, args, s, p) ==
  CASE op = "copy" -> Token(s, p)
    [] op = "rope" -> <<"rope", p, args>>
    [] op = "attention" -> <<"attention", args, [i \in 0..p |-> CellOf(K, s, i)]>>
    [] op \in {"conv", "conv_silu"} -> <<op, Append(ConvBefore(s, p), args[1])>>
    [] op = "delta_rule" -> <<op, args, RecState(s)[p]>>
    [] OTHER -> <<op, args>>

(* A stage in its place: it reads what was written before it, and writes   *)
(* what no other stage writes,                                             *)
InPlace(K, k, from, to) ==
  /\ \A j \in DOMAIN from : from[j] \in Names \cup {"x"} /\ OrderOf(K, from[j]) < k
  /\ \A i \in DOMAIN to : to[i] \in Names /\ OrderOf(K, to[i]) = k
  /\ \A n \in Names : OrderOf(K, n) = k => \E i \in DOMAIN to : to[i] = n
  /\ \A i, j \in DOMAIN to : to[i] = to[j] => i = j

(* and that is the terms of its buffers.                                   *)
Fed(K, st, s, p) == [j \in DOMAIN st.from |-> TermOf(K, st.from[j], s, p)]

StageSound(K, k, st, s, p) ==
  /\ InPlace(K, k, st.from, st.to)
  /\ \A i \in DOMAIN st.to :
       TermOf(K, st.to[i], s, p) = Applied(K, st.ops[i], Fed(K, st, s, p), s, p)

(* The buffers, by name.                                                   *)
LEMMA NamesAre ==
  Names = {"input", "rms1", "q", "q_gate", "att_gate", "k", "v", "q_norm", "k_norm", "rope_q",
           "rope_k", "attn_raw", "attn_gated", "o_proj", "res1", "rms2", "mlp_gate", "mlp_up",
           "silu_mul", "mlp_down", "final", "mixed", "z", "b", "a", "conv_out", "conv_silu",
           "beta", "g", "core", "gated"}
PROOF
<1> QED BY DEF Names, Width

(* The stages that read or write the state of a sequence, and what they    *)
(* write to it.                                                            *)
KvStage(K) == IF K = "block" THEN 8 ELSE 11

Stateful(K, k, st, s, p) ==
  /\ \A i \in DOMAIN st.to :
       /\ st.ops[i] = "attention" => K # "linear" /\ k > KvStage(K)
       /\ st.ops[i] \in {"conv", "conv_silu"} => K = "linear" /\ k = 7
       /\ st.ops[i] = "delta_rule" => K = "linear" /\ k = 10
  /\ st.ops[1] = "kv_write" <=> K # "linear" /\ k = KvStage(K)
  /\ st.ops[1] = "conv" <=> K = "linear" /\ k = 7
  /\ st.ops[1] = "delta_rule" <=> K = "linear" /\ k = 10
  /\ st.ops[1] = "kv_write" => Fed(K, st, s, p) = CellOf(K, s, p)
  /\ st.ops[1] = "conv" => Fed(K, st, s, p)[1] = Mixed(s, p)
  /\ st.ops[1] = "delta_rule" => Fed(K, st, s, p) = DeltaArgs(s, p)

(* The widths of a stage are those of its buffers.                         *)
Sized(K, st) ==
  kind = K => \A i \in DOMAIN st.to : st.widths[i] = Width[st.to[i]]

(* What the operations that only map buffers to buffers yield.             *)
Special == {"copy", "rope", "attention", "conv", "conv_silu", "delta_rule"}

LEMMA Plain ==
  ASSUME NEW K, NEW args, NEW s, NEW p, NEW op, op \notin Special
  PROVE  Applied(K, op, args, s, p) = <<op, args>>
PROOF
<1> QED BY Zenon DEF Applied, Special

(* The tail: each of its terms is of those before it.                      *)
LEMMA MlpTerms ==
  ASSUME NEW res1, NEW rms2
  PROVE  /\ MlpTerm("mlp_gate", res1, rms2) = <<"gate_proj", <<rms2>>>>
         /\ MlpTerm("mlp_up", res1, rms2) = <<"up_proj", <<rms2>>>>
         /\ MlpTerm("silu_mul", res1, rms2) =
              <<"silu_mul", <<MlpTerm("mlp_gate", res1, rms2),
                              MlpTerm("mlp_up", res1, rms2)>>>>
         /\ MlpTerm("mlp_down", res1, rms2) =
              <<"down_proj", <<MlpTerm("silu_mul", res1, rms2)>>>>
         /\ MlpTerm("final", res1, rms2) =
              <<"add", <<res1, MlpTerm("mlp_down", res1, rms2)>>>>
PROOF
<1>1. /\ MlpTerm("mlp_gate", res1, rms2) = Proj("gate_proj", rms2)
      /\ MlpTerm("mlp_up", res1, rms2) = Proj("up_proj", rms2)
      /\ MlpTerm("silu_mul", res1, rms2)
           = <<"silu_mul", <<Proj("gate_proj", rms2), Proj("up_proj", rms2)>>>>
      /\ MlpTerm("mlp_down", res1, rms2)
           = Proj("down_proj",
                  <<"silu_mul", <<Proj("gate_proj", rms2), Proj("up_proj", rms2)>>>>)
      /\ MlpTerm("final", res1, rms2) = Mlp(res1, rms2)
  BY Zenon DEF MlpTerm
<1> QED BY <1>1 DEF Mlp, Proj

(* What each buffer holds in a layer of kind "block".                    *)
LEMMA BlockTerms ==
  ASSUME NEW s, NEW p
  PROVE  /\ BlockTerm("x", s, p) = Token(s, p)
         /\ BlockTerm("input", s, p) = Token(s, p)
         /\ BlockTerm("rms1", s, p) = Normed(s, p)
         /\ BlockTerm("q", s, p) = Proj("q_proj", Normed(s, p))
         /\ BlockTerm("k", s, p) = Proj("k_proj", Normed(s, p))
         /\ BlockTerm("v", s, p) = Proj("v_proj", Normed(s, p))
         /\ BlockTerm("rope_q", s, p) = Rotated(p, Proj("q_proj", Normed(s, p)))
         /\ BlockTerm("rope_k", s, p) = Rotated(p, Proj("k_proj", Normed(s, p)))
         /\ BlockTerm("attn_raw", s, p) = BlockAttention(s, p)
         /\ BlockTerm("o_proj", s, p) = Proj("o_proj", BlockAttention(s, p))
         /\ BlockTerm("res1", s, p) = BlockResidual(s, p)
         /\ BlockTerm("rms2", s, p) = <<"post_norm", <<BlockResidual(s, p)>>>>
PROOF
<1> QED BY Zenon DEF BlockTerm, MlpNames

(* The tail of a layer of kind "block".                                    *)
LEMMA BlockTail ==
  ASSUME NEW s, NEW p, NEW n \in MlpNames
  PROVE  BlockTerm(n, s, p)
           = MlpTerm(n, BlockTerm("res1", s, p), BlockTerm("rms2", s, p))
PROOF
<1>1. n \notin {"x", "input", "rms1", "q", "q_gate", "att_gate", "k", "v", "q_norm",
                "k_norm", "rope_q", "rope_k", "attn_raw", "attn_gated", "o_proj", "res1",
                "rms2", "mixed", "z", "b", "a", "conv_out", "conv_silu", "beta", "g",
                "core", "gated"}
  BY DEF MlpNames
<1>2. BlockTerm(n, s, p) = MlpTerm(n, BlockResidual(s, p),
         <<"post_norm", <<BlockResidual(s, p)>>>>)
  BY <1>1, Zenon DEF BlockTerm
<1> QED BY <1>2, BlockTerms

(* What each buffer holds in a layer of kind "full".                     *)
LEMMA FullTerms ==
  ASSUME NEW s, NEW p
  PROVE  /\ FullTerm("x", s, p) = Token(s, p)
         /\ FullTerm("input", s, p) = Token(s, p)
         /\ FullTerm("rms1", s, p) = Normed(s, p)
         /\ FullTerm("q_gate", s, p) = QGate(s, p)
         /\ FullTerm("q", s, p) = Proj("q_of", QGate(s, p))
         /\ FullTerm("att_gate", s, p) = Proj("gate_of", QGate(s, p))
         /\ FullTerm("k", s, p) = Proj("k_proj", Normed(s, p))
         /\ FullTerm("v", s, p) = Proj("v_proj", Normed(s, p))
         /\ FullTerm("q_norm", s, p) = Proj("q_norm", Proj("q_of", QGate(s, p)))
         /\ FullTerm("k_norm", s, p) = Proj("k_norm", Proj("k_proj", Normed(s, p)))
         /\ FullTerm("rope_q", s, p) = FullQuery(s, p)
         /\ FullTerm("rope_k", s, p)
              = Rotated(p, Proj("k_norm", Proj("k_proj", Normed(s, p))))
         /\ FullTerm("attn_raw", s, p) = FullAttention(s, p)
         /\ FullTerm("attn_gated", s, p) = FullGated(s, p)
         /\ FullTerm("o_proj", s, p) = Proj("o_proj", FullGated(s, p))
         /\ FullTerm("res1", s, p)
              = <<"add", Added(s, p, Proj("o_proj", FullGated(s, p)))>>
         /\ FullTerm("rms2", s, p)
              = <<"post_norm_of_add", Added(s, p, Proj("o_proj", FullGated(s, p)))>>
PROOF
<1> QED BY Zenon DEF FullTerm, MlpNames

(* The tail of a layer of kind "full".                                     *)
LEMMA FullTail ==
  ASSUME NEW s, NEW p, NEW n \in MlpNames
  PROVE  FullTerm(n, s, p)
           = MlpTerm(n, FullTerm("res1", s, p), FullTerm("rms2", s, p))
PROOF
<1>1. n \notin {"x", "input", "rms1", "q", "q_gate", "att_gate", "k", "v", "q_norm",
                "k_norm", "rope_q", "rope_k", "attn_raw", "attn_gated", "o_proj", "res1",
                "rms2", "mixed", "z", "b", "a", "conv_out", "conv_silu", "beta", "g",
                "core", "gated"}
  BY DEF MlpNames
<1>2. FullTerm(n, s, p)
       = MlpTerm(n, <<"add", Added(s, p, Proj("o_proj", FullGated(s, p)))>>,
         <<"post_norm_of_add", Added(s, p, Proj("o_proj", FullGated(s, p)))>>)
  BY <1>1, Zenon DEF FullTerm
<1> QED BY <1>2, FullTerms

(* What each buffer holds in a layer of kind "linear".                   *)
LEMMA LinearTerms ==
  ASSUME NEW s, NEW p
  PROVE  /\ LinearTerm("x", s, p) = Token(s, p)
         /\ LinearTerm("input", s, p) = Token(s, p)
         /\ LinearTerm("rms1", s, p) = Normed(s, p)
         /\ LinearTerm("mixed", s, p) = Mixed(s, p)
         /\ LinearTerm("z", s, p) = Proj("in_proj_z", Normed(s, p))
         /\ LinearTerm("b", s, p) = Proj("in_proj_b", Normed(s, p))
         /\ LinearTerm("a", s, p) = Proj("in_proj_a", Normed(s, p))
         /\ LinearTerm("conv_out", s, p) = Convolved("conv", s, p)
         /\ LinearTerm("conv_silu", s, p) = Convolved("conv_silu", s, p)
         /\ LinearTerm("q", s, p) = Proj("q_of", Convolved("conv_silu", s, p))
         /\ LinearTerm("k", s, p) = Proj("k_of", Convolved("conv_silu", s, p))
         /\ LinearTerm("v", s, p) = Proj("v_of", Convolved("conv_silu", s, p))
         /\ LinearTerm("beta", s, p) = <<"beta", Beta(s, p)>>
         /\ LinearTerm("g", s, p) = <<"g", Beta(s, p)>>
         /\ LinearTerm("core", s, p) = Core(s, p)
         /\ LinearTerm("gated", s, p) = LinearGated(s, p)
         /\ LinearTerm("o_proj", s, p) = Proj("out_proj", LinearGated(s, p))
         /\ LinearTerm("res1", s, p)
              = <<"add", Added(s, p, Proj("out_proj", LinearGated(s, p)))>>
         /\ LinearTerm("rms2", s, p)
              = <<"post_norm_of_add", Added(s, p, Proj("out_proj", LinearGated(s, p)))>>
PROOF
<1> QED BY Zenon DEF LinearTerm, MlpNames

(* The tail of a layer of kind "linear".                                   *)
LEMMA LinearTail ==
  ASSUME NEW s, NEW p, NEW n \in MlpNames
  PROVE  LinearTerm(n, s, p)
           = MlpTerm(n, LinearTerm("res1", s, p), LinearTerm("rms2", s, p))
PROOF
<1>1. n \notin {"x", "input", "rms1", "q", "q_gate", "att_gate", "k", "v", "q_norm",
                "k_norm", "rope_q", "rope_k", "attn_raw", "attn_gated", "o_proj", "res1",
                "rms2", "mixed", "z", "b", "a", "conv_out", "conv_silu", "beta", "g",
                "core", "gated"}
  BY DEF MlpNames
<1>2. LinearTerm(n, s, p)
       = MlpTerm(n, <<"add", Added(s, p, Proj("out_proj", LinearGated(s, p)))>>,
         <<"post_norm_of_add", Added(s, p, Proj("out_proj", LinearGated(s, p)))>>)
  BY <1>1, Zenon DEF LinearTerm
<1> QED BY <1>2, LinearTerms

(* Three elements and one more.                                            *)
LEMMA AppendedToThree ==
  ASSUME NEW t1, NEW t2, NEW t3, NEW v
  PROVE  Append(<<t1, t2, t3>>, v) = <<t1, t2, t3, v>>
PROOF
<1> DEFINE S == {t1, t2, t3, v}
           a == Append(<<t1, t2, t3>>, v)
           b == <<t1, t2, t3, v>>
<1>1. <<t1, t2, t3>> \in Seq(S) /\ Len(<<t1, t2, t3>>) = 3 /\ v \in S
  OBVIOUS
<1>2. /\ a \in Seq(S) /\ Len(a) = 4 /\ a[4] = v
      /\ \A i \in 1..3 : a[i] = <<t1, t2, t3>>[i]
  BY <1>1, AppendProperties
<1>3. a[1] = t1 /\ a[2] = t2 /\ a[3] = t3 /\ a[4] = v
  BY <1>2
<1>4. b \in Seq(S) /\ Len(b) = 4 /\ b[1] = t1 /\ b[2] = t2 /\ b[3] = t3 /\ b[4] = v
  OBVIOUS
<1> HIDE DEF a, b
<1>5. \A i \in 1..4 : a[i] = b[i]
  BY <1>3, <1>4
<1>6. a = b
  BY <1>2, <1>4, <1>5, SeqEqual
<1> QED BY <1>6 DEF a, b

(* The stages of a layer of kind "block", one by one.                    *)
LEMMA BlockStagesSound ==
  ASSUME NEW s, NEW p \in Nat
  PROVE  /\ Len(BlockStages) = 17
         /\ \A k \in 1..17 : /\ StageSound("block", k, BlockStages[k], s, p)
           /\ Stateful("block", k, BlockStages[k], s, p) /\ Sized("block", BlockStages[k])
PROOF
<1>0. Len(BlockStages) = 17
  BY DEF BlockStages, MlpStages
<1>a. \A n : TermOf("block", n, s, p) = BlockTerm(n, s, p)
  BY Zenon DEF TermOf
<1>b. \A n \in {"mlp_gate", "mlp_up", "silu_mul", "mlp_down", "final"} :
         BlockTerm(n, s, p) = MlpTerm(n, BlockTerm("res1", s, p), BlockTerm("rms2", s, p))
  BY BlockTail DEF MlpNames
<1>c. {"add", "down_proj", "gate_proj", "input_norm", "k_proj", "o_proj", "post_norm",
      "q_proj", "silu_mul", "up_proj", "v_proj"} \cap Special
        = {}
  BY DEF Special
<1>1. /\ StageSound("block", 1, BlockStages[1], s, p)
      /\ Stateful("block", 1, BlockStages[1], s, p) /\ Sized("block", BlockStages[1])
  <2>1. BlockStages[1] = Stage(<<"copy">>, <<"x">>, <<"input">>, <<H>>)
    BY DEF BlockStages, MlpStages, One
  <2>2. InPlace("block", 1, <<"x">>, <<"input">>)
    BY NamesAre DEF InPlace, OrderOf, BlockOrder, MlpNames, MlpOrder
  <2>3. Fed("block", BlockStages[1], s, p) = <<BlockTerm("x", s, p)>>
    BY <2>1, <1>a DEF Fed, Stage
  <2>4. Applied("block", "copy", <<BlockTerm("x", s, p)>>, s, p) = Token(s, p)
    BY Zenon DEF Applied
  <2>5. BlockTerm("input", s, p) = Token(s, p)
    BY BlockTerms
  <2>6. StageSound("block", 1, BlockStages[1], s, p)
    BY <2>1, <2>2, <2>3, <2>4, <2>5, <1>a DEF StageSound, Stage
  <2>7. Stateful("block", 1, BlockStages[1], s, p)
    BY <2>1 DEF Stateful, Stage, KvStage
  <2>8. Sized("block", BlockStages[1])
    BY <2>1 DEF Sized, Stage, Width
  <2> QED BY <2>6, <2>7, <2>8
<1>2. /\ StageSound("block", 2, BlockStages[2], s, p)
      /\ Stateful("block", 2, BlockStages[2], s, p) /\ Sized("block", BlockStages[2])
  <2>1. BlockStages[2] = Stage(<<"input_norm">>, <<"input">>, <<"rms1">>, <<H>>)
    BY DEF BlockStages, MlpStages, One
  <2>2. InPlace("block", 2, <<"input">>, <<"rms1">>)
    BY NamesAre DEF InPlace, OrderOf, BlockOrder, MlpNames, MlpOrder
  <2>3. Fed("block", BlockStages[2], s, p) = <<BlockTerm("input", s, p)>>
    BY <2>1, <1>a DEF Fed, Stage
  <2>4. BlockTerm("rms1", s, p) = <<"input_norm", <<BlockTerm("input", s, p)>>>>
    BY BlockTerms DEF Normed, Token
  <2>5. StageSound("block", 2, BlockStages[2], s, p)
    BY <2>1, <2>2, <2>3, <2>4, <1>a, <1>c, Plain DEF StageSound, Stage
  <2>6. Stateful("block", 2, BlockStages[2], s, p)
    BY <2>1 DEF Stateful, Stage, KvStage
  <2>7. Sized("block", BlockStages[2])
    BY <2>1 DEF Sized, Stage, Width
  <2> QED BY <2>5, <2>6, <2>7
<1>3. /\ StageSound("block", 3, BlockStages[3], s, p)
      /\ Stateful("block", 3, BlockStages[3], s, p) /\ Sized("block", BlockStages[3])
  <2>1. BlockStages[3] = Stage(<<"q_proj">>, <<"rms1">>, <<"q">>, <<QO>>)
    BY DEF BlockStages, MlpStages, One
  <2>2. InPlace("block", 3, <<"rms1">>, <<"q">>)
    BY NamesAre DEF InPlace, OrderOf, BlockOrder, MlpNames, MlpOrder
  <2>3. Fed("block", BlockStages[3], s, p) = <<BlockTerm("rms1", s, p)>>
    BY <2>1, <1>a DEF Fed, Stage
  <2>4. BlockTerm("q", s, p) = <<"q_proj", <<BlockTerm("rms1", s, p)>>>>
    BY BlockTerms DEF Proj
  <2>5. StageSound("block", 3, BlockStages[3], s, p)
    BY <2>1, <2>2, <2>3, <2>4, <1>a, <1>c, Plain DEF StageSound, Stage
  <2>6. Stateful("block", 3, BlockStages[3], s, p)
    BY <2>1 DEF Stateful, Stage, KvStage
  <2>7. Sized("block", BlockStages[3])
    BY <2>1 DEF Sized, Stage, Width
  <2> QED BY <2>5, <2>6, <2>7
<1>4. /\ StageSound("block", 4, BlockStages[4], s, p)
      /\ Stateful("block", 4, BlockStages[4], s, p) /\ Sized("block", BlockStages[4])
  <2>1. BlockStages[4] = Stage(<<"k_proj">>, <<"rms1">>, <<"k">>, <<KVO>>)
    BY DEF BlockStages, MlpStages, One
  <2>2. InPlace("block", 4, <<"rms1">>, <<"k">>)
    BY NamesAre DEF InPlace, OrderOf, BlockOrder, MlpNames, MlpOrder
  <2>3. Fed("block", BlockStages[4], s, p) = <<BlockTerm("rms1", s, p)>>
    BY <2>1, <1>a DEF Fed, Stage
  <2>4. BlockTerm("k", s, p) = <<"k_proj", <<BlockTerm("rms1", s, p)>>>>
    BY BlockTerms DEF Proj
  <2>5. StageSound("block", 4, BlockStages[4], s, p)
    BY <2>1, <2>2, <2>3, <2>4, <1>a, <1>c, Plain DEF StageSound, Stage
  <2>6. Stateful("block", 4, BlockStages[4], s, p)
    BY <2>1 DEF Stateful, Stage, KvStage
  <2>7. Sized("block", BlockStages[4])
    BY <2>1 DEF Sized, Stage, Width
  <2> QED BY <2>5, <2>6, <2>7
<1>5. /\ StageSound("block", 5, BlockStages[5], s, p)
      /\ Stateful("block", 5, BlockStages[5], s, p) /\ Sized("block", BlockStages[5])
  <2>1. BlockStages[5] = Stage(<<"v_proj">>, <<"rms1">>, <<"v">>, <<KVO>>)
    BY DEF BlockStages, MlpStages, One
  <2>2. InPlace("block", 5, <<"rms1">>, <<"v">>)
    BY NamesAre DEF InPlace, OrderOf, BlockOrder, MlpNames, MlpOrder
  <2>3. Fed("block", BlockStages[5], s, p) = <<BlockTerm("rms1", s, p)>>
    BY <2>1, <1>a DEF Fed, Stage
  <2>4. BlockTerm("v", s, p) = <<"v_proj", <<BlockTerm("rms1", s, p)>>>>
    BY BlockTerms DEF Proj
  <2>5. StageSound("block", 5, BlockStages[5], s, p)
    BY <2>1, <2>2, <2>3, <2>4, <1>a, <1>c, Plain DEF StageSound, Stage
  <2>6. Stateful("block", 5, BlockStages[5], s, p)
    BY <2>1 DEF Stateful, Stage, KvStage
  <2>7. Sized("block", BlockStages[5])
    BY <2>1 DEF Sized, Stage, Width
  <2> QED BY <2>5, <2>6, <2>7
<1>6. /\ StageSound("block", 6, BlockStages[6], s, p)
      /\ Stateful("block", 6, BlockStages[6], s, p) /\ Sized("block", BlockStages[6])
  <2>1. BlockStages[6] = Stage(<<"rope">>, <<"q">>, <<"rope_q">>, <<QO>>)
    BY DEF BlockStages, MlpStages, One
  <2>2. InPlace("block", 6, <<"q">>, <<"rope_q">>)
    BY NamesAre DEF InPlace, OrderOf, BlockOrder, MlpNames, MlpOrder
  <2>3. Fed("block", BlockStages[6], s, p) = <<BlockTerm("q", s, p)>>
    BY <2>1, <1>a DEF Fed, Stage
  <2>4. Applied("block", "rope", <<BlockTerm("q", s, p)>>, s, p)
          = <<"rope", p, <<BlockTerm("q", s, p)>>>>
    BY Zenon DEF Applied
  <2>5. BlockTerm("rope_q", s, p) = <<"rope", p, <<BlockTerm("q", s, p)>>>>
    BY BlockTerms DEF Rotated
  <2>6. StageSound("block", 6, BlockStages[6], s, p)
    BY <2>1, <2>2, <2>3, <2>4, <2>5, <1>a DEF StageSound, Stage
  <2>7. Stateful("block", 6, BlockStages[6], s, p)
    BY <2>1 DEF Stateful, Stage, KvStage
  <2>8. Sized("block", BlockStages[6])
    BY <2>1 DEF Sized, Stage, Width
  <2> QED BY <2>6, <2>7, <2>8
<1>7. /\ StageSound("block", 7, BlockStages[7], s, p)
      /\ Stateful("block", 7, BlockStages[7], s, p) /\ Sized("block", BlockStages[7])
  <2>1. BlockStages[7] = Stage(<<"rope">>, <<"k">>, <<"rope_k">>, <<KVO>>)
    BY DEF BlockStages, MlpStages, One
  <2>2. InPlace("block", 7, <<"k">>, <<"rope_k">>)
    BY NamesAre DEF InPlace, OrderOf, BlockOrder, MlpNames, MlpOrder
  <2>3. Fed("block", BlockStages[7], s, p) = <<BlockTerm("k", s, p)>>
    BY <2>1, <1>a DEF Fed, Stage
  <2>4. Applied("block", "rope", <<BlockTerm("k", s, p)>>, s, p)
          = <<"rope", p, <<BlockTerm("k", s, p)>>>>
    BY Zenon DEF Applied
  <2>5. BlockTerm("rope_k", s, p) = <<"rope", p, <<BlockTerm("k", s, p)>>>>
    BY BlockTerms DEF Rotated
  <2>6. StageSound("block", 7, BlockStages[7], s, p)
    BY <2>1, <2>2, <2>3, <2>4, <2>5, <1>a DEF StageSound, Stage
  <2>7. Stateful("block", 7, BlockStages[7], s, p)
    BY <2>1 DEF Stateful, Stage, KvStage
  <2>8. Sized("block", BlockStages[7])
    BY <2>1 DEF Sized, Stage, Width
  <2> QED BY <2>6, <2>7, <2>8
<1>8. /\ StageSound("block", 8, BlockStages[8], s, p)
      /\ Stateful("block", 8, BlockStages[8], s, p) /\ Sized("block", BlockStages[8])
  <2>1. BlockStages[8] = Stage(<<"kv_write">>, <<"rope_k", "v">>, <<>>, <<>>)
    BY DEF BlockStages, MlpStages, One
  <2>2. InPlace("block", 8, <<"rope_k", "v">>, <<>>)
    BY NamesAre DEF InPlace, OrderOf, BlockOrder, MlpNames, MlpOrder
  <2>3. Fed("block", BlockStages[8], s, p)
          = <<BlockTerm("rope_k", s, p), BlockTerm("v", s, p)>>
    BY <2>1, <1>a DEF Fed, Stage
  <2>4. StageSound("block", 8, BlockStages[8], s, p)
    BY <2>1, <2>2, <2>3, <1>a DEF StageSound, Stage
  <2>5. Stateful("block", 8, BlockStages[8], s, p)
    BY <2>1, <2>3, BlockTerms DEF Stateful, Stage, KvStage, CellOf, BlockCell
  <2>6. Sized("block", BlockStages[8])
    BY <2>1 DEF Sized, Stage, Width
  <2> QED BY <2>4, <2>5, <2>6
<1>9. /\ StageSound("block", 9, BlockStages[9], s, p)
      /\ Stateful("block", 9, BlockStages[9], s, p) /\ Sized("block", BlockStages[9])
  <2>1. BlockStages[9] = Stage(<<"attention">>, <<"rope_q">>, <<"attn_raw">>, <<QO>>)
    BY DEF BlockStages, MlpStages, One
  <2>2. InPlace("block", 9, <<"rope_q">>, <<"attn_raw">>)
    BY NamesAre DEF InPlace, OrderOf, BlockOrder, MlpNames, MlpOrder
  <2>3. Fed("block", BlockStages[9], s, p) = <<BlockTerm("rope_q", s, p)>>
    BY <2>1, <1>a DEF Fed, Stage
  <2>4. Applied("block", "attention", <<BlockTerm("rope_q", s, p)>>, s, p)
          = <<"attention", <<BlockTerm("rope_q", s, p)>>,
              [i \in 0..p |-> CellOf("block", s, i)]>>
    BY Zenon DEF Applied
  <2>5. BlockTerm("attn_raw", s, p)
          = <<"attention", <<BlockTerm("rope_q", s, p)>>,
              [i \in 0..p |-> CellOf("block", s, i)]>>
    BY BlockTerms DEF BlockAttention, CellOf
  <2>6. BlockTerm("attn_raw", s, p)
          = Applied("block", "attention", <<BlockTerm("rope_q", s, p)>>, s, p)
    BY <2>4, <2>5
  <2>7. StageSound("block", 9, BlockStages[9], s, p)
    BY <2>1, <2>2, <2>3, <2>6, <1>a DEF StageSound, Stage
  <2>8. Stateful("block", 9, BlockStages[9], s, p)
    BY <2>1 DEF Stateful, Stage, KvStage
  <2>9. Sized("block", BlockStages[9])
    BY <2>1 DEF Sized, Stage, Width
  <2> QED BY <2>7, <2>8, <2>9
<1>10. /\ StageSound("block", 10, BlockStages[10], s, p)
      /\ Stateful("block", 10, BlockStages[10], s, p) /\ Sized("block", BlockStages[10])
  <2>1. BlockStages[10] = Stage(<<"o_proj">>, <<"attn_raw">>, <<"o_proj">>, <<H>>)
    BY DEF BlockStages, MlpStages, One
  <2>2. InPlace("block", 10, <<"attn_raw">>, <<"o_proj">>)
    BY NamesAre DEF InPlace, OrderOf, BlockOrder, MlpNames, MlpOrder
  <2>3. Fed("block", BlockStages[10], s, p) = <<BlockTerm("attn_raw", s, p)>>
    BY <2>1, <1>a DEF Fed, Stage
  <2>4. BlockTerm("o_proj", s, p) = <<"o_proj", <<BlockTerm("attn_raw", s, p)>>>>
    BY BlockTerms DEF Proj
  <2>5. StageSound("block", 10, BlockStages[10], s, p)
    BY <2>1, <2>2, <2>3, <2>4, <1>a, <1>c, Plain DEF StageSound, Stage
  <2>6. Stateful("block", 10, BlockStages[10], s, p)
    BY <2>1 DEF Stateful, Stage, KvStage
  <2>7. Sized("block", BlockStages[10])
    BY <2>1 DEF Sized, Stage, Width
  <2> QED BY <2>5, <2>6, <2>7
<1>11. /\ StageSound("block", 11, BlockStages[11], s, p)
      /\ Stateful("block", 11, BlockStages[11], s, p) /\ Sized("block", BlockStages[11])
  <2>1. BlockStages[11] = Stage(<<"add">>, <<"input", "o_proj">>, <<"res1">>, <<H>>)
    BY DEF BlockStages, MlpStages, One
  <2>2. InPlace("block", 11, <<"input", "o_proj">>, <<"res1">>)
    BY NamesAre DEF InPlace, OrderOf, BlockOrder, MlpNames, MlpOrder
  <2>3. Fed("block", BlockStages[11], s, p)
          = <<BlockTerm("input", s, p), BlockTerm("o_proj", s, p)>>
    BY <2>1, <1>a DEF Fed, Stage
  <2>4. BlockTerm("res1", s, p)
          = <<"add", <<BlockTerm("input", s, p), BlockTerm("o_proj", s, p)>>>>
    BY BlockTerms DEF BlockResidual
  <2>5. StageSound("block", 11, BlockStages[11], s, p)
    BY <2>1, <2>2, <2>3, <2>4, <1>a, <1>c, Plain DEF StageSound, Stage
  <2>6. Stateful("block", 11, BlockStages[11], s, p)
    BY <2>1 DEF Stateful, Stage, KvStage
  <2>7. Sized("block", BlockStages[11])
    BY <2>1 DEF Sized, Stage, Width
  <2> QED BY <2>5, <2>6, <2>7
<1>12. /\ StageSound("block", 12, BlockStages[12], s, p)
      /\ Stateful("block", 12, BlockStages[12], s, p) /\ Sized("block", BlockStages[12])
  <2>1. BlockStages[12] = Stage(<<"post_norm">>, <<"res1">>, <<"rms2">>, <<H>>)
    BY DEF BlockStages, MlpStages, One
  <2>2. InPlace("block", 12, <<"res1">>, <<"rms2">>)
    BY NamesAre DEF InPlace, OrderOf, BlockOrder, MlpNames, MlpOrder
  <2>3. Fed("block", BlockStages[12], s, p) = <<BlockTerm("res1", s, p)>>
    BY <2>1, <1>a DEF Fed, Stage
  <2>4. BlockTerm("rms2", s, p) = <<"post_norm", <<BlockTerm("res1", s, p)>>>>
    BY BlockTerms
  <2>5. StageSound("block", 12, BlockStages[12], s, p)
    BY <2>1, <2>2, <2>3, <2>4, <1>a, <1>c, Plain DEF StageSound, Stage
  <2>6. Stateful("block", 12, BlockStages[12], s, p)
    BY <2>1 DEF Stateful, Stage, KvStage
  <2>7. Sized("block", BlockStages[12])
    BY <2>1 DEF Sized, Stage, Width
  <2> QED BY <2>5, <2>6, <2>7
<1>13. /\ StageSound("block", 13, BlockStages[13], s, p)
      /\ Stateful("block", 13, BlockStages[13], s, p) /\ Sized("block", BlockStages[13])
  <2>1. BlockStages[13] = Stage(<<"gate_proj">>, <<"rms2">>, <<"mlp_gate">>, <<I>>)
    BY DEF BlockStages, MlpStages, One
  <2>2. InPlace("block", 13, <<"rms2">>, <<"mlp_gate">>)
    BY NamesAre DEF InPlace, OrderOf, BlockOrder, MlpNames, MlpOrder
  <2>3. Fed("block", BlockStages[13], s, p) = <<BlockTerm("rms2", s, p)>>
    BY <2>1, <1>a DEF Fed, Stage
  <2>4. BlockTerm("mlp_gate", s, p) = <<"gate_proj", <<BlockTerm("rms2", s, p)>>>>
    BY <1>b, MlpTerms
  <2>5. StageSound("block", 13, BlockStages[13], s, p)
    BY <2>1, <2>2, <2>3, <2>4, <1>a, <1>c, Plain DEF StageSound, Stage
  <2>6. Stateful("block", 13, BlockStages[13], s, p)
    BY <2>1 DEF Stateful, Stage, KvStage
  <2>7. Sized("block", BlockStages[13])
    BY <2>1 DEF Sized, Stage, Width
  <2> QED BY <2>5, <2>6, <2>7
<1>14. /\ StageSound("block", 14, BlockStages[14], s, p)
      /\ Stateful("block", 14, BlockStages[14], s, p) /\ Sized("block", BlockStages[14])
  <2>1. BlockStages[14] = Stage(<<"up_proj">>, <<"rms2">>, <<"mlp_up">>, <<I>>)
    BY DEF BlockStages, MlpStages, One
  <2>2. InPlace("block", 14, <<"rms2">>, <<"mlp_up">>)
    BY NamesAre DEF InPlace, OrderOf, BlockOrder, MlpNames, MlpOrder
  <2>3. Fed("block", BlockStages[14], s, p) = <<BlockTerm("rms2", s, p)>>
    BY <2>1, <1>a DEF Fed, Stage
  <2>4. BlockTerm("mlp_up", s, p) = <<"up_proj", <<BlockTerm("rms2", s, p)>>>>
    BY <1>b, MlpTerms
  <2>5. StageSound("block", 14, BlockStages[14], s, p)
    BY <2>1, <2>2, <2>3, <2>4, <1>a, <1>c, Plain DEF StageSound, Stage
  <2>6. Stateful("block", 14, BlockStages[14], s, p)
    BY <2>1 DEF Stateful, Stage, KvStage
  <2>7. Sized("block", BlockStages[14])
    BY <2>1 DEF Sized, Stage, Width
  <2> QED BY <2>5, <2>6, <2>7
<1>15. /\ StageSound("block", 15, BlockStages[15], s, p)
      /\ Stateful("block", 15, BlockStages[15], s, p) /\ Sized("block", BlockStages[15])
  <2>1. BlockStages[15]
          = Stage(<<"silu_mul">>, <<"mlp_gate", "mlp_up">>, <<"silu_mul">>, <<I>>)
    BY DEF BlockStages, MlpStages, One
  <2>2. InPlace("block", 15, <<"mlp_gate", "mlp_up">>, <<"silu_mul">>)
    BY NamesAre DEF InPlace, OrderOf, BlockOrder, MlpNames, MlpOrder
  <2>3. Fed("block", BlockStages[15], s, p)
          = <<BlockTerm("mlp_gate", s, p), BlockTerm("mlp_up", s, p)>>
    BY <2>1, <1>a DEF Fed, Stage
  <2>4. BlockTerm("silu_mul", s, p)
          = <<"silu_mul", <<BlockTerm("mlp_gate", s, p), BlockTerm("mlp_up", s, p)>>>>
    BY <1>b, MlpTerms
  <2>5. StageSound("block", 15, BlockStages[15], s, p)
    BY <2>1, <2>2, <2>3, <2>4, <1>a, <1>c, Plain DEF StageSound, Stage
  <2>6. Stateful("block", 15, BlockStages[15], s, p)
    BY <2>1 DEF Stateful, Stage, KvStage
  <2>7. Sized("block", BlockStages[15])
    BY <2>1 DEF Sized, Stage, Width
  <2> QED BY <2>5, <2>6, <2>7
<1>16. /\ StageSound("block", 16, BlockStages[16], s, p)
      /\ Stateful("block", 16, BlockStages[16], s, p) /\ Sized("block", BlockStages[16])
  <2>1. BlockStages[16] = Stage(<<"down_proj">>, <<"silu_mul">>, <<"mlp_down">>, <<H>>)
    BY DEF BlockStages, MlpStages, One
  <2>2. InPlace("block", 16, <<"silu_mul">>, <<"mlp_down">>)
    BY NamesAre DEF InPlace, OrderOf, BlockOrder, MlpNames, MlpOrder
  <2>3. Fed("block", BlockStages[16], s, p) = <<BlockTerm("silu_mul", s, p)>>
    BY <2>1, <1>a DEF Fed, Stage
  <2>4. BlockTerm("mlp_down", s, p) = <<"down_proj", <<BlockTerm("silu_mul", s, p)>>>>
    BY <1>b, MlpTerms
  <2>5. StageSound("block", 16, BlockStages[16], s, p)
    BY <2>1, <2>2, <2>3, <2>4, <1>a, <1>c, Plain DEF StageSound, Stage
  <2>6. Stateful("block", 16, BlockStages[16], s, p)
    BY <2>1 DEF Stateful, Stage, KvStage
  <2>7. Sized("block", BlockStages[16])
    BY <2>1 DEF Sized, Stage, Width
  <2> QED BY <2>5, <2>6, <2>7
<1>17. /\ StageSound("block", 17, BlockStages[17], s, p)
      /\ Stateful("block", 17, BlockStages[17], s, p) /\ Sized("block", BlockStages[17])
  <2>1. BlockStages[17] = Stage(<<"add">>, <<"res1", "mlp_down">>, <<"final">>, <<H>>)
    BY DEF BlockStages, MlpStages, One
  <2>2. InPlace("block", 17, <<"res1", "mlp_down">>, <<"final">>)
    BY NamesAre DEF InPlace, OrderOf, BlockOrder, MlpNames, MlpOrder
  <2>3. Fed("block", BlockStages[17], s, p)
          = <<BlockTerm("res1", s, p), BlockTerm("mlp_down", s, p)>>
    BY <2>1, <1>a DEF Fed, Stage
  <2>4. BlockTerm("final", s, p)
          = <<"add", <<BlockTerm("res1", s, p), BlockTerm("mlp_down", s, p)>>>>
    BY <1>b, MlpTerms
  <2>5. StageSound("block", 17, BlockStages[17], s, p)
    BY <2>1, <2>2, <2>3, <2>4, <1>a, <1>c, Plain DEF StageSound, Stage
  <2>6. Stateful("block", 17, BlockStages[17], s, p)
    BY <2>1 DEF Stateful, Stage, KvStage
  <2>7. Sized("block", BlockStages[17])
    BY <2>1 DEF Sized, Stage, Width
  <2> QED BY <2>5, <2>6, <2>7
<1> QED BY <1>0, <1>1, <1>2, <1>3, <1>4, <1>5, <1>6, <1>7, <1>8, <1>9, <1>10, <1>11,
     <1>12, <1>13, <1>14, <1>15, <1>16, <1>17

(* The stages of a layer of kind "full", one by one.                     *)
LEMMA FullStagesSound ==
  ASSUME NEW s, NEW p \in Nat
  PROVE  /\ Len(FullStages) = 20
         /\ \A k \in 1..20 : /\ StageSound("full", k, FullStages[k], s, p)
           /\ Stateful("full", k, FullStages[k], s, p) /\ Sized("full", FullStages[k])
PROOF
<1>0. Len(FullStages) = 20
  BY DEF FullStages, AttentionStages, AddNorm, MlpStages
<1>a. \A n : TermOf("full", n, s, p) = FullTerm(n, s, p)
  BY Zenon DEF TermOf
<1>b. \A n \in {"mlp_gate", "mlp_up", "silu_mul", "mlp_down", "final"} :
         FullTerm(n, s, p) = MlpTerm(n, FullTerm("res1", s, p), FullTerm("rms2", s, p))
  BY FullTail DEF MlpNames
<1>c. {"add", "down_proj", "gate_of", "gate_proj", "input_norm", "k_norm", "k_proj",
      "o_proj", "post_norm_of_add", "q_norm", "q_of", "q_proj", "sigmoid_mul",
      "silu_mul", "up_proj", "v_proj"} \cap Special
        = {}
  BY DEF Special
<1>1. /\ StageSound("full", 1, FullStages[1], s, p)
      /\ Stateful("full", 1, FullStages[1], s, p) /\ Sized("full", FullStages[1])
  <2>1. FullStages[1] = Stage(<<"copy">>, <<"x">>, <<"input">>, <<H>>)
    BY DEF FullStages, AttentionStages, AddNorm, MlpStages, One
  <2>2. InPlace("full", 1, <<"x">>, <<"input">>)
    BY NamesAre DEF InPlace, OrderOf, FullOrder, MlpNames, MlpOrder
  <2>3. Fed("full", FullStages[1], s, p) = <<FullTerm("x", s, p)>>
    BY <2>1, <1>a DEF Fed, Stage
  <2>4. Applied("full", "copy", <<FullTerm("x", s, p)>>, s, p) = Token(s, p)
    BY Zenon DEF Applied
  <2>5. FullTerm("input", s, p) = Token(s, p)
    BY FullTerms
  <2>6. StageSound("full", 1, FullStages[1], s, p)
    BY <2>1, <2>2, <2>3, <2>4, <2>5, <1>a DEF StageSound, Stage
  <2>7. Stateful("full", 1, FullStages[1], s, p)
    BY <2>1 DEF Stateful, Stage, KvStage
  <2>8. Sized("full", FullStages[1])
    BY <2>1 DEF Sized, Stage, Width
  <2> QED BY <2>6, <2>7, <2>8
<1>2. /\ StageSound("full", 2, FullStages[2], s, p)
      /\ Stateful("full", 2, FullStages[2], s, p) /\ Sized("full", FullStages[2])
  <2>1. FullStages[2] = Stage(<<"input_norm">>, <<"input">>, <<"rms1">>, <<H>>)
    BY DEF FullStages, AttentionStages, AddNorm, MlpStages, One
  <2>2. InPlace("full", 2, <<"input">>, <<"rms1">>)
    BY NamesAre DEF InPlace, OrderOf, FullOrder, MlpNames, MlpOrder
  <2>3. Fed("full", FullStages[2], s, p) = <<FullTerm("input", s, p)>>
    BY <2>1, <1>a DEF Fed, Stage
  <2>4. FullTerm("rms1", s, p) = <<"input_norm", <<FullTerm("input", s, p)>>>>
    BY FullTerms DEF Normed, Token
  <2>5. StageSound("full", 2, FullStages[2], s, p)
    BY <2>1, <2>2, <2>3, <2>4, <1>a, <1>c, Plain DEF StageSound, Stage
  <2>6. Stateful("full", 2, FullStages[2], s, p)
    BY <2>1 DEF Stateful, Stage, KvStage
  <2>7. Sized("full", FullStages[2])
    BY <2>1 DEF Sized, Stage, Width
  <2> QED BY <2>5, <2>6, <2>7
<1>3. /\ StageSound("full", 3, FullStages[3], s, p)
      /\ Stateful("full", 3, FullStages[3], s, p) /\ Sized("full", FullStages[3])
  <2>1. FullStages[3] = Stage(<<"q_proj">>, <<"rms1">>, <<"q_gate">>, <<2 * QO>>)
    BY DEF FullStages, AttentionStages, AddNorm, MlpStages, One
  <2>2. InPlace("full", 3, <<"rms1">>, <<"q_gate">>)
    BY NamesAre DEF InPlace, OrderOf, FullOrder, MlpNames, MlpOrder
  <2>3. Fed("full", FullStages[3], s, p) = <<FullTerm("rms1", s, p)>>
    BY <2>1, <1>a DEF Fed, Stage
  <2>4. FullTerm("q_gate", s, p) = <<"q_proj", <<FullTerm("rms1", s, p)>>>>
    BY FullTerms DEF QGate, Proj
  <2>5. StageSound("full", 3, FullStages[3], s, p)
    BY <2>1, <2>2, <2>3, <2>4, <1>a, <1>c, Plain DEF StageSound, Stage
  <2>6. Stateful("full", 3, FullStages[3], s, p)
    BY <2>1 DEF Stateful, Stage, KvStage
  <2>7. Sized("full", FullStages[3])
    BY <2>1 DEF Sized, Stage, Width
  <2> QED BY <2>5, <2>6, <2>7
<1>4. /\ StageSound("full", 4, FullStages[4], s, p)
      /\ Stateful("full", 4, FullStages[4], s, p) /\ Sized("full", FullStages[4])
  <2>1. FullStages[4]
          = Stage(<<"q_of", "gate_of">>, <<"q_gate">>, <<"q", "att_gate">>, <<QO, QO>>)
    BY DEF FullStages, AttentionStages, AddNorm, MlpStages, One
  <2>2. InPlace("full", 4, <<"q_gate">>, <<"q", "att_gate">>)
    BY NamesAre DEF InPlace, OrderOf, FullOrder, MlpNames, MlpOrder
  <2>3. Fed("full", FullStages[4], s, p) = <<FullTerm("q_gate", s, p)>>
    BY <2>1, <1>a DEF Fed, Stage
  <2>4. FullTerm("q", s, p) = <<"q_of", <<FullTerm("q_gate", s, p)>>>>
    BY FullTerms DEF Proj
  <2>5. FullTerm("att_gate", s, p) = <<"gate_of", <<FullTerm("q_gate", s, p)>>>>
    BY FullTerms DEF Proj
  <2>6. StageSound("full", 4, FullStages[4], s, p)
    BY <2>1, <2>2, <2>3, <2>4, <2>5, <1>a, <1>c, Plain DEF StageSound, Stage
  <2>7. Stateful("full", 4, FullStages[4], s, p)
    BY <2>1 DEF Stateful, Stage, KvStage
  <2>8. Sized("full", FullStages[4])
    BY <2>1 DEF Sized, Stage, Width
  <2> QED BY <2>6, <2>7, <2>8
<1>5. /\ StageSound("full", 5, FullStages[5], s, p)
      /\ Stateful("full", 5, FullStages[5], s, p) /\ Sized("full", FullStages[5])
  <2>1. FullStages[5] = Stage(<<"k_proj">>, <<"rms1">>, <<"k">>, <<KVO>>)
    BY DEF FullStages, AttentionStages, AddNorm, MlpStages, One
  <2>2. InPlace("full", 5, <<"rms1">>, <<"k">>)
    BY NamesAre DEF InPlace, OrderOf, FullOrder, MlpNames, MlpOrder
  <2>3. Fed("full", FullStages[5], s, p) = <<FullTerm("rms1", s, p)>>
    BY <2>1, <1>a DEF Fed, Stage
  <2>4. FullTerm("k", s, p) = <<"k_proj", <<FullTerm("rms1", s, p)>>>>
    BY FullTerms DEF Proj
  <2>5. StageSound("full", 5, FullStages[5], s, p)
    BY <2>1, <2>2, <2>3, <2>4, <1>a, <1>c, Plain DEF StageSound, Stage
  <2>6. Stateful("full", 5, FullStages[5], s, p)
    BY <2>1 DEF Stateful, Stage, KvStage
  <2>7. Sized("full", FullStages[5])
    BY <2>1 DEF Sized, Stage, Width
  <2> QED BY <2>5, <2>6, <2>7
<1>6. /\ StageSound("full", 6, FullStages[6], s, p)
      /\ Stateful("full", 6, FullStages[6], s, p) /\ Sized("full", FullStages[6])
  <2>1. FullStages[6] = Stage(<<"v_proj">>, <<"rms1">>, <<"v">>, <<KVO>>)
    BY DEF FullStages, AttentionStages, AddNorm, MlpStages, One
  <2>2. InPlace("full", 6, <<"rms1">>, <<"v">>)
    BY NamesAre DEF InPlace, OrderOf, FullOrder, MlpNames, MlpOrder
  <2>3. Fed("full", FullStages[6], s, p) = <<FullTerm("rms1", s, p)>>
    BY <2>1, <1>a DEF Fed, Stage
  <2>4. FullTerm("v", s, p) = <<"v_proj", <<FullTerm("rms1", s, p)>>>>
    BY FullTerms DEF Proj
  <2>5. StageSound("full", 6, FullStages[6], s, p)
    BY <2>1, <2>2, <2>3, <2>4, <1>a, <1>c, Plain DEF StageSound, Stage
  <2>6. Stateful("full", 6, FullStages[6], s, p)
    BY <2>1 DEF Stateful, Stage, KvStage
  <2>7. Sized("full", FullStages[6])
    BY <2>1 DEF Sized, Stage, Width
  <2> QED BY <2>5, <2>6, <2>7
<1>7. /\ StageSound("full", 7, FullStages[7], s, p)
      /\ Stateful("full", 7, FullStages[7], s, p) /\ Sized("full", FullStages[7])
  <2>1. FullStages[7] = Stage(<<"q_norm">>, <<"q">>, <<"q_norm">>, <<QO>>)
    BY DEF FullStages, AttentionStages, AddNorm, MlpStages, One
  <2>2. InPlace("full", 7, <<"q">>, <<"q_norm">>)
    BY NamesAre DEF InPlace, OrderOf, FullOrder, MlpNames, MlpOrder
  <2>3. Fed("full", FullStages[7], s, p) = <<FullTerm("q", s, p)>>
    BY <2>1, <1>a DEF Fed, Stage
  <2>4. FullTerm("q_norm", s, p) = <<"q_norm", <<FullTerm("q", s, p)>>>>
    BY FullTerms DEF Proj
  <2>5. StageSound("full", 7, FullStages[7], s, p)
    BY <2>1, <2>2, <2>3, <2>4, <1>a, <1>c, Plain DEF StageSound, Stage
  <2>6. Stateful("full", 7, FullStages[7], s, p)
    BY <2>1 DEF Stateful, Stage, KvStage
  <2>7. Sized("full", FullStages[7])
    BY <2>1 DEF Sized, Stage, Width
  <2> QED BY <2>5, <2>6, <2>7
<1>8. /\ StageSound("full", 8, FullStages[8], s, p)
      /\ Stateful("full", 8, FullStages[8], s, p) /\ Sized("full", FullStages[8])
  <2>1. FullStages[8] = Stage(<<"k_norm">>, <<"k">>, <<"k_norm">>, <<KVO>>)
    BY DEF FullStages, AttentionStages, AddNorm, MlpStages, One
  <2>2. InPlace("full", 8, <<"k">>, <<"k_norm">>)
    BY NamesAre DEF InPlace, OrderOf, FullOrder, MlpNames, MlpOrder
  <2>3. Fed("full", FullStages[8], s, p) = <<FullTerm("k", s, p)>>
    BY <2>1, <1>a DEF Fed, Stage
  <2>4. FullTerm("k_norm", s, p) = <<"k_norm", <<FullTerm("k", s, p)>>>>
    BY FullTerms DEF Proj
  <2>5. StageSound("full", 8, FullStages[8], s, p)
    BY <2>1, <2>2, <2>3, <2>4, <1>a, <1>c, Plain DEF StageSound, Stage
  <2>6. Stateful("full", 8, FullStages[8], s, p)
    BY <2>1 DEF Stateful, Stage, KvStage
  <2>7. Sized("full", FullStages[8])
    BY <2>1 DEF Sized, Stage, Width
  <2> QED BY <2>5, <2>6, <2>7
<1>9. /\ StageSound("full", 9, FullStages[9], s, p)
      /\ Stateful("full", 9, FullStages[9], s, p) /\ Sized("full", FullStages[9])
  <2>1. FullStages[9] = Stage(<<"rope">>, <<"q_norm">>, <<"rope_q">>, <<QO>>)
    BY DEF FullStages, AttentionStages, AddNorm, MlpStages, One
  <2>2. InPlace("full", 9, <<"q_norm">>, <<"rope_q">>)
    BY NamesAre DEF InPlace, OrderOf, FullOrder, MlpNames, MlpOrder
  <2>3. Fed("full", FullStages[9], s, p) = <<FullTerm("q_norm", s, p)>>
    BY <2>1, <1>a DEF Fed, Stage
  <2>4. Applied("full", "rope", <<FullTerm("q_norm", s, p)>>, s, p)
          = <<"rope", p, <<FullTerm("q_norm", s, p)>>>>
    BY Zenon DEF Applied
  <2>5. FullTerm("rope_q", s, p) = <<"rope", p, <<FullTerm("q_norm", s, p)>>>>
    BY FullTerms DEF FullQuery, Rotated
  <2>6. StageSound("full", 9, FullStages[9], s, p)
    BY <2>1, <2>2, <2>3, <2>4, <2>5, <1>a DEF StageSound, Stage
  <2>7. Stateful("full", 9, FullStages[9], s, p)
    BY <2>1 DEF Stateful, Stage, KvStage
  <2>8. Sized("full", FullStages[9])
    BY <2>1 DEF Sized, Stage, Width
  <2> QED BY <2>6, <2>7, <2>8
<1>10. /\ StageSound("full", 10, FullStages[10], s, p)
      /\ Stateful("full", 10, FullStages[10], s, p) /\ Sized("full", FullStages[10])
  <2>1. FullStages[10] = Stage(<<"rope">>, <<"k_norm">>, <<"rope_k">>, <<KVO>>)
    BY DEF FullStages, AttentionStages, AddNorm, MlpStages, One
  <2>2. InPlace("full", 10, <<"k_norm">>, <<"rope_k">>)
    BY NamesAre DEF InPlace, OrderOf, FullOrder, MlpNames, MlpOrder
  <2>3. Fed("full", FullStages[10], s, p) = <<FullTerm("k_norm", s, p)>>
    BY <2>1, <1>a DEF Fed, Stage
  <2>4. Applied("full", "rope", <<FullTerm("k_norm", s, p)>>, s, p)
          = <<"rope", p, <<FullTerm("k_norm", s, p)>>>>
    BY Zenon DEF Applied
  <2>5. FullTerm("rope_k", s, p) = <<"rope", p, <<FullTerm("k_norm", s, p)>>>>
    BY FullTerms DEF Rotated
  <2>6. StageSound("full", 10, FullStages[10], s, p)
    BY <2>1, <2>2, <2>3, <2>4, <2>5, <1>a DEF StageSound, Stage
  <2>7. Stateful("full", 10, FullStages[10], s, p)
    BY <2>1 DEF Stateful, Stage, KvStage
  <2>8. Sized("full", FullStages[10])
    BY <2>1 DEF Sized, Stage, Width
  <2> QED BY <2>6, <2>7, <2>8
<1>11. /\ StageSound("full", 11, FullStages[11], s, p)
      /\ Stateful("full", 11, FullStages[11], s, p) /\ Sized("full", FullStages[11])
  <2>1. FullStages[11] = Stage(<<"kv_write">>, <<"rope_k", "v">>, <<>>, <<>>)
    BY DEF FullStages, AttentionStages, AddNorm, MlpStages, One
  <2>2. InPlace("full", 11, <<"rope_k", "v">>, <<>>)
    BY NamesAre DEF InPlace, OrderOf, FullOrder, MlpNames, MlpOrder
  <2>3. Fed("full", FullStages[11], s, p)
          = <<FullTerm("rope_k", s, p), FullTerm("v", s, p)>>
    BY <2>1, <1>a DEF Fed, Stage
  <2>4. StageSound("full", 11, FullStages[11], s, p)
    BY <2>1, <2>2, <2>3, <1>a DEF StageSound, Stage
  <2>5. Stateful("full", 11, FullStages[11], s, p)
    BY <2>1, <2>3, FullTerms DEF Stateful, Stage, KvStage, CellOf, FullCell
  <2>6. Sized("full", FullStages[11])
    BY <2>1 DEF Sized, Stage, Width
  <2> QED BY <2>4, <2>5, <2>6
<1>12. /\ StageSound("full", 12, FullStages[12], s, p)
      /\ Stateful("full", 12, FullStages[12], s, p) /\ Sized("full", FullStages[12])
  <2>1. FullStages[12] = Stage(<<"attention">>, <<"rope_q">>, <<"attn_raw">>, <<QO>>)
    BY DEF FullStages, AttentionStages, AddNorm, MlpStages, One
  <2>2. InPlace("full", 12, <<"rope_q">>, <<"attn_raw">>)
    BY NamesAre DEF InPlace, OrderOf, FullOrder, MlpNames, MlpOrder
  <2>3. Fed("full", FullStages[12], s, p) = <<FullTerm("rope_q", s, p)>>
    BY <2>1, <1>a DEF Fed, Stage
  <2>4. Applied("full", "attention", <<FullTerm("rope_q", s, p)>>, s, p)
          = <<"attention", <<FullTerm("rope_q", s, p)>>,
              [i \in 0..p |-> CellOf("full", s, i)]>>
    BY Zenon DEF Applied
  <2>5. FullTerm("attn_raw", s, p)
          = <<"attention", <<FullTerm("rope_q", s, p)>>,
              [i \in 0..p |-> CellOf("full", s, i)]>>
    BY FullTerms DEF FullAttention, CellOf
  <2>6. FullTerm("attn_raw", s, p)
          = Applied("full", "attention", <<FullTerm("rope_q", s, p)>>, s, p)
    BY <2>4, <2>5
  <2>7. StageSound("full", 12, FullStages[12], s, p)
    BY <2>1, <2>2, <2>3, <2>6, <1>a DEF StageSound, Stage
  <2>8. Stateful("full", 12, FullStages[12], s, p)
    BY <2>1 DEF Stateful, Stage, KvStage
  <2>9. Sized("full", FullStages[12])
    BY <2>1 DEF Sized, Stage, Width
  <2> QED BY <2>7, <2>8, <2>9
<1>13. /\ StageSound("full", 13, FullStages[13], s, p)
      /\ Stateful("full", 13, FullStages[13], s, p) /\ Sized("full", FullStages[13])
  <2>1. FullStages[13]
          = Stage(<<"sigmoid_mul">>, <<"attn_raw", "att_gate">>, <<"attn_gated">>,
              <<QO>>)
    BY DEF FullStages, AttentionStages, AddNorm, MlpStages, One
  <2>2. InPlace("full", 13, <<"attn_raw", "att_gate">>, <<"attn_gated">>)
    BY NamesAre DEF InPlace, OrderOf, FullOrder, MlpNames, MlpOrder
  <2>3. Fed("full", FullStages[13], s, p)
          = <<FullTerm("attn_raw", s, p), FullTerm("att_gate", s, p)>>
    BY <2>1, <1>a DEF Fed, Stage
  <2>4. FullTerm("attn_gated", s, p)
          = <<"sigmoid_mul", <<FullTerm("attn_raw", s, p), FullTerm("att_gate", s,
              p)>>>>
    BY FullTerms DEF FullGated
  <2>5. StageSound("full", 13, FullStages[13], s, p)
    BY <2>1, <2>2, <2>3, <2>4, <1>a, <1>c, Plain DEF StageSound, Stage
  <2>6. Stateful("full", 13, FullStages[13], s, p)
    BY <2>1 DEF Stateful, Stage, KvStage
  <2>7. Sized("full", FullStages[13])
    BY <2>1 DEF Sized, Stage, Width
  <2> QED BY <2>5, <2>6, <2>7
<1>14. /\ StageSound("full", 14, FullStages[14], s, p)
      /\ Stateful("full", 14, FullStages[14], s, p) /\ Sized("full", FullStages[14])
  <2>1. FullStages[14] = Stage(<<"o_proj">>, <<"attn_gated">>, <<"o_proj">>, <<H>>)
    BY DEF FullStages, AttentionStages, AddNorm, MlpStages, One
  <2>2. InPlace("full", 14, <<"attn_gated">>, <<"o_proj">>)
    BY NamesAre DEF InPlace, OrderOf, FullOrder, MlpNames, MlpOrder
  <2>3. Fed("full", FullStages[14], s, p) = <<FullTerm("attn_gated", s, p)>>
    BY <2>1, <1>a DEF Fed, Stage
  <2>4. FullTerm("o_proj", s, p) = <<"o_proj", <<FullTerm("attn_gated", s, p)>>>>
    BY FullTerms DEF Proj
  <2>5. StageSound("full", 14, FullStages[14], s, p)
    BY <2>1, <2>2, <2>3, <2>4, <1>a, <1>c, Plain DEF StageSound, Stage
  <2>6. Stateful("full", 14, FullStages[14], s, p)
    BY <2>1 DEF Stateful, Stage, KvStage
  <2>7. Sized("full", FullStages[14])
    BY <2>1 DEF Sized, Stage, Width
  <2> QED BY <2>5, <2>6, <2>7
<1>15. /\ StageSound("full", 15, FullStages[15], s, p)
      /\ Stateful("full", 15, FullStages[15], s, p) /\ Sized("full", FullStages[15])
  <2>1. FullStages[15]
          = Stage(<<"add", "post_norm_of_add">>, <<"input", "o_proj">>,
              <<"res1", "rms2">>, <<H, H>>)
    BY DEF FullStages, AttentionStages, AddNorm, MlpStages, One
  <2>2. InPlace("full", 15, <<"input", "o_proj">>, <<"res1", "rms2">>)
    BY NamesAre DEF InPlace, OrderOf, FullOrder, MlpNames, MlpOrder
  <2>3. Fed("full", FullStages[15], s, p)
          = <<FullTerm("input", s, p), FullTerm("o_proj", s, p)>>
    BY <2>1, <1>a DEF Fed, Stage
  <2>4. FullTerm("res1", s, p)
          = <<"add", <<FullTerm("input", s, p), FullTerm("o_proj", s, p)>>>>
    BY FullTerms DEF Added
  <2>5. FullTerm("rms2", s, p)
          = <<"post_norm_of_add", <<FullTerm("input", s, p), FullTerm("o_proj", s,
              p)>>>>
    BY FullTerms DEF Added
  <2>6. StageSound("full", 15, FullStages[15], s, p)
    BY <2>1, <2>2, <2>3, <2>4, <2>5, <1>a, <1>c, Plain DEF StageSound, Stage
  <2>7. Stateful("full", 15, FullStages[15], s, p)
    BY <2>1 DEF Stateful, Stage, KvStage
  <2>8. Sized("full", FullStages[15])
    BY <2>1 DEF Sized, Stage, Width
  <2> QED BY <2>6, <2>7, <2>8
<1>16. /\ StageSound("full", 16, FullStages[16], s, p)
      /\ Stateful("full", 16, FullStages[16], s, p) /\ Sized("full", FullStages[16])
  <2>1. FullStages[16] = Stage(<<"gate_proj">>, <<"rms2">>, <<"mlp_gate">>, <<I>>)
    BY DEF FullStages, AttentionStages, AddNorm, MlpStages, One
  <2>2. InPlace("full", 16, <<"rms2">>, <<"mlp_gate">>)
    BY NamesAre DEF InPlace, OrderOf, FullOrder, MlpNames, MlpOrder
  <2>3. Fed("full", FullStages[16], s, p) = <<FullTerm("rms2", s, p)>>
    BY <2>1, <1>a DEF Fed, Stage
  <2>4. FullTerm("mlp_gate", s, p) = <<"gate_proj", <<FullTerm("rms2", s, p)>>>>
    BY <1>b, MlpTerms
  <2>5. StageSound("full", 16, FullStages[16], s, p)
    BY <2>1, <2>2, <2>3, <2>4, <1>a, <1>c, Plain DEF StageSound, Stage
  <2>6. Stateful("full", 16, FullStages[16], s, p)
    BY <2>1 DEF Stateful, Stage, KvStage
  <2>7. Sized("full", FullStages[16])
    BY <2>1 DEF Sized, Stage, Width
  <2> QED BY <2>5, <2>6, <2>7
<1>17. /\ StageSound("full", 17, FullStages[17], s, p)
      /\ Stateful("full", 17, FullStages[17], s, p) /\ Sized("full", FullStages[17])
  <2>1. FullStages[17] = Stage(<<"up_proj">>, <<"rms2">>, <<"mlp_up">>, <<I>>)
    BY DEF FullStages, AttentionStages, AddNorm, MlpStages, One
  <2>2. InPlace("full", 17, <<"rms2">>, <<"mlp_up">>)
    BY NamesAre DEF InPlace, OrderOf, FullOrder, MlpNames, MlpOrder
  <2>3. Fed("full", FullStages[17], s, p) = <<FullTerm("rms2", s, p)>>
    BY <2>1, <1>a DEF Fed, Stage
  <2>4. FullTerm("mlp_up", s, p) = <<"up_proj", <<FullTerm("rms2", s, p)>>>>
    BY <1>b, MlpTerms
  <2>5. StageSound("full", 17, FullStages[17], s, p)
    BY <2>1, <2>2, <2>3, <2>4, <1>a, <1>c, Plain DEF StageSound, Stage
  <2>6. Stateful("full", 17, FullStages[17], s, p)
    BY <2>1 DEF Stateful, Stage, KvStage
  <2>7. Sized("full", FullStages[17])
    BY <2>1 DEF Sized, Stage, Width
  <2> QED BY <2>5, <2>6, <2>7
<1>18. /\ StageSound("full", 18, FullStages[18], s, p)
      /\ Stateful("full", 18, FullStages[18], s, p) /\ Sized("full", FullStages[18])
  <2>1. FullStages[18]
          = Stage(<<"silu_mul">>, <<"mlp_gate", "mlp_up">>, <<"silu_mul">>, <<I>>)
    BY DEF FullStages, AttentionStages, AddNorm, MlpStages, One
  <2>2. InPlace("full", 18, <<"mlp_gate", "mlp_up">>, <<"silu_mul">>)
    BY NamesAre DEF InPlace, OrderOf, FullOrder, MlpNames, MlpOrder
  <2>3. Fed("full", FullStages[18], s, p)
          = <<FullTerm("mlp_gate", s, p), FullTerm("mlp_up", s, p)>>
    BY <2>1, <1>a DEF Fed, Stage
  <2>4. FullTerm("silu_mul", s, p)
          = <<"silu_mul", <<FullTerm("mlp_gate", s, p), FullTerm("mlp_up", s, p)>>>>
    BY <1>b, MlpTerms
  <2>5. StageSound("full", 18, FullStages[18], s, p)
    BY <2>1, <2>2, <2>3, <2>4, <1>a, <1>c, Plain DEF StageSound, Stage
  <2>6. Stateful("full", 18, FullStages[18], s, p)
    BY <2>1 DEF Stateful, Stage, KvStage
  <2>7. Sized("full", FullStages[18])
    BY <2>1 DEF Sized, Stage, Width
  <2> QED BY <2>5, <2>6, <2>7
<1>19. /\ StageSound("full", 19, FullStages[19], s, p)
      /\ Stateful("full", 19, FullStages[19], s, p) /\ Sized("full", FullStages[19])
  <2>1. FullStages[19] = Stage(<<"down_proj">>, <<"silu_mul">>, <<"mlp_down">>, <<H>>)
    BY DEF FullStages, AttentionStages, AddNorm, MlpStages, One
  <2>2. InPlace("full", 19, <<"silu_mul">>, <<"mlp_down">>)
    BY NamesAre DEF InPlace, OrderOf, FullOrder, MlpNames, MlpOrder
  <2>3. Fed("full", FullStages[19], s, p) = <<FullTerm("silu_mul", s, p)>>
    BY <2>1, <1>a DEF Fed, Stage
  <2>4. FullTerm("mlp_down", s, p) = <<"down_proj", <<FullTerm("silu_mul", s, p)>>>>
    BY <1>b, MlpTerms
  <2>5. StageSound("full", 19, FullStages[19], s, p)
    BY <2>1, <2>2, <2>3, <2>4, <1>a, <1>c, Plain DEF StageSound, Stage
  <2>6. Stateful("full", 19, FullStages[19], s, p)
    BY <2>1 DEF Stateful, Stage, KvStage
  <2>7. Sized("full", FullStages[19])
    BY <2>1 DEF Sized, Stage, Width
  <2> QED BY <2>5, <2>6, <2>7
<1>20. /\ StageSound("full", 20, FullStages[20], s, p)
      /\ Stateful("full", 20, FullStages[20], s, p) /\ Sized("full", FullStages[20])
  <2>1. FullStages[20] = Stage(<<"add">>, <<"res1", "mlp_down">>, <<"final">>, <<H>>)
    BY DEF FullStages, AttentionStages, AddNorm, MlpStages, One
  <2>2. InPlace("full", 20, <<"res1", "mlp_down">>, <<"final">>)
    BY NamesAre DEF InPlace, OrderOf, FullOrder, MlpNames, MlpOrder
  <2>3. Fed("full", FullStages[20], s, p)
          = <<FullTerm("res1", s, p), FullTerm("mlp_down", s, p)>>
    BY <2>1, <1>a DEF Fed, Stage
  <2>4. FullTerm("final", s, p)
          = <<"add", <<FullTerm("res1", s, p), FullTerm("mlp_down", s, p)>>>>
    BY <1>b, MlpTerms
  <2>5. StageSound("full", 20, FullStages[20], s, p)
    BY <2>1, <2>2, <2>3, <2>4, <1>a, <1>c, Plain DEF StageSound, Stage
  <2>6. Stateful("full", 20, FullStages[20], s, p)
    BY <2>1 DEF Stateful, Stage, KvStage
  <2>7. Sized("full", FullStages[20])
    BY <2>1 DEF Sized, Stage, Width
  <2> QED BY <2>5, <2>6, <2>7
<1> QED BY <1>0, <1>1, <1>2, <1>3, <1>4, <1>5, <1>6, <1>7, <1>8, <1>9, <1>10, <1>11,
     <1>12, <1>13, <1>14, <1>15, <1>16, <1>17, <1>18, <1>19, <1>20

(* The stages of a layer of kind "linear", one by one.                   *)
LEMMA LinearStagesSound ==
  ASSUME NEW s, NEW p \in Nat
  PROVE  /\ Len(LinearStages) = 18
         /\ \A k \in 1..18 : /\ StageSound("linear", k, LinearStages[k], s, p)
           /\ Stateful("linear", k, LinearStages[k], s, p) /\ Sized("linear", LinearStages[k])
PROOF
<1>0. Len(LinearStages) = 18
  BY DEF LinearStages, DeltaNetStages, AddNorm, MlpStages
<1>a. \A n : TermOf("linear", n, s, p) = LinearTerm(n, s, p)
  BY Zenon DEF TermOf
<1>b. \A n \in {"mlp_gate", "mlp_up", "silu_mul", "mlp_down", "final"} :
         LinearTerm(n, s, p)
           = MlpTerm(n, LinearTerm("res1", s, p), LinearTerm("rms2", s, p))
  BY LinearTail DEF MlpNames
<1>d. Mixed(s, p) = Proj("in_proj_qkv", Normed(s, p))
  BY DEF Mixed
<1>e. LinearTerm("mixed", s, p) = Mixed(s, p)
  BY LinearTerms
<1>g. Append(ConvBefore(s, p), <<LinearTerm("mixed", s, p)>>[1])
        = <<Mixed(s, p - 3), Mixed(s, p - 2), Mixed(s, p - 1), Mixed(s, p)>>
  <2>1. <<LinearTerm("mixed", s, p)>>[1] = Mixed(s, p)
    BY <1>e
  <2> QED BY <2>1, AppendedToThree DEF ConvBefore
<1>f. DeltaArgs(s, p) =
        <<Proj("q_of", Convolved("conv_silu", s, p)), Proj("k_of", Convolved("conv_silu", s, p)),
          Proj("v_of", Convolved("conv_silu", s, p)), <<"g", Beta(s, p)>>, <<"beta", Beta(s, p)>>>>
  BY DEF DeltaArgs, Convolved, Mixed, Beta
<1>c. {"add", "beta", "down_proj", "g", "gate_proj", "gated_norm", "in_proj_a",
      "in_proj_b", "in_proj_qkv", "in_proj_z", "input_norm", "k_of", "out_proj",
      "post_norm_of_add", "q_of", "silu_mul", "up_proj", "v_of"} \cap Special
        = {}
  BY DEF Special
<1>1. /\ StageSound("linear", 1, LinearStages[1], s, p)
      /\ Stateful("linear", 1, LinearStages[1], s, p) /\ Sized("linear", LinearStages[1])
  <2>1. LinearStages[1] = Stage(<<"copy">>, <<"x">>, <<"input">>, <<H>>)
    BY DEF LinearStages, DeltaNetStages, AddNorm, MlpStages, One
  <2>2. InPlace("linear", 1, <<"x">>, <<"input">>)
    BY NamesAre DEF InPlace, OrderOf, LinearOrder, MlpNames, MlpOrder
  <2>3. Fed("linear", LinearStages[1], s, p) = <<LinearTerm("x", s, p)>>
    BY <2>1, <1>a DEF Fed, Stage
  <2>4. Applied("linear", "copy", <<LinearTerm("x", s, p)>>, s, p) = Token(s, p)
    BY Zenon DEF Applied
  <2>5. LinearTerm("input", s, p) = Token(s, p)
    BY LinearTerms
  <2>6. StageSound("linear", 1, LinearStages[1], s, p)
    BY <2>1, <2>2, <2>3, <2>4, <2>5, <1>a DEF StageSound, Stage
  <2>7. Stateful("linear", 1, LinearStages[1], s, p)
    BY <2>1 DEF Stateful, Stage, KvStage
  <2>8. Sized("linear", LinearStages[1])
    BY <2>1 DEF Sized, Stage, Width
  <2> QED BY <2>6, <2>7, <2>8
<1>2. /\ StageSound("linear", 2, LinearStages[2], s, p)
      /\ Stateful("linear", 2, LinearStages[2], s, p) /\ Sized("linear", LinearStages[2])
  <2>1. LinearStages[2] = Stage(<<"input_norm">>, <<"input">>, <<"rms1">>, <<H>>)
    BY DEF LinearStages, DeltaNetStages, AddNorm, MlpStages, One
  <2>2. InPlace("linear", 2, <<"input">>, <<"rms1">>)
    BY NamesAre DEF InPlace, OrderOf, LinearOrder, MlpNames, MlpOrder
  <2>3. Fed("linear", LinearStages[2], s, p) = <<LinearTerm("input", s, p)>>
    BY <2>1, <1>a DEF Fed, Stage
  <2>4. LinearTerm("rms1", s, p) = <<"input_norm", <<LinearTerm("input", s, p)>>>>
    BY LinearTerms DEF Normed, Token
  <2>5. StageSound("linear", 2, LinearStages[2], s, p)
    BY <2>1, <2>2, <2>3, <2>4, <1>a, <1>c, Plain DEF StageSound, Stage
  <2>6. Stateful("linear", 2, LinearStages[2], s, p)
    BY <2>1 DEF Stateful, Stage, KvStage
  <2>7. Sized("linear", LinearStages[2])
    BY <2>1 DEF Sized, Stage, Width
  <2> QED BY <2>5, <2>6, <2>7
<1>3. /\ StageSound("linear", 3, LinearStages[3], s, p)
      /\ Stateful("linear", 3, LinearStages[3], s, p) /\ Sized("linear", LinearStages[3])
  <2>1. LinearStages[3] = Stage(<<"in_proj_qkv">>, <<"rms1">>, <<"mixed">>, <<CONV>>)
    BY DEF LinearStages, DeltaNetStages, AddNorm, MlpStages, One
  <2>2. InPlace("linear", 3, <<"rms1">>, <<"mixed">>)
    BY NamesAre DEF InPlace, OrderOf, LinearOrder, MlpNames, MlpOrder
  <2>3. Fed("linear", LinearStages[3], s, p) = <<LinearTerm("rms1", s, p)>>
    BY <2>1, <1>a DEF Fed, Stage
  <2>4. LinearTerm("mixed", s, p) = <<"in_proj_qkv", <<LinearTerm("rms1", s, p)>>>>
    BY LinearTerms, <1>d DEF Proj
  <2>5. StageSound("linear", 3, LinearStages[3], s, p)
    BY <2>1, <2>2, <2>3, <2>4, <1>a, <1>c, Plain DEF StageSound, Stage
  <2>6. Stateful("linear", 3, LinearStages[3], s, p)
    BY <2>1 DEF Stateful, Stage, KvStage
  <2>7. Sized("linear", LinearStages[3])
    BY <2>1 DEF Sized, Stage, Width
  <2> QED BY <2>5, <2>6, <2>7
<1>4. /\ StageSound("linear", 4, LinearStages[4], s, p)
      /\ Stateful("linear", 4, LinearStages[4], s, p) /\ Sized("linear", LinearStages[4])
  <2>1. LinearStages[4] = Stage(<<"in_proj_z">>, <<"rms1">>, <<"z">>, <<VALUE>>)
    BY DEF LinearStages, DeltaNetStages, AddNorm, MlpStages, One
  <2>2. InPlace("linear", 4, <<"rms1">>, <<"z">>)
    BY NamesAre DEF InPlace, OrderOf, LinearOrder, MlpNames, MlpOrder
  <2>3. Fed("linear", LinearStages[4], s, p) = <<LinearTerm("rms1", s, p)>>
    BY <2>1, <1>a DEF Fed, Stage
  <2>4. LinearTerm("z", s, p) = <<"in_proj_z", <<LinearTerm("rms1", s, p)>>>>
    BY LinearTerms DEF Proj
  <2>5. StageSound("linear", 4, LinearStages[4], s, p)
    BY <2>1, <2>2, <2>3, <2>4, <1>a, <1>c, Plain DEF StageSound, Stage
  <2>6. Stateful("linear", 4, LinearStages[4], s, p)
    BY <2>1 DEF Stateful, Stage, KvStage
  <2>7. Sized("linear", LinearStages[4])
    BY <2>1 DEF Sized, Stage, Width
  <2> QED BY <2>5, <2>6, <2>7
<1>5. /\ StageSound("linear", 5, LinearStages[5], s, p)
      /\ Stateful("linear", 5, LinearStages[5], s, p) /\ Sized("linear", LinearStages[5])
  <2>1. LinearStages[5] = Stage(<<"in_proj_b">>, <<"rms1">>, <<"b">>, <<NV>>)
    BY DEF LinearStages, DeltaNetStages, AddNorm, MlpStages, One
  <2>2. InPlace("linear", 5, <<"rms1">>, <<"b">>)
    BY NamesAre DEF InPlace, OrderOf, LinearOrder, MlpNames, MlpOrder
  <2>3. Fed("linear", LinearStages[5], s, p) = <<LinearTerm("rms1", s, p)>>
    BY <2>1, <1>a DEF Fed, Stage
  <2>4. LinearTerm("b", s, p) = <<"in_proj_b", <<LinearTerm("rms1", s, p)>>>>
    BY LinearTerms DEF Proj
  <2>5. StageSound("linear", 5, LinearStages[5], s, p)
    BY <2>1, <2>2, <2>3, <2>4, <1>a, <1>c, Plain DEF StageSound, Stage
  <2>6. Stateful("linear", 5, LinearStages[5], s, p)
    BY <2>1 DEF Stateful, Stage, KvStage
  <2>7. Sized("linear", LinearStages[5])
    BY <2>1 DEF Sized, Stage, Width
  <2> QED BY <2>5, <2>6, <2>7
<1>6. /\ StageSound("linear", 6, LinearStages[6], s, p)
      /\ Stateful("linear", 6, LinearStages[6], s, p) /\ Sized("linear", LinearStages[6])
  <2>1. LinearStages[6] = Stage(<<"in_proj_a">>, <<"rms1">>, <<"a">>, <<NV>>)
    BY DEF LinearStages, DeltaNetStages, AddNorm, MlpStages, One
  <2>2. InPlace("linear", 6, <<"rms1">>, <<"a">>)
    BY NamesAre DEF InPlace, OrderOf, LinearOrder, MlpNames, MlpOrder
  <2>3. Fed("linear", LinearStages[6], s, p) = <<LinearTerm("rms1", s, p)>>
    BY <2>1, <1>a DEF Fed, Stage
  <2>4. LinearTerm("a", s, p) = <<"in_proj_a", <<LinearTerm("rms1", s, p)>>>>
    BY LinearTerms DEF Proj
  <2>5. StageSound("linear", 6, LinearStages[6], s, p)
    BY <2>1, <2>2, <2>3, <2>4, <1>a, <1>c, Plain DEF StageSound, Stage
  <2>6. Stateful("linear", 6, LinearStages[6], s, p)
    BY <2>1 DEF Stateful, Stage, KvStage
  <2>7. Sized("linear", LinearStages[6])
    BY <2>1 DEF Sized, Stage, Width
  <2> QED BY <2>5, <2>6, <2>7
<1>7. /\ StageSound("linear", 7, LinearStages[7], s, p)
      /\ Stateful("linear", 7, LinearStages[7], s, p) /\ Sized("linear", LinearStages[7])
  <2>1. LinearStages[7]
          = Stage(<<"conv", "conv_silu">>, <<"mixed">>, <<"conv_out", "conv_silu">>,
              <<CONV, CONV>>)
    BY DEF LinearStages, DeltaNetStages, AddNorm, MlpStages, One
  <2>2. InPlace("linear", 7, <<"mixed">>, <<"conv_out", "conv_silu">>)
    BY NamesAre DEF InPlace, OrderOf, LinearOrder, MlpNames, MlpOrder
  <2>3. Fed("linear", LinearStages[7], s, p) = <<LinearTerm("mixed", s, p)>>
    BY <2>1, <1>a DEF Fed, Stage
  <2>4. Applied("linear", "conv", <<LinearTerm("mixed", s, p)>>, s, p)
          = <<"conv", Append(ConvBefore(s, p), <<LinearTerm("mixed", s, p)>>[1])>>
    BY Zenon DEF Applied
  <2>5. LinearTerm("conv_out", s, p)
          = <<"conv", Append(ConvBefore(s, p), <<LinearTerm("mixed", s, p)>>[1])>>
    BY LinearTerms, <1>g DEF Convolved
  <2>6. LinearTerm("conv_out", s, p)
          = Applied("linear", "conv", <<LinearTerm("mixed", s, p)>>, s, p)
    BY <2>4, <2>5
  <2>7. Applied("linear", "conv_silu", <<LinearTerm("mixed", s, p)>>, s, p)
          = <<"conv_silu", Append(ConvBefore(s, p), <<LinearTerm("mixed", s, p)>>[1])>>
    BY Zenon DEF Applied
  <2>8. LinearTerm("conv_silu", s, p)
          = <<"conv_silu", Append(ConvBefore(s, p), <<LinearTerm("mixed", s, p)>>[1])>>
    BY LinearTerms, <1>g DEF Convolved
  <2>9. LinearTerm("conv_silu", s, p)
          = Applied("linear", "conv_silu", <<LinearTerm("mixed", s, p)>>, s, p)
    BY <2>7, <2>8
  <2>10. StageSound("linear", 7, LinearStages[7], s, p)
    BY <2>1, <2>2, <2>3, <2>6, <2>9, <1>a DEF StageSound, Stage
  <2>11. Stateful("linear", 7, LinearStages[7], s, p)
    BY <2>1, <2>3, <1>e DEF Stateful, Stage, KvStage
  <2>12. Sized("linear", LinearStages[7])
    BY <2>1 DEF Sized, Stage, Width
  <2> QED BY <2>10, <2>11, <2>12
<1>8. /\ StageSound("linear", 8, LinearStages[8], s, p)
      /\ Stateful("linear", 8, LinearStages[8], s, p) /\ Sized("linear", LinearStages[8])
  <2>1. LinearStages[8]
          = Stage(<<"q_of", "k_of", "v_of">>, <<"conv_silu">>, <<"q", "k", "v">>,
              <<KEY, KEY, VALUE>>)
    BY DEF LinearStages, DeltaNetStages, AddNorm, MlpStages, One
  <2>2. InPlace("linear", 8, <<"conv_silu">>, <<"q", "k", "v">>)
    BY NamesAre DEF InPlace, OrderOf, LinearOrder, MlpNames, MlpOrder
  <2>3. Fed("linear", LinearStages[8], s, p) = <<LinearTerm("conv_silu", s, p)>>
    BY <2>1, <1>a DEF Fed, Stage
  <2>4. LinearTerm("q", s, p) = <<"q_of", <<LinearTerm("conv_silu", s, p)>>>>
    BY LinearTerms DEF Proj
  <2>5. LinearTerm("k", s, p) = <<"k_of", <<LinearTerm("conv_silu", s, p)>>>>
    BY LinearTerms DEF Proj
  <2>6. LinearTerm("v", s, p) = <<"v_of", <<LinearTerm("conv_silu", s, p)>>>>
    BY LinearTerms DEF Proj
  <2>7. StageSound("linear", 8, LinearStages[8], s, p)
    BY <2>1, <2>2, <2>3, <2>4, <2>5, <2>6, <1>a, <1>c, Plain DEF StageSound, Stage
  <2>8. Stateful("linear", 8, LinearStages[8], s, p)
    BY <2>1 DEF Stateful, Stage, KvStage
  <2>9. Sized("linear", LinearStages[8])
    BY <2>1 DEF Sized, Stage, Width
  <2> QED BY <2>7, <2>8, <2>9
<1>9. /\ StageSound("linear", 9, LinearStages[9], s, p)
      /\ Stateful("linear", 9, LinearStages[9], s, p) /\ Sized("linear", LinearStages[9])
  <2>1. LinearStages[9]
          = Stage(<<"beta", "g">>, <<"b", "a">>, <<"beta", "g">>, <<NV, NV>>)
    BY DEF LinearStages, DeltaNetStages, AddNorm, MlpStages, One
  <2>2. InPlace("linear", 9, <<"b", "a">>, <<"beta", "g">>)
    BY NamesAre DEF InPlace, OrderOf, LinearOrder, MlpNames, MlpOrder
  <2>3. Fed("linear", LinearStages[9], s, p)
          = <<LinearTerm("b", s, p), LinearTerm("a", s, p)>>
    BY <2>1, <1>a DEF Fed, Stage
  <2>4. LinearTerm("beta", s, p)
          = <<"beta", <<LinearTerm("b", s, p), LinearTerm("a", s, p)>>>>
    BY LinearTerms DEF Beta
  <2>5. LinearTerm("g", s, p)
          = <<"g", <<LinearTerm("b", s, p), LinearTerm("a", s, p)>>>>
    BY LinearTerms DEF Beta
  <2>6. StageSound("linear", 9, LinearStages[9], s, p)
    BY <2>1, <2>2, <2>3, <2>4, <2>5, <1>a, <1>c, Plain DEF StageSound, Stage
  <2>7. Stateful("linear", 9, LinearStages[9], s, p)
    BY <2>1 DEF Stateful, Stage, KvStage
  <2>8. Sized("linear", LinearStages[9])
    BY <2>1 DEF Sized, Stage, Width
  <2> QED BY <2>6, <2>7, <2>8
<1>10. /\ StageSound("linear", 10, LinearStages[10], s, p)
      /\ Stateful("linear", 10, LinearStages[10], s, p) /\ Sized("linear", LinearStages[10])
  <2>1. LinearStages[10]
          = Stage(<<"delta_rule">>, <<"q", "k", "v", "g", "beta">>, <<"core">>,
              <<VALUE>>)
    BY DEF LinearStages, DeltaNetStages, AddNorm, MlpStages, One
  <2>2. InPlace("linear", 10, <<"q", "k", "v", "g", "beta">>, <<"core">>)
    BY NamesAre DEF InPlace, OrderOf, LinearOrder, MlpNames, MlpOrder
  <2>3. Fed("linear", LinearStages[10], s, p)
          = <<LinearTerm("q", s, p), LinearTerm("k", s, p), LinearTerm("v", s, p),
              LinearTerm("g", s, p), LinearTerm("beta", s, p)>>
    BY <2>1, <1>a DEF Fed, Stage
  <2>4. Applied("linear", "delta_rule",
         <<LinearTerm("q", s, p), LinearTerm("k", s, p), LinearTerm("v", s, p),
           LinearTerm("g", s, p), LinearTerm("beta", s, p)>>, s, p)
          = <<"delta_rule", <<LinearTerm("q", s, p), LinearTerm("k", s, p),
              LinearTerm("v", s, p), LinearTerm("g", s, p), LinearTerm("beta", s, p)>>,
              RecState(s)[p]>>
    BY Zenon DEF Applied
  <2>5. LinearTerm("core", s, p)
          = <<"delta_rule", <<LinearTerm("q", s, p), LinearTerm("k", s, p),
              LinearTerm("v", s, p), LinearTerm("g", s, p), LinearTerm("beta", s, p)>>,
              RecState(s)[p]>>
    BY LinearTerms, <1>f DEF Core
  <2>6. StageSound("linear", 10, LinearStages[10], s, p)
    BY <2>1, <2>2, <2>3, <2>4, <2>5, <1>a DEF StageSound, Stage
  <2>7. Stateful("linear", 10, LinearStages[10], s, p)
    BY <2>1, <2>3, <1>f, LinearTerms DEF Stateful, Stage, KvStage
  <2>8. Sized("linear", LinearStages[10])
    BY <2>1 DEF Sized, Stage, Width
  <2> QED BY <2>6, <2>7, <2>8
<1>11. /\ StageSound("linear", 11, LinearStages[11], s, p)
      /\ Stateful("linear", 11, LinearStages[11], s, p) /\ Sized("linear", LinearStages[11])
  <2>1. LinearStages[11]
          = Stage(<<"gated_norm">>, <<"core", "z">>, <<"gated">>, <<VALUE>>)
    BY DEF LinearStages, DeltaNetStages, AddNorm, MlpStages, One
  <2>2. InPlace("linear", 11, <<"core", "z">>, <<"gated">>)
    BY NamesAre DEF InPlace, OrderOf, LinearOrder, MlpNames, MlpOrder
  <2>3. Fed("linear", LinearStages[11], s, p)
          = <<LinearTerm("core", s, p), LinearTerm("z", s, p)>>
    BY <2>1, <1>a DEF Fed, Stage
  <2>4. LinearTerm("gated", s, p)
          = <<"gated_norm", <<LinearTerm("core", s, p), LinearTerm("z", s, p)>>>>
    BY LinearTerms DEF LinearGated
  <2>5. StageSound("linear", 11, LinearStages[11], s, p)
    BY <2>1, <2>2, <2>3, <2>4, <1>a, <1>c, Plain DEF StageSound, Stage
  <2>6. Stateful("linear", 11, LinearStages[11], s, p)
    BY <2>1 DEF Stateful, Stage, KvStage
  <2>7. Sized("linear", LinearStages[11])
    BY <2>1 DEF Sized, Stage, Width
  <2> QED BY <2>5, <2>6, <2>7
<1>12. /\ StageSound("linear", 12, LinearStages[12], s, p)
      /\ Stateful("linear", 12, LinearStages[12], s, p) /\ Sized("linear", LinearStages[12])
  <2>1. LinearStages[12] = Stage(<<"out_proj">>, <<"gated">>, <<"o_proj">>, <<H>>)
    BY DEF LinearStages, DeltaNetStages, AddNorm, MlpStages, One
  <2>2. InPlace("linear", 12, <<"gated">>, <<"o_proj">>)
    BY NamesAre DEF InPlace, OrderOf, LinearOrder, MlpNames, MlpOrder
  <2>3. Fed("linear", LinearStages[12], s, p) = <<LinearTerm("gated", s, p)>>
    BY <2>1, <1>a DEF Fed, Stage
  <2>4. LinearTerm("o_proj", s, p) = <<"out_proj", <<LinearTerm("gated", s, p)>>>>
    BY LinearTerms DEF Proj
  <2>5. StageSound("linear", 12, LinearStages[12], s, p)
    BY <2>1, <2>2, <2>3, <2>4, <1>a, <1>c, Plain DEF StageSound, Stage
  <2>6. Stateful("linear", 12, LinearStages[12], s, p)
    BY <2>1 DEF Stateful, Stage, KvStage
  <2>7. Sized("linear", LinearStages[12])
    BY <2>1 DEF Sized, Stage, Width
  <2> QED BY <2>5, <2>6, <2>7
<1>13. /\ StageSound("linear", 13, LinearStages[13], s, p)
      /\ Stateful("linear", 13, LinearStages[13], s, p) /\ Sized("linear", LinearStages[13])
  <2>1. LinearStages[13]
          = Stage(<<"add", "post_norm_of_add">>, <<"input", "o_proj">>,
              <<"res1", "rms2">>, <<H, H>>)
    BY DEF LinearStages, DeltaNetStages, AddNorm, MlpStages, One
  <2>2. InPlace("linear", 13, <<"input", "o_proj">>, <<"res1", "rms2">>)
    BY NamesAre DEF InPlace, OrderOf, LinearOrder, MlpNames, MlpOrder
  <2>3. Fed("linear", LinearStages[13], s, p)
          = <<LinearTerm("input", s, p), LinearTerm("o_proj", s, p)>>
    BY <2>1, <1>a DEF Fed, Stage
  <2>4. LinearTerm("res1", s, p)
          = <<"add", <<LinearTerm("input", s, p), LinearTerm("o_proj", s, p)>>>>
    BY LinearTerms DEF Added
  <2>5. LinearTerm("rms2", s, p)
          = <<"post_norm_of_add", <<LinearTerm("input", s, p), LinearTerm("o_proj", s,
              p)>>>>
    BY LinearTerms DEF Added
  <2>6. StageSound("linear", 13, LinearStages[13], s, p)
    BY <2>1, <2>2, <2>3, <2>4, <2>5, <1>a, <1>c, Plain DEF StageSound, Stage
  <2>7. Stateful("linear", 13, LinearStages[13], s, p)
    BY <2>1 DEF Stateful, Stage, KvStage
  <2>8. Sized("linear", LinearStages[13])
    BY <2>1 DEF Sized, Stage, Width
  <2> QED BY <2>6, <2>7, <2>8
<1>14. /\ StageSound("linear", 14, LinearStages[14], s, p)
      /\ Stateful("linear", 14, LinearStages[14], s, p) /\ Sized("linear", LinearStages[14])
  <2>1. LinearStages[14] = Stage(<<"gate_proj">>, <<"rms2">>, <<"mlp_gate">>, <<I>>)
    BY DEF LinearStages, DeltaNetStages, AddNorm, MlpStages, One
  <2>2. InPlace("linear", 14, <<"rms2">>, <<"mlp_gate">>)
    BY NamesAre DEF InPlace, OrderOf, LinearOrder, MlpNames, MlpOrder
  <2>3. Fed("linear", LinearStages[14], s, p) = <<LinearTerm("rms2", s, p)>>
    BY <2>1, <1>a DEF Fed, Stage
  <2>4. LinearTerm("mlp_gate", s, p) = <<"gate_proj", <<LinearTerm("rms2", s, p)>>>>
    BY <1>b, MlpTerms
  <2>5. StageSound("linear", 14, LinearStages[14], s, p)
    BY <2>1, <2>2, <2>3, <2>4, <1>a, <1>c, Plain DEF StageSound, Stage
  <2>6. Stateful("linear", 14, LinearStages[14], s, p)
    BY <2>1 DEF Stateful, Stage, KvStage
  <2>7. Sized("linear", LinearStages[14])
    BY <2>1 DEF Sized, Stage, Width
  <2> QED BY <2>5, <2>6, <2>7
<1>15. /\ StageSound("linear", 15, LinearStages[15], s, p)
      /\ Stateful("linear", 15, LinearStages[15], s, p) /\ Sized("linear", LinearStages[15])
  <2>1. LinearStages[15] = Stage(<<"up_proj">>, <<"rms2">>, <<"mlp_up">>, <<I>>)
    BY DEF LinearStages, DeltaNetStages, AddNorm, MlpStages, One
  <2>2. InPlace("linear", 15, <<"rms2">>, <<"mlp_up">>)
    BY NamesAre DEF InPlace, OrderOf, LinearOrder, MlpNames, MlpOrder
  <2>3. Fed("linear", LinearStages[15], s, p) = <<LinearTerm("rms2", s, p)>>
    BY <2>1, <1>a DEF Fed, Stage
  <2>4. LinearTerm("mlp_up", s, p) = <<"up_proj", <<LinearTerm("rms2", s, p)>>>>
    BY <1>b, MlpTerms
  <2>5. StageSound("linear", 15, LinearStages[15], s, p)
    BY <2>1, <2>2, <2>3, <2>4, <1>a, <1>c, Plain DEF StageSound, Stage
  <2>6. Stateful("linear", 15, LinearStages[15], s, p)
    BY <2>1 DEF Stateful, Stage, KvStage
  <2>7. Sized("linear", LinearStages[15])
    BY <2>1 DEF Sized, Stage, Width
  <2> QED BY <2>5, <2>6, <2>7
<1>16. /\ StageSound("linear", 16, LinearStages[16], s, p)
      /\ Stateful("linear", 16, LinearStages[16], s, p) /\ Sized("linear", LinearStages[16])
  <2>1. LinearStages[16]
          = Stage(<<"silu_mul">>, <<"mlp_gate", "mlp_up">>, <<"silu_mul">>, <<I>>)
    BY DEF LinearStages, DeltaNetStages, AddNorm, MlpStages, One
  <2>2. InPlace("linear", 16, <<"mlp_gate", "mlp_up">>, <<"silu_mul">>)
    BY NamesAre DEF InPlace, OrderOf, LinearOrder, MlpNames, MlpOrder
  <2>3. Fed("linear", LinearStages[16], s, p)
          = <<LinearTerm("mlp_gate", s, p), LinearTerm("mlp_up", s, p)>>
    BY <2>1, <1>a DEF Fed, Stage
  <2>4. LinearTerm("silu_mul", s, p)
          = <<"silu_mul", <<LinearTerm("mlp_gate", s, p), LinearTerm("mlp_up", s, p)>>>>
    BY <1>b, MlpTerms
  <2>5. StageSound("linear", 16, LinearStages[16], s, p)
    BY <2>1, <2>2, <2>3, <2>4, <1>a, <1>c, Plain DEF StageSound, Stage
  <2>6. Stateful("linear", 16, LinearStages[16], s, p)
    BY <2>1 DEF Stateful, Stage, KvStage
  <2>7. Sized("linear", LinearStages[16])
    BY <2>1 DEF Sized, Stage, Width
  <2> QED BY <2>5, <2>6, <2>7
<1>17. /\ StageSound("linear", 17, LinearStages[17], s, p)
      /\ Stateful("linear", 17, LinearStages[17], s, p) /\ Sized("linear", LinearStages[17])
  <2>1. LinearStages[17] = Stage(<<"down_proj">>, <<"silu_mul">>, <<"mlp_down">>, <<H>>)
    BY DEF LinearStages, DeltaNetStages, AddNorm, MlpStages, One
  <2>2. InPlace("linear", 17, <<"silu_mul">>, <<"mlp_down">>)
    BY NamesAre DEF InPlace, OrderOf, LinearOrder, MlpNames, MlpOrder
  <2>3. Fed("linear", LinearStages[17], s, p) = <<LinearTerm("silu_mul", s, p)>>
    BY <2>1, <1>a DEF Fed, Stage
  <2>4. LinearTerm("mlp_down", s, p) = <<"down_proj", <<LinearTerm("silu_mul", s, p)>>>>
    BY <1>b, MlpTerms
  <2>5. StageSound("linear", 17, LinearStages[17], s, p)
    BY <2>1, <2>2, <2>3, <2>4, <1>a, <1>c, Plain DEF StageSound, Stage
  <2>6. Stateful("linear", 17, LinearStages[17], s, p)
    BY <2>1 DEF Stateful, Stage, KvStage
  <2>7. Sized("linear", LinearStages[17])
    BY <2>1 DEF Sized, Stage, Width
  <2> QED BY <2>5, <2>6, <2>7
<1>18. /\ StageSound("linear", 18, LinearStages[18], s, p)
      /\ Stateful("linear", 18, LinearStages[18], s, p) /\ Sized("linear", LinearStages[18])
  <2>1. LinearStages[18] = Stage(<<"add">>, <<"res1", "mlp_down">>, <<"final">>, <<H>>)
    BY DEF LinearStages, DeltaNetStages, AddNorm, MlpStages, One
  <2>2. InPlace("linear", 18, <<"res1", "mlp_down">>, <<"final">>)
    BY NamesAre DEF InPlace, OrderOf, LinearOrder, MlpNames, MlpOrder
  <2>3. Fed("linear", LinearStages[18], s, p)
          = <<LinearTerm("res1", s, p), LinearTerm("mlp_down", s, p)>>
    BY <2>1, <1>a DEF Fed, Stage
  <2>4. LinearTerm("final", s, p)
          = <<"add", <<LinearTerm("res1", s, p), LinearTerm("mlp_down", s, p)>>>>
    BY <1>b, MlpTerms
  <2>5. StageSound("linear", 18, LinearStages[18], s, p)
    BY <2>1, <2>2, <2>3, <2>4, <1>a, <1>c, Plain DEF StageSound, Stage
  <2>6. Stateful("linear", 18, LinearStages[18], s, p)
    BY <2>1 DEF Stateful, Stage, KvStage
  <2>7. Sized("linear", LinearStages[18])
    BY <2>1 DEF Sized, Stage, Width
  <2> QED BY <2>5, <2>6, <2>7
<1> QED BY <1>0, <1>1, <1>2, <1>3, <1>4, <1>5, <1>6, <1>7, <1>8, <1>9, <1>10, <1>11,
     <1>12, <1>13, <1>14, <1>15, <1>16, <1>17, <1>18

(* The recurrent state: the recursion that defines it has a solution.      *)
LEMMA RecStates ==
  ASSUME NEW s
  PROVE  /\ RecState(s)[0] = Zero
         /\ \A p \in 1..MaxLen :
              RecState(s)[p] = <<"state", DeltaArgs(s, p - 1), RecState(s)[p - 1]>>
PROOF
<1> DEFINE Next(p, v) == <<"state", DeltaArgs(s, p - 1), v>>
           F(g, n) == [p \in 0..n |-> IF p = 0 THEN Zero ELSE Next(p, g[p - 1])]
           Bad == {n \in 0..MaxLen : ~\E g : g = F(g, n)}
<1>1. MaxLen \in Nat
  BY DecoderLayersAssumption DEF DecoderLayersAssumption
<1>2. RecState(s) = CHOOSE st : st = F(st, MaxLen)
  BY DEF RecState
<1> HIDE DEF Next
<1>3. ASSUME NEW n \in Bad, \A m \in Bad : n <= m
      PROVE  FALSE
  <2>1. CASE n = 0
    <3> DEFINE g == [p \in 0..0 |-> Zero]
    <3>1. g = F(g, 0)
      OBVIOUS
    <3> QED BY <2>1, <3>1
  <2>2. CASE n > 0
    <3>1. n \in Nat /\ n - 1 \in 0..MaxLen /\ n - 1 \notin Bad
      BY <1>1, <1>3, <2>2
    <3>2. PICK g : g = F(g, n - 1)
      BY <3>1
    <3> DEFINE h == [p \in 0..n |-> IF p < n THEN g[p] ELSE Next(n, g[n - 1])]
    <3>3. \A p \in 0..n : h[p] = IF p = 0 THEN Zero ELSE Next(p, h[p - 1])
      <4> SUFFICES ASSUME NEW p \in 0..n
                   PROVE  h[p] = IF p = 0 THEN Zero ELSE Next(p, h[p - 1])
        OBVIOUS
      <4>1. p > 0 => h[p - 1] = g[p - 1]
        BY <3>1
      <4>2. p < n => g[p] = IF p = 0 THEN Zero ELSE Next(p, g[p - 1])
        BY <3>1, <3>2
      <4>3. h[p] = IF p < n THEN g[p] ELSE Next(n, g[n - 1])
        OBVIOUS
      <4>4. p = n \/ p < n
        BY <3>1
      <4> HIDE DEF h
      <4> QED BY <4>1, <4>2, <4>3, <4>4, <2>2
    <3>4. h = F(h, n)
      BY <3>3
    <3> QED BY <3>4
  <2> QED BY <2>1, <2>2, <1>1
<1>4. Bad = {}
  <2>1. Bad \in SUBSET Nat
    BY <1>1
  <2> HIDE DEF Bad
  <2>2. CASE Bad # {}
    <3>1. \E i \in Bad : \A j \in Bad : i <= j
      BY <2>1, <2>2, LeastNat
    <3> QED BY <3>1, <1>3
  <2> QED BY <2>2
<1>5. \E g : g = F(g, MaxLen)
  <2>1. MaxLen \in 0..MaxLen
    BY <1>1
  <2> HIDE DEF F
  <2> QED BY <1>4, <2>1
<1>6. RecState(s) = F(RecState(s), MaxLen)
  BY <1>2, <1>5
<1>7. RecState(s)[0] = Zero
  BY <1>6, <1>1
<1>8. ASSUME NEW p \in 1..MaxLen
      PROVE  RecState(s)[p] = Next(p, RecState(s)[p - 1])
  <2>1. p \in 0..MaxLen /\ p # 0
    BY <1>1
  <2> QED BY <2>1, <1>6
<1> QED BY <1>7, <1>8 DEF Next

All == Sequences \cup {0}

(* Tokens in the state of s: during a call, behind the stage that takes    *)
(* the call's token into it, one more than between calls.                  *)
Held(s, stage) == len[s] + IF pc > stage /\ InCall(s) THEN 1 ELSE 0

Shapes ==
  /\ kind \in KINDS /\ path \in Paths /\ (kind = "block" => path = "single")
  /\ pc \in 0..Len(ListOf(kind)) + 1
  /\ DOMAIN buf = Paths
  /\ DOMAIN cells = All /\ \A s \in All : DOMAIN cells[s] = 0..MaxLen - 1
  /\ DOMAIN conv = All /\ DOMAIN rec = All /\ len \in [All -> 0..MaxLen]
  /\ caps \in [rows : Nat, t_max : Nat]

(* A call is of sequences apart, each at its next position, and fits what  *)
(* the buffers were allocated for.                                         *)
CallSound ==
  pc > 0 =>
    /\ Len(rows) \in 1..MaxRows /\ rows \in Seq([seq : All, pos : 0..MaxLen - 1])
    /\ \A r \in DOMAIN rows : rows[r].pos = len[rows[r].seq]
    /\ \A r, t \in DOMAIN rows : rows[r].seq = rows[t].seq => r = t
    /\ path = "single" => Len(rows) = 1
    /\ path = "batch" => /\ Len(rows) <= caps.rows
                         /\ kind = "full" => t_max <= caps.t_max

(* What the stages behind have written is of the call's tokens.            *)
BuffersSound ==
  pc > 0 =>
    \A r \in DOMAIN rows, n \in Names :
      OrderOf(kind, n) < pc => buf[path][n][r] = TermOf(kind, n, rows[r].seq, rows[r].pos)

StateSound ==
  \A s \in All :
    IF kind = "linear"
    THEN conv[s] = ConvBefore(s, Held(s, 7)) /\ rec[s] = RecState(s)[Held(s, 10)]
    ELSE \A i \in 0..Held(s, KvStage(kind)) - 1 : cells[s][i] = CellOf(kind, s, i)

LayersInv == Shapes /\ CallSound /\ BuffersSound /\ StateSound

--------------------------------------------------------------------------------
(* The three kinds at once.                                                *)

(* The stages of the call are those of its kind, single or batched.        *)
LEMMA StagesAre ==
  ASSUME kind \in KINDS
  PROVE  Stages = ListOf(kind)
PROOF
<1>1. CASE kind = "block"
  BY <1>1, Zenon DEF Stages, ListOf
<1>2. CASE kind = "full"
  <2>1. Stages = IF path = "single" THEN FullStages ELSE FullBatchStages
    BY <1>2, Zenon DEF Stages
  <2> QED BY <1>2, <2>1, Zenon DEF ListOf, FullBatchStages
<1>3. CASE kind = "linear"
  <2>1. Stages = IF path = "single" THEN LinearStages ELSE LinearBatchStages
    BY <1>3, Zenon DEF Stages
  <2> QED BY <1>3, <2>1, Zenon DEF ListOf, LinearBatchStages
<1> QED BY <1>1, <1>2, <1>3 DEF KINDS

(* Every stage of every kind, in its place and of its terms.               *)
LEMMA AllStagesSound ==
  ASSUME NEW K \in KINDS, NEW s, NEW p \in Nat
  PROVE  /\ Len(ListOf(K)) \in 12..20
         /\ \A k \in 1..Len(ListOf(K)) : /\ StageSound(K, k, ListOf(K)[k], s, p)
                                        /\ Stateful(K, k, ListOf(K)[k], s, p)
                                        /\ Sized(K, ListOf(K)[k])
PROOF
<1>1. CASE K = "block"
  <2>1. ListOf(K) = BlockStages
    BY <1>1, Zenon DEF ListOf
  <2>2. Len(ListOf(K)) = 17
    BY <2>1, BlockStagesSound
  <2>3. ASSUME NEW k \in 1..17
        PROVE  /\ StageSound(K, k, ListOf(K)[k], s, p)
               /\ Stateful(K, k, ListOf(K)[k], s, p) /\ Sized(K, ListOf(K)[k])
    <3>1. /\ StageSound("block", k, BlockStages[k], s, p)
          /\ Stateful("block", k, BlockStages[k], s, p) /\ Sized("block", BlockStages[k])
      BY BlockStagesSound
    <3>2. StageSound(K, k, ListOf(K)[k], s, p)
      BY <1>1, <2>1, <3>1
    <3>3. Stateful(K, k, ListOf(K)[k], s, p)
      BY <1>1, <2>1, <3>1
    <3>4. Sized(K, ListOf(K)[k])
      BY <1>1, <2>1, <3>1
    <3> QED BY <3>2, <3>3, <3>4
  <2>4. \A k \in 1..Len(ListOf(K)) : k \in 1..17
    BY <2>2
  <2>5. Len(ListOf(K)) \in 12..20
    BY <2>2
  <2> QED BY <2>3, <2>4, <2>5
<1>2. CASE K = "full"
  <2>1. ListOf(K) = FullStages
    BY <1>2, Zenon DEF ListOf
  <2>2. Len(ListOf(K)) = 20
    BY <2>1, FullStagesSound
  <2>3. ASSUME NEW k \in 1..20
        PROVE  /\ StageSound(K, k, ListOf(K)[k], s, p)
               /\ Stateful(K, k, ListOf(K)[k], s, p) /\ Sized(K, ListOf(K)[k])
    <3>1. /\ StageSound("full", k, FullStages[k], s, p)
          /\ Stateful("full", k, FullStages[k], s, p) /\ Sized("full", FullStages[k])
      BY FullStagesSound
    <3>2. StageSound(K, k, ListOf(K)[k], s, p)
      BY <1>2, <2>1, <3>1
    <3>3. Stateful(K, k, ListOf(K)[k], s, p)
      BY <1>2, <2>1, <3>1
    <3>4. Sized(K, ListOf(K)[k])
      BY <1>2, <2>1, <3>1
    <3> QED BY <3>2, <3>3, <3>4
  <2>4. \A k \in 1..Len(ListOf(K)) : k \in 1..20
    BY <2>2
  <2>5. Len(ListOf(K)) \in 12..20
    BY <2>2
  <2> QED BY <2>3, <2>4, <2>5
<1>3. CASE K = "linear"
  <2>1. ListOf(K) = LinearStages
    BY <1>3, Zenon DEF ListOf
  <2>2. Len(ListOf(K)) = 18
    BY <2>1, LinearStagesSound
  <2>3. ASSUME NEW k \in 1..18
        PROVE  /\ StageSound(K, k, ListOf(K)[k], s, p)
               /\ Stateful(K, k, ListOf(K)[k], s, p) /\ Sized(K, ListOf(K)[k])
    <3>1. /\ StageSound("linear", k, LinearStages[k], s, p)
          /\ Stateful("linear", k, LinearStages[k], s, p) /\ Sized("linear", LinearStages[k])
      BY LinearStagesSound
    <3>2. StageSound(K, k, ListOf(K)[k], s, p)
      BY <1>3, <2>1, <3>1
    <3>3. Stateful(K, k, ListOf(K)[k], s, p)
      BY <1>3, <2>1, <3>1
    <3>4. Sized(K, ListOf(K)[k])
      BY <1>3, <2>1, <3>1
    <3> QED BY <3>2, <3>3, <3>4
  <2>4. \A k \in 1..Len(ListOf(K)) : k \in 1..18
    BY <2>2
  <2>5. Len(ListOf(K)) \in 12..20
    BY <2>2
  <2> QED BY <2>3, <2>4, <2>5
<1> QED BY <1>1, <1>2, <1>3 DEF KINDS

(* No stage comes before the first, and none writes a buffer where the     *)
(* keys and values are written.                                            *)
LEMMA OrdersSound ==
  ASSUME NEW K \in KINDS, NEW n \in Names
  PROVE  /\ OrderOf(K, n) \in 1..99 /\ OrderOf(K, "final") <= Len(ListOf(K))
         /\ K # "linear" => OrderOf(K, n) # KvStage(K)
PROOF
<1>1. CASE K = "block"
  <2>1. OrderOf(K, n) = BlockOrder(n) /\ OrderOf(K, "final") = BlockOrder("final")
    BY <1>1, Zenon DEF OrderOf
  <2>2. ListOf(K) = BlockStages
    BY <1>1, Zenon DEF ListOf
  <2>3. Len(ListOf(K)) = 17
    BY <2>2, BlockStagesSound, 0 \in Nat
  <2>4. KvStage(K) = 8
    BY <1>1 DEF KvStage
  <2>5. /\ MlpOrder("mlp_gate") = 1 /\ MlpOrder("mlp_up") = 2 /\ MlpOrder("silu_mul") = 3
        /\ MlpOrder("mlp_down") = 4 /\ MlpOrder("final") = 5
    BY Zenon DEF MlpOrder
  <2>6. /\ BlockOrder("input") = 1 /\ BlockOrder("rms1") = 2
        /\ BlockOrder("q") = 3 /\ BlockOrder("k") = 4
        /\ BlockOrder("v") = 5 /\ BlockOrder("rope_q") = 6
        /\ BlockOrder("rope_k") = 7 /\ BlockOrder("attn_raw") = 9
        /\ BlockOrder("o_proj") = 10 /\ BlockOrder("res1") = 11
        /\ BlockOrder("rms2") = 12 /\ BlockOrder("mlp_gate") = 12 + MlpOrder("mlp_gate")
        /\ BlockOrder("mlp_up") = 12 + MlpOrder("mlp_up")
        /\ BlockOrder("silu_mul") = 12 + MlpOrder("silu_mul")
        /\ BlockOrder("mlp_down") = 12 + MlpOrder("mlp_down")
        /\ BlockOrder("final") = 12 + MlpOrder("final")
    BY Zenon DEF BlockOrder, MlpNames
  <2>7. n \notin {"input", "rms1", "q", "k", "v", "rope_q", "rope_k", "attn_raw",
                  "o_proj", "res1", "rms2", "mlp_gate", "mlp_up", "silu_mul",
                  "mlp_down", "final", "x"}
          => BlockOrder(n) = 99
    BY Zenon DEF BlockOrder, MlpNames
  <2>8. BlockOrder(n) \in 1..99 /\ BlockOrder(n) # 8 /\ BlockOrder("final") = 17
    BY <2>6, <2>7, <2>5, NamesAre
  <2>9. OrderOf(K, n) \in 1..99
    BY <2>1, <2>8
  <2>10. OrderOf(K, "final") <= Len(ListOf(K))
    BY <2>1, <2>8, <2>3
  <2>11. OrderOf(K, n) # KvStage(K)
    BY <2>1, <2>8, <2>4
  <2> QED BY <2>9, <2>10, <2>11
<1>2. CASE K = "full"
  <2>1. OrderOf(K, n) = FullOrder(n) /\ OrderOf(K, "final") = FullOrder("final")
    BY <1>2, Zenon DEF OrderOf
  <2>2. ListOf(K) = FullStages
    BY <1>2, Zenon DEF ListOf
  <2>3. Len(ListOf(K)) = 20
    BY <2>2, FullStagesSound, 0 \in Nat
  <2>4. KvStage(K) = 11
    BY <1>2 DEF KvStage
  <2>5. /\ MlpOrder("mlp_gate") = 1 /\ MlpOrder("mlp_up") = 2 /\ MlpOrder("silu_mul") = 3
        /\ MlpOrder("mlp_down") = 4 /\ MlpOrder("final") = 5
    BY Zenon DEF MlpOrder
  <2>6. /\ FullOrder("input") = 1 /\ FullOrder("rms1") = 2
        /\ FullOrder("q_gate") = 3 /\ FullOrder("q") = 4
        /\ FullOrder("att_gate") = 4 /\ FullOrder("k") = 5
        /\ FullOrder("v") = 6 /\ FullOrder("q_norm") = 7
        /\ FullOrder("k_norm") = 8 /\ FullOrder("rope_q") = 9
        /\ FullOrder("rope_k") = 10 /\ FullOrder("attn_raw") = 12
        /\ FullOrder("attn_gated") = 13 /\ FullOrder("o_proj") = 14
        /\ FullOrder("res1") = 15 /\ FullOrder("rms2") = 15
        /\ FullOrder("mlp_gate") = 15 + MlpOrder("mlp_gate")
        /\ FullOrder("mlp_up") = 15 + MlpOrder("mlp_up")
        /\ FullOrder("silu_mul") = 15 + MlpOrder("silu_mul")
        /\ FullOrder("mlp_down") = 15 + MlpOrder("mlp_down")
        /\ FullOrder("final") = 15 + MlpOrder("final")
    BY Zenon DEF FullOrder, MlpNames
  <2>7. n \notin {"input", "rms1", "q_gate", "q", "att_gate", "k", "v", "q_norm",
                  "k_norm", "rope_q", "rope_k", "attn_raw", "attn_gated", "o_proj",
                  "res1", "rms2", "mlp_gate", "mlp_up", "silu_mul", "mlp_down",
                  "final", "x"}
          => FullOrder(n) = 99
    BY Zenon DEF FullOrder, MlpNames
  <2>8. FullOrder(n) \in 1..99 /\ FullOrder(n) # 11 /\ FullOrder("final") = 20
    BY <2>6, <2>7, <2>5, NamesAre
  <2>9. OrderOf(K, n) \in 1..99
    BY <2>1, <2>8
  <2>10. OrderOf(K, "final") <= Len(ListOf(K))
    BY <2>1, <2>8, <2>3
  <2>11. OrderOf(K, n) # KvStage(K)
    BY <2>1, <2>8, <2>4
  <2> QED BY <2>9, <2>10, <2>11
<1>3. CASE K = "linear"
  <2>1. OrderOf(K, n) = LinearOrder(n) /\ OrderOf(K, "final") = LinearOrder("final")
    BY <1>3, Zenon DEF OrderOf
  <2>2. ListOf(K) = LinearStages
    BY <1>3, Zenon DEF ListOf
  <2>3. Len(ListOf(K)) = 18
    BY <2>2, LinearStagesSound, 0 \in Nat
  <2>4. KvStage(K) = 11
    BY <1>3 DEF KvStage
  <2>5. /\ MlpOrder("mlp_gate") = 1 /\ MlpOrder("mlp_up") = 2 /\ MlpOrder("silu_mul") = 3
        /\ MlpOrder("mlp_down") = 4 /\ MlpOrder("final") = 5
    BY Zenon DEF MlpOrder
  <2>6. /\ LinearOrder("input") = 1 /\ LinearOrder("rms1") = 2
        /\ LinearOrder("mixed") = 3 /\ LinearOrder("z") = 4
        /\ LinearOrder("b") = 5 /\ LinearOrder("a") = 6
        /\ LinearOrder("conv_out") = 7 /\ LinearOrder("conv_silu") = 7
        /\ LinearOrder("q") = 8 /\ LinearOrder("k") = 8
        /\ LinearOrder("v") = 8 /\ LinearOrder("beta") = 9
        /\ LinearOrder("g") = 9 /\ LinearOrder("core") = 10
        /\ LinearOrder("gated") = 11 /\ LinearOrder("o_proj") = 12
        /\ LinearOrder("res1") = 13 /\ LinearOrder("rms2") = 13
        /\ LinearOrder("mlp_gate") = 13 + MlpOrder("mlp_gate")
        /\ LinearOrder("mlp_up") = 13 + MlpOrder("mlp_up")
        /\ LinearOrder("silu_mul") = 13 + MlpOrder("silu_mul")
        /\ LinearOrder("mlp_down") = 13 + MlpOrder("mlp_down")
        /\ LinearOrder("final") = 13 + MlpOrder("final")
    BY Zenon DEF LinearOrder, MlpNames
  <2>7. n \notin {"input", "rms1", "mixed", "z", "b", "a", "conv_out", "conv_silu",
                  "q", "k", "v", "beta", "g", "core", "gated", "o_proj", "res1",
                  "rms2", "mlp_gate", "mlp_up", "silu_mul", "mlp_down", "final", "x"}
          => LinearOrder(n) = 99
    BY Zenon DEF LinearOrder, MlpNames
  <2>8. LinearOrder(n) \in 1..99 /\ LinearOrder("final") = 18
    BY <2>6, <2>7, <2>5, NamesAre
  <2>9. OrderOf(K, n) \in 1..99
    BY <2>1, <2>8
  <2>10. OrderOf(K, "final") <= Len(ListOf(K))
    BY <2>1, <2>8, <2>3
  <2> QED BY <1>3, <2>9, <2>10
<1> QED BY <1>1, <1>2, <1>3 DEF KINDS

(* The term of the last buffer is the layer's function of the sequence.    *)
LEMMA FinalTerm ==
  ASSUME kind \in KINDS, NEW s, NEW p
  PROVE  TermOf(kind, "final", s, p) = Out(s, p)
PROOF
<1>0. "final" \in MlpNames
  BY DEF MlpNames
<1>1. CASE kind = "block"
  <2>1. Out(s, p) = BlockOut(s, p) /\ TermOf(kind, "final", s, p) = BlockTerm("final", s, p)
    BY <1>1, Zenon DEF Out, TermOf
  <2>2. BlockTerm("final", s, p)
          = Mlp(BlockResidual(s, p), <<"post_norm", <<BlockResidual(s, p)>>>>)
    <3>1. BlockTerm("final", s, p)
            = MlpTerm("final", BlockTerm("res1", s, p), BlockTerm("rms2", s, p))
      BY <1>0, BlockTail
    <3>2. \A y, z : MlpTerm("final", y, z) = Mlp(y, z)
      BY Zenon DEF MlpTerm
    <3> QED BY <3>1, <3>2, BlockTerms
  <2>3. BlockOut(s, p) = Mlp(BlockResidual(s, p), <<"post_norm", <<BlockResidual(s, p)>>>>)
    BY DEF BlockOut, BlockResidual, BlockAttention, BlockCell, Rotated, Token
  <2> QED BY <2>1, <2>2, <2>3
<1>2. CASE kind = "full"
  <2> DEFINE args == Added(s, p, Proj("o_proj", FullGated(s, p)))
  <2>1. Out(s, p) = FullOut(s, p) /\ TermOf(kind, "final", s, p) = FullTerm("final", s, p)
    BY <1>2, Zenon DEF Out, TermOf
  <2>2. FullTerm("final", s, p) = Mlp(<<"add", args>>, <<"post_norm_of_add", args>>)
    <3>1. FullTerm("final", s, p)
            = MlpTerm("final", FullTerm("res1", s, p), FullTerm("rms2", s, p))
      BY <1>0, FullTail
    <3>2. \A y, z : MlpTerm("final", y, z) = Mlp(y, z)
      BY Zenon DEF MlpTerm
    <3> QED BY <3>1, <3>2, FullTerms
  <2>3. FullOut(s, p) = Residual(s, p, Proj("o_proj", FullGated(s, p)))
    BY DEF FullOut, FullGated, FullAttention, FullQuery, FullCell, QGate, Rotated
  <2> QED BY <2>1, <2>2, <2>3 DEF Residual, Added, Token
<1>3. CASE kind = "linear"
  <2> DEFINE args == Added(s, p, Proj("out_proj", LinearGated(s, p)))
  <2>1. /\ Out(s, p) = LinearOut(s, p)
        /\ TermOf(kind, "final", s, p) = LinearTerm("final", s, p)
    BY <1>3, Zenon DEF Out, TermOf
  <2>2. LinearTerm("final", s, p) = Mlp(<<"add", args>>, <<"post_norm_of_add", args>>)
    <3>1. LinearTerm("final", s, p)
            = MlpTerm("final", LinearTerm("res1", s, p), LinearTerm("rms2", s, p))
      BY <1>0, LinearTail
    <3>2. \A y, z : MlpTerm("final", y, z) = Mlp(y, z)
      BY Zenon DEF MlpTerm
    <3> QED BY <3>1, <3>2, LinearTerms
  <2>3. LinearOut(s, p) = Residual(s, p, Proj("out_proj", LinearGated(s, p)))
    BY DEF LinearOut, LinearGated, Core
  <2> QED BY <2>1, <2>2, <2>3 DEF Residual, Added, Token
<1> QED BY <1>1, <1>2, <1>3 DEF KINDS

--------------------------------------------------------------------------------
(* What a stage computes.                                                  *)

(* The stage to launch next.                                               *)
LEMMA StageNow ==
  ASSUME Shapes, pc \in 1..Len(Stages), NEW s, NEW p \in Nat
  PROVE  /\ StageSound(kind, pc, Stages[pc], s, p)
         /\ Stateful(kind, pc, Stages[pc], s, p) /\ Sized(kind, Stages[pc])
PROOF
<1>1. kind \in KINDS
  BY DEF Shapes
<1>2. Stages = ListOf(kind)
  BY <1>1, StagesAre
<1>3. pc \in 1..Len(ListOf(kind))
  BY <1>2
<1>4. /\ StageSound(kind, pc, ListOf(kind)[pc], s, p)
      /\ Stateful(kind, pc, ListOf(kind)[pc], s, p) /\ Sized(kind, ListOf(kind)[pc])
  BY <1>1, <1>3, AllStagesSound
<1> QED BY <1>2, <1>4, Zenon

(* A row of the call, and the tokens its sequence holds.                   *)
LEMMA RowFacts ==
  ASSUME Shapes, CallSound, pc > 0, NEW r \in DOMAIN rows
  PROVE  /\ rows[r].seq \in All /\ rows[r].pos \in 0..MaxLen - 1 /\ rows[r].pos \in Nat
         /\ rows[r].pos = len[rows[r].seq]
         /\ InCall(rows[r].seq) /\ RowOf(rows[r].seq) = r
         /\ \A k \in Nat : Held(rows[r].seq, k) = rows[r].pos + IF pc > k THEN 1 ELSE 0
PROOF
<1>1. rows \in Seq([seq : All, pos : 0..MaxLen - 1])
  BY DEF CallSound
<1>2. rows[r] \in [seq : All, pos : 0..MaxLen - 1]
  <2>1. PICK R : R = [seq : All, pos : 0..MaxLen - 1]
    OBVIOUS
  <2>2. rows \in Seq(R) /\ r \in 1..Len(rows)
    BY <1>1, <2>1
  <2>3. rows[r] \in R
    BY <2>2, ElementOfSeq
  <2> QED BY <2>1, <2>3
<1>3. rows[r].seq \in All /\ rows[r].pos \in 0..MaxLen - 1 /\ rows[r].pos \in Nat
  BY <1>2, DecoderLayersAssumption
<1>4. rows[r].pos = len[rows[r].seq]
  BY DEF CallSound
<1>5. InCall(rows[r].seq)
  BY DEF InCall
<1>6. RowOf(rows[r].seq) = r
  <2>1. \A t \in DOMAIN rows : rows[r].seq = rows[t].seq => r = t
    BY DEF CallSound
  <2> QED BY <2>1 DEF RowOf
<1> QED BY <1>3, <1>4, <1>5, <1>6 DEF Held

(* Its arguments are the terms of its inputs.                              *)
LEMMA ArgsAre ==
  ASSUME Shapes, CallSound, BuffersSound, pc \in 1..Len(Stages), NEW r \in DOMAIN rows
  PROVE  Args(r) = Fed(kind, Stages[pc], rows[r].seq, rows[r].pos)
PROOF
<1> DEFINE s == rows[r].seq
           p == rows[r].pos
           from == Stages[pc].from
<1>1. pc > 0 /\ p \in Nat
  <2>1. pc > 0
    BY DEF Shapes
  <2> QED BY <2>1, RowFacts
<1>2. \A j \in DOMAIN from : from[j] \in Names \cup {"x"} /\ OrderOf(kind, from[j]) < pc
  <2>1. StageSound(kind, pc, Stages[pc], s, p)
    BY <1>1, StageNow
  <2> QED BY <2>1 DEF StageSound, InPlace
<1>3. ASSUME NEW j \in DOMAIN from
      PROVE  In(from[j], r) = TermOf(kind, from[j], s, p)
  <2>1. CASE from[j] = "x"
    <3>1. In(from[j], r) = Token(s, p)
      BY <2>1 DEF In, x, Token
    <3>2. kind \in KINDS
      BY DEF Shapes
    <3>3. TermOf(kind, "x", s, p) = Token(s, p)
      <4>1. CASE kind = "block"
        BY <4>1, BlockTerms, Zenon DEF TermOf
      <4>2. CASE kind = "full"
        BY <4>2, FullTerms, Zenon DEF TermOf
      <4>3. CASE kind = "linear"
        BY <4>3, LinearTerms, Zenon DEF TermOf
      <4> QED BY <3>2, <4>1, <4>2, <4>3 DEF KINDS
    <3> QED BY <2>1, <3>1, <3>3
  <2>2. CASE from[j] # "x"
    <3>1. from[j] \in Names /\ OrderOf(kind, from[j]) < pc
      BY <1>2, <2>2
    <3>2. In(from[j], r) = buf[path][from[j]][r]
      BY <2>2 DEF In
    <3> QED BY <1>1, <3>1, <3>2 DEF BuffersSound
  <2> QED BY <2>1, <2>2
<1> QED BY <1>3 DEF Args, Fed

(* The value an operation yields, by its name.                             *)
LEMMA ValueOf ==
  ASSUME NEW i, NEW r, NEW op, op = Stages[pc].ops[i]
  PROVE  /\ op = "copy" => Value(i, r) = x(r)
         /\ op = "rope" => Value(i, r) = <<"rope", rows[r].pos, Args(r)>>
         /\ op = "attention" =>
              Value(i, r) = <<"attention", Args(r),
                              [p \in 0..rows[r].pos |-> cells[rows[r].seq][p]]>>
         /\ op \in {"conv", "conv_silu"} =>
              Value(i, r) = <<op, Append(conv[rows[r].seq], Args(r)[1])>>
         /\ op = "delta_rule" => Value(i, r) = <<op, Args(r), rec[rows[r].seq]>>
         /\ op \notin Special => Value(i, r) = <<op, Args(r)>>
PROOF
<1>1. op = "copy" => Value(i, r) = x(r)
  BY Zenon DEF Value
<1>2. op = "rope" => Value(i, r) = <<"rope", rows[r].pos, Args(r)>>
  BY Zenon DEF Value
<1>3. op = "attention" =>
        Value(i, r) = <<"attention", Args(r),
                        [p \in 0..rows[r].pos |-> cells[rows[r].seq][p]]>>
  BY Zenon DEF Value
<1>4. op \in {"conv", "conv_silu"} =>
        Value(i, r) = <<op, Append(conv[rows[r].seq], Args(r)[1])>>
  BY Zenon DEF Value
<1>5. op = "delta_rule" => Value(i, r) = <<op, Args(r), rec[rows[r].seq]>>
  BY Zenon DEF Value
<1>6. op \notin Special => Value(i, r) = <<op, Args(r)>>
  BY Zenon DEF Value, Special
<1> QED BY <1>1, <1>2, <1>3, <1>4, <1>5, <1>6

(* And what it makes of them for a token.                                  *)
LEMMA AppliedOf ==
  ASSUME NEW K, NEW op, NEW args, NEW s, NEW p
  PROVE  /\ op = "copy" => Applied(K, op, args, s, p) = Token(s, p)
         /\ op = "rope" => Applied(K, op, args, s, p) = <<"rope", p, args>>
         /\ op = "attention" =>
              Applied(K, op, args, s, p)
                = <<"attention", args, [i \in 0..p |-> CellOf(K, s, i)]>>
         /\ op \in {"conv", "conv_silu"} =>
              Applied(K, op, args, s, p) = <<op, Append(ConvBefore(s, p), args[1])>>
         /\ op = "delta_rule" => Applied(K, op, args, s, p) = <<op, args, RecState(s)[p]>>
         /\ op \notin Special => Applied(K, op, args, s, p) = <<op, args>>
PROOF
<1>1. op = "copy" => Applied(K, op, args, s, p) = Token(s, p)
  BY Zenon DEF Applied
<1>2. op = "rope" => Applied(K, op, args, s, p) = <<"rope", p, args>>
  BY Zenon DEF Applied
<1>3. op = "attention" =>
        Applied(K, op, args, s, p) = <<"attention", args, [i \in 0..p |-> CellOf(K, s, i)]>>
  BY Zenon DEF Applied
<1>4. op \in {"conv", "conv_silu"} =>
        Applied(K, op, args, s, p) = <<op, Append(ConvBefore(s, p), args[1])>>
  BY Zenon DEF Applied
<1>5. op = "delta_rule" => Applied(K, op, args, s, p) = <<op, args, RecState(s)[p]>>
  BY Zenon DEF Applied
<1>6. op \notin Special => Applied(K, op, args, s, p) = <<op, args>>
  BY Plain
<1> QED BY <1>1, <1>2, <1>3, <1>4, <1>5, <1>6

(* So each output is the term of its buffer: the attention reads the cells *)
(* of all tokens up to the call's, the convolution and the delta rule the  *)
(* state before it.                                                        *)
LEMMA ValueIs ==
  ASSUME LayersInv, pc \in 1..Len(Stages), NEW r \in DOMAIN rows,
         NEW i \in DOMAIN Stages[pc].to
  PROVE  Value(i, r) = TermOf(kind, Stages[pc].to[i], rows[r].seq, rows[r].pos)
PROOF
<1>a. Shapes /\ CallSound /\ BuffersSound /\ StateSound
  BY DEF LayersInv
<1>b. pc > 0
  BY <1>a DEF Shapes
<1> DEFINE op == Stages[pc].ops[i]
<1>1. PICK s, p : /\ s = rows[r].seq /\ p = rows[r].pos /\ s \in All /\ p \in Nat
                  /\ \A k \in Nat : Held(s, k) = p + IF pc > k THEN 1 ELSE 0
  BY <1>a, <1>b, RowFacts
<1>2. PICK args : args = Args(r) /\ args = Fed(kind, Stages[pc], s, p)
  BY <1>a, <1>1, ArgsAre
<1>3. TermOf(kind, Stages[pc].to[i], s, p) = Applied(kind, op, args, s, p)
  <2>1. StageSound(kind, pc, Stages[pc], s, p)
    BY <1>a, <1>1, StageNow
  <2> QED BY <1>2, <2>1 DEF StageSound
<1>4. /\ op = "attention" => kind # "linear" /\ pc > KvStage(kind)
      /\ op \in {"conv", "conv_silu"} => kind = "linear" /\ pc = 7
      /\ op = "delta_rule" => kind = "linear" /\ pc = 10
  <2>1. Stateful(kind, pc, Stages[pc], s, p)
    BY <1>a, <1>1, StageNow
  <2> QED BY <2>1 DEF Stateful
<1>5. Value(i, r) = Applied(kind, op, args, s, p)
  <2>1. CASE op = "copy"
    <3>1. Value(i, r) = x(r)
      BY <2>1, ValueOf
    <3>2. Applied(kind, op, args, s, p) = Token(s, p)
      BY <2>1, AppliedOf
    <3> QED BY <1>1, <3>1, <3>2 DEF x, Token
  <2>2. CASE op = "rope"
    <3>1. Value(i, r) = <<"rope", rows[r].pos, Args(r)>>
      BY <2>2, ValueOf
    <3>2. Applied(kind, op, args, s, p) = <<"rope", p, args>>
      BY <2>2, AppliedOf
    <3> QED BY <1>1, <1>2, <3>1, <3>2
  <2>3. CASE op = "attention"
    <3>1. Value(i, r) = <<"attention", Args(r),
                          [k \in 0..rows[r].pos |-> cells[rows[r].seq][k]]>>
      BY <2>3, ValueOf
    <3>2. Applied(kind, op, args, s, p)
            = <<"attention", args, [k \in 0..p |-> CellOf(kind, s, k)]>>
      BY <2>3, AppliedOf
    <3>3. KvStage(kind) \in Nat
      BY DEF KvStage
    <3>4. Held(s, KvStage(kind)) - 1 = p
      BY <1>1, <1>4, <2>3, <3>3
    <3>5. \A k \in 0..p : cells[s][k] = CellOf(kind, s, k)
      BY <1>a, <1>1, <1>4, <2>3, <3>4 DEF StateSound
    <3>6. [k \in 0..p |-> cells[s][k]] = [k \in 0..p |-> CellOf(kind, s, k)]
      BY <3>5
    <3> QED BY <1>1, <1>2, <3>1, <3>2, <3>6
  <2>4. CASE op \in {"conv", "conv_silu"}
    <3>1. Value(i, r) = <<op, Append(conv[rows[r].seq], Args(r)[1])>>
      BY <2>4, ValueOf
    <3>2. Applied(kind, op, args, s, p) = <<op, Append(ConvBefore(s, p), args[1])>>
      BY <2>4, AppliedOf
    <3>3. Held(s, 7) = p
      BY <1>1, <1>4, <2>4
    <3>4. conv[s] = ConvBefore(s, p)
      BY <1>a, <1>1, <1>4, <2>4, <3>3 DEF StateSound
    <3> QED BY <1>1, <1>2, <3>1, <3>2, <3>4
  <2>5. CASE op = "delta_rule"
    <3>1. Value(i, r) = <<op, Args(r), rec[rows[r].seq]>>
      BY <2>5, ValueOf
    <3>2. Applied(kind, op, args, s, p) = <<op, args, RecState(s)[p]>>
      BY <2>5, AppliedOf
    <3>3. Held(s, 10) = p
      BY <1>1, <1>4, <2>5
    <3>4. rec[s] = RecState(s)[p]
      BY <1>a, <1>1, <1>4, <2>5, <3>3 DEF StateSound
    <3> QED BY <1>1, <1>2, <3>1, <3>2, <3>4
  <2>6. CASE op \notin Special
    <3>1. Value(i, r) = <<op, Args(r)>>
      BY <2>6, ValueOf
    <3>2. Applied(kind, op, args, s, p) = <<op, args>>
      BY <2>6, AppliedOf
    <3> QED BY <1>2, <3>1, <3>2
  <2> QED BY <2>1, <2>2, <2>3, <2>4, <2>5, <2>6 DEF Special
<1> QED BY <1>1, <1>3, <1>5

--------------------------------------------------------------------------------
(* One stage further.                                                      *)

(* A batch has at most one row of each sequence, and that is a number.     *)
LEMMA RowsBounded == MaxRows \in Nat \ {0}
PROOF
<1>1. IsFiniteSet(Sequences \cup {0})
  BY FS_AddElement, DecoderLayersAssumption
<1>2. Cardinality(Sequences \cup {0}) # 0
  BY <1>1, FS_EmptySet
<1> QED BY <1>1, <1>2, FS_CardinalityType DEF MaxRows

(* Behind the stage its own buffers hold their terms too, for every row,   *)
(* and the buffers of the stages before keep theirs.                       *)
LEMMA StagePassed ==
  ASSUME LayersInv, pc \in 1..Len(Stages), NextStage,
         buf' = Outputs \/ (buf' = buf /\ Op = "kv_write")
  PROVE  /\ CallSound' /\ BuffersSound' /\ kind' = kind /\ kind' \in KINDS
         /\ path' = path /\ path' \in Paths /\ (kind' = "block" => path' = "single")
         /\ pc' \in 0..Len(ListOf(kind')) + 1 /\ DOMAIN buf' = Paths
         /\ len' = len /\ caps' = caps
PROOF
<1>a. Shapes /\ CallSound /\ BuffersSound
  BY DEF LayersInv
<1>b. /\ kind' = kind /\ path' = path /\ rows' = rows /\ caps' = caps /\ len' = len
      /\ pc' = pc + 1 /\ pc > 0 /\ pc \in Nat
  BY <1>a DEF NextStage, Shapes
<1>c. kind \in KINDS /\ path \in Paths /\ (kind = "block" => path = "single")
  BY <1>a DEF Shapes
<1>1. pc' \in 0..Len(ListOf(kind')) + 1
  <2>1. Stages = ListOf(kind)
    BY <1>c, StagesAre
  <2> QED BY <1>b, <2>1
<1>2. CallSound'
  <2>1. t_max' = t_max
    BY <1>b DEF t_max
  <2>2. pc > 0 /\ pc' > 0
    BY <1>b
  <2>3. MaxRows' = MaxRows
    BY DEF MaxRows
  <2> QED BY <1>a, <1>b, <2>1, <2>2, <2>3 DEF CallSound
<1>3. DOMAIN buf = Paths
  BY <1>a DEF Shapes
<1>4. DOMAIN buf' = Paths
  <2>1. CASE buf' = Outputs
    BY <1>3, <2>1 DEF Outputs
  <2> QED BY <1>3, <2>1
<1>5. BuffersSound'
  <2>1. Names' = Names
    BY DEF Names, Width
  <2>2. SUFFICES ASSUME NEW r \in DOMAIN rows, NEW n \in Names, OrderOf(kind, n) < pc + 1
                 PROVE  buf'[path][n][r] = TermOf(kind, n, rows[r].seq, rows[r].pos)
    BY <1>b, <2>1 DEF BuffersSound
  <2> DEFINE to == Stages[pc].to
             s == rows[r].seq
             p == rows[r].pos
  <2>3. InPlace(kind, pc, Stages[pc].from, to)
    <3>1. StageSound(kind, pc, Stages[pc], s, 0)
      BY <1>a, StageNow
    <3> QED BY <3>1 DEF StageSound
  <2>4. OrderOf(kind, n) \in Nat
    <3>1. PICK o : o = OrderOf(kind, n)
      OBVIOUS
    <3>2. o \in 1..99
      BY <1>c, <3>1, OrdersSound
    <3>3. o \in Nat
      BY <3>2
    <3> QED BY <3>1, <3>3
  <2>5. r \in 1..MaxRows
    <3>1. Len(rows) \in 1..MaxRows /\ DOMAIN rows = 1..Len(rows)
      BY <1>a, <1>b DEF CallSound
    <3> QED BY <3>1, RowsBounded
  <2>6. buf' = Outputs => buf'[path][n] =
                            IF n \in Range(to)
                            THEN [t \in 1..MaxRows |-> IF t \in DOMAIN rows
                                     THEN Value(CHOOSE k \in DOMAIN to : to[k] = n, t)
                                     ELSE buf[path][n][t]]
                            ELSE buf[path][n]
    BY <1>3, <1>c DEF Outputs
  <2>7. CASE OrderOf(kind, n) < pc
    <3>1. n \notin Range(to)
      BY <1>b, <2>3, <2>7 DEF InPlace, Range
    <3>2. buf'[path][n] = buf[path][n]
      BY <2>6, <3>1
    <3> QED BY <1>a, <1>b, <2>7, <3>2 DEF BuffersSound
  <2>8. CASE OrderOf(kind, n) = pc
    <3>1. PICK i \in DOMAIN to : to[i] = n
      BY <2>3, <2>8 DEF InPlace
    <3>2. i = CHOOSE k \in DOMAIN to : to[k] = n
      <4>1. \A k \in DOMAIN to : to[k] = n => k = i
        BY <2>3, <3>1 DEF InPlace
      <4> QED BY <3>1, <4>1
    <3>3. Op # "kv_write"
      <4>1. Stateful(kind, pc, Stages[pc], s, 0)
        BY <1>a, StageNow
      <4>2. kind # "linear" => OrderOf(kind, n) # KvStage(kind)
        BY <1>c, OrdersSound
      <4> QED BY <2>8, <4>1, <4>2 DEF Stateful, Op
    <3>4. n \in Range(to)
      BY <3>1 DEF Range
    <3>5. buf'[path][n][r] = Value(i, r)
      BY <2>5, <2>6, <3>2, <3>3, <3>4
    <3>6. Value(i, r) = TermOf(kind, to[i], s, p)
      BY ValueIs
    <3> QED BY <3>1, <3>5, <3>6
  <2>9. OrderOf(kind, n) < pc \/ OrderOf(kind, n) = pc
    BY <1>b, <2>2, <2>4
  <2> QED BY <2>7, <2>8, <2>9
<1> QED BY <1>b, <1>c, <1>1, <1>2, <1>4, <1>5

(* The tokens a sequence holds behind the stage.                           *)
LEMMA HeldNext ==
  ASSUME Shapes, pc \in 1..Len(Stages), NextStage, NEW s \in All, NEW k \in Nat
  PROVE  /\ Held(s, k)' = IF k = pc /\ InCall(s) THEN len[s] + 1 ELSE Held(s, k)
         /\ k = pc => Held(s, k) = len[s]
         /\ len[s] \in 0..MaxLen /\ len[s] \in Nat
PROOF
<1>1. len[s] \in 0..MaxLen /\ len[s] \in Nat /\ pc \in Nat
  BY DecoderLayersAssumption DEF Shapes
<1>2. len' = len /\ pc' = pc + 1 /\ rows' = rows
  BY DEF NextStage
<1>3. InCall(s)' <=> InCall(s)
  BY <1>2 DEF InCall
<1>4. Held(s, k)' = len[s] + IF pc + 1 > k /\ InCall(s) THEN 1 ELSE 0
  BY <1>2, <1>3 DEF Held
<1>5. Held(s, k) = len[s] + IF pc > k /\ InCall(s) THEN 1 ELSE 0
  BY DEF Held
<1> QED BY <1>1, <1>4, <1>5

(* What the stage of a state's own kernel does.                            *)
LEMMA StateStages ==
  ASSUME Shapes, pc \in 1..Len(Stages)
  PROVE  /\ Op = "kv_write" <=> kind # "linear" /\ pc = KvStage(kind)
         /\ Op = "conv" <=> kind = "linear" /\ pc = 7
         /\ Op = "delta_rule" <=> kind = "linear" /\ pc = 10
         /\ KvStage(kind) \in Nat
PROOF
<1>1. Stateful(kind, pc, Stages[pc], 0, 0)
  BY StageNow
<1> QED BY <1>1 DEF Stateful, Op, KvStage

(* The arguments of a row of s, whatever row that is.                      *)
LEMMA ArgsOf ==
  ASSUME LayersInv, pc \in 1..Len(Stages), NEW s \in All, InCall(s)
  PROVE  /\ Args(RowOf(s)) = Fed(kind, Stages[pc], s, len[s])
         /\ Stateful(kind, pc, Stages[pc], s, len[s])
         /\ rows[RowOf(s)].pos = len[s] /\ len[s] \in 0..MaxLen - 1 /\ len[s] \in Nat
PROOF
<1>a. Shapes /\ CallSound /\ BuffersSound
  BY DEF LayersInv
<1>b. pc > 0
  BY <1>a DEF Shapes
<1>1. PICK r \in DOMAIN rows : rows[r].seq = s
  BY DEF InCall
<1>2. /\ RowOf(s) = r /\ rows[r].pos = len[s]
      /\ rows[r].pos \in 0..MaxLen - 1 /\ rows[r].pos \in Nat
  BY <1>a, <1>b, <1>1, RowFacts
<1>3. Args(r) = Fed(kind, Stages[pc], s, len[s])
  BY <1>a, <1>1, <1>2, ArgsAre
<1>4. Stateful(kind, pc, Stages[pc], s, len[s])
  BY <1>a, <1>2, StageNow
<1> QED BY <1>2, <1>3, <1>4

--------------------------------------------------------------------------------
(* The invariant, action by action.                                        *)

(* A kernel that only maps buffers to buffers.                             *)
LEMMA LaunchKeeps ==
  ASSUME LayersInv, Launch
  PROVE  LayersInv'
PROOF
<1>a. Shapes /\ StateSound
  BY DEF LayersInv
<1>b. /\ pc \in 1..Len(Stages) /\ Op \notin {"kv_write", "conv", "delta_rule"}
      /\ buf' = Outputs /\ NextStage /\ cells' = cells /\ conv' = conv /\ rec' = rec
  BY DEF Launch
<1>1. /\ CallSound' /\ BuffersSound' /\ kind' = kind /\ kind' \in KINDS
      /\ path' = path /\ path' \in Paths /\ (kind' = "block" => path' = "single")
      /\ pc' \in 0..Len(ListOf(kind')) + 1 /\ DOMAIN buf' = Paths
      /\ len' = len /\ caps' = caps
  BY <1>b, StagePassed
<1>2. Shapes'
  BY <1>a, <1>b, <1>1 DEF Shapes, All
<1>3. StateSound'
  <2>1. /\ kind # "linear" => pc # KvStage(kind)
        /\ kind = "linear" => pc # 7 /\ pc # 10
        /\ KvStage(kind) \in Nat
    BY <1>a, <1>b, StateStages
  <2>2. ASSUME NEW s \in All
        PROVE  /\ kind = "linear" => Held(s, 7)' = Held(s, 7) /\ Held(s, 10)' = Held(s, 10)
               /\ kind # "linear" => Held(s, KvStage(kind))' = Held(s, KvStage(kind))
    <3>1. \A k \in Nat : k # pc => Held(s, k)' = Held(s, k)
      BY <1>a, <1>b, HeldNext
    <3>2. KvStage(kind)' = KvStage(kind)
      BY <1>1 DEF KvStage
    <3> QED BY <2>1, <3>1, <3>2, <1>1 DEF Held
  <2> QED BY <1>a, <1>b, <1>1, <2>2 DEF StateSound, All
<1> QED BY <1>1, <1>2, <1>3 DEF LayersInv

(* The last two of three elements, and one more.                           *)
LEMMA TwoOfThree ==
  ASSUME NEW t1, NEW t2, NEW t3, NEW v
  PROVE  Append(Tail(<<t1, t2, t3>>), v) = <<t2, t3, v>>
PROOF
<1> DEFINE S == {t1, t2, t3, v}
           a == Append(Tail(<<t1, t2, t3>>), v)
           b == <<t2, t3, v>>
<1>1. <<t1, t2, t3>> \in Seq(S) /\ Len(<<t1, t2, t3>>) = 3 /\ v \in S
  OBVIOUS
<1>2. PICK u : u = Tail(<<t1, t2, t3>>)
  OBVIOUS
<1>3. u \in Seq(S) /\ Len(u) = 2 /\ u[1] = t2 /\ u[2] = t3
  BY <1>1, <1>2
<1>4. /\ a \in Seq(S) /\ Len(a) = 3 /\ a[3] = v
      /\ \A i \in 1..2 : a[i] = u[i]
  BY <1>1, <1>2, <1>3, AppendProperties
<1>5. a[1] = t2 /\ a[2] = t3 /\ a[3] = v
  BY <1>3, <1>4
<1>6. b \in Seq(S) /\ Len(b) = 3 /\ b[1] = t2 /\ b[2] = t3 /\ b[3] = v
  OBVIOUS
<1> HIDE DEF a, b
<1>7. \A i \in 1..3 : a[i] = b[i]
  BY <1>5, <1>6
<1>8. a = b
  BY <1>4, <1>6, <1>7, SeqEqual
<1> QED BY <1>8 DEF a, b

(* Each row's key and value, at the row's own position.                    *)
LEMMA WriteKvKeeps ==
  ASSUME LayersInv, WriteKv
  PROVE  LayersInv'
PROOF
<1>a. Shapes /\ StateSound
  BY DEF LayersInv
<1>b. /\ pc \in 1..Len(Stages) /\ Op = "kv_write" /\ buf' = buf /\ NextStage
      /\ conv' = conv /\ rec' = rec
      /\ cells' = [s \in DOMAIN cells |->
                     IF InCall(s)
                     THEN [cells[s] EXCEPT ![rows[RowOf(s)].pos] = Args(RowOf(s))]
                     ELSE cells[s]]
  BY DEF WriteKv
<1>1. /\ CallSound' /\ BuffersSound' /\ kind' = kind /\ kind' \in KINDS
      /\ path' = path /\ path' \in Paths /\ (kind' = "block" => path' = "single")
      /\ pc' \in 0..Len(ListOf(kind')) + 1 /\ DOMAIN buf' = Paths
      /\ len' = len /\ caps' = caps
  BY <1>b, StagePassed
<1>2. DOMAIN cells = All /\ \A s \in All : DOMAIN cells[s] = 0..MaxLen - 1
  BY <1>a DEF Shapes
<1>3. Shapes'
  <2>1. DOMAIN cells' = All
    BY <1>b, <1>2
  <2>2. \A s \in All : DOMAIN cells'[s] = 0..MaxLen - 1
    BY <1>b, <1>2
  <2> QED BY <1>a, <1>b, <1>1, <2>1, <2>2 DEF Shapes, All
<1>4. PICK k \in Nat : kind # "linear" /\ pc = k /\ KvStage(kind) = k
  BY <1>a, <1>b, StateStages
<1>5. KvStage(kind)' = k
  BY <1>1, <1>4 DEF KvStage
<1>6. ASSUME NEW s \in All, NEW i \in 0..Held(s, k)' - 1
      PROVE  cells'[s][i] = CellOf(kind, s, i)
  <2>1. /\ Held(s, k)' = IF InCall(s) THEN len[s] + 1 ELSE len[s]
        /\ Held(s, k) = len[s] /\ len[s] \in Nat
    BY <1>a, <1>b, <1>4, HeldNext
  <2>2. \A j \in 0..len[s] - 1 : cells[s][j] = CellOf(kind, s, j)
    BY <1>a, <1>4, <2>1 DEF StateSound
  <2>3. CASE ~InCall(s)
    <3>1. cells'[s] = cells[s]
      BY <1>b, <1>2, <2>3
    <3>2. i \in 0..len[s] - 1
      BY <2>1, <2>3
    <3> QED BY <2>2, <3>1, <3>2
  <2>4. CASE InCall(s)
    <3>1. /\ Args(RowOf(s)) = Fed(kind, Stages[pc], s, len[s])
          /\ Stateful(kind, pc, Stages[pc], s, len[s])
          /\ rows[RowOf(s)].pos = len[s] /\ len[s] \in 0..MaxLen - 1
      BY <1>b, <2>4, ArgsOf
    <3>2. Args(RowOf(s)) = CellOf(kind, s, len[s])
      BY <1>b, <3>1 DEF Stateful, Op
    <3>3. cells'[s] = [cells[s] EXCEPT ![len[s]] = CellOf(kind, s, len[s])]
      BY <1>b, <1>2, <2>4, <3>1, <3>2
    <3>4. CASE i = len[s]
      BY <1>2, <3>1, <3>3, <3>4
    <3>5. CASE i # len[s]
      <4>1. i \in 0..len[s] - 1
        BY <2>1, <2>4, <3>5
      <4>2. cells'[s][i] = cells[s][i]
        BY <3>3, <3>5, <4>1, <1>2, <3>1
      <4> QED BY <2>2, <4>1, <4>2
    <3> QED BY <3>4, <3>5
  <2> QED BY <2>3, <2>4
<1>7. StateSound'
  BY <1>1, <1>4, <1>5, <1>6 DEF StateSound, All
<1> QED BY <1>1, <1>3, <1>7 DEF LayersInv

(* The state of the convolution, one token later.                          *)
LEMMA Shifted ==
  ASSUME NEW s, NEW p \in Nat
  PROVE  Append(Tail(ConvBefore(s, p)), Mixed(s, p)) = ConvBefore(s, p + 1)
PROOF
<1> DEFINE a == Mixed(s, p - 3)
           b == Mixed(s, p - 2)
           c == Mixed(s, p - 1)
           d == Mixed(s, p)
<1>1. ConvBefore(s, p) = <<a, b, c>>
  BY DEF ConvBefore
<1>2. ConvBefore(s, p + 1) = <<b, c, d>>
  <2>1. p + 1 - 3 = p - 2 /\ p + 1 - 2 = p - 1 /\ p + 1 - 1 = p
    OBVIOUS
  <2> QED BY <2>1 DEF ConvBefore
<1>4. Mixed(s, p) = d
  OBVIOUS
<1> HIDE DEF a, b, c, d
<1>3. Append(Tail(<<a, b, c>>), d) = <<b, c, d>>
  BY TwoOfThree
<1> QED BY <1>1, <1>2, <1>3, <1>4

(* Each row's input, into its own window.                                  *)
LEMMA ShiftConvKeeps ==
  ASSUME LayersInv, ShiftConv
  PROVE  LayersInv'
PROOF
<1>a. Shapes /\ StateSound
  BY DEF LayersInv
<1>b. /\ pc \in 1..Len(Stages) /\ Op = "conv" /\ buf' = Outputs /\ NextStage
      /\ cells' = cells /\ rec' = rec
      /\ conv' = [s \in DOMAIN conv |->
                    IF InCall(s) THEN Append(Tail(conv[s]), Args(RowOf(s))[1]) ELSE conv[s]]
  BY DEF ShiftConv
<1>1. /\ CallSound' /\ BuffersSound' /\ kind' = kind /\ kind' \in KINDS
      /\ path' = path /\ path' \in Paths /\ (kind' = "block" => path' = "single")
      /\ pc' \in 0..Len(ListOf(kind')) + 1 /\ DOMAIN buf' = Paths
      /\ len' = len /\ caps' = caps
  BY <1>b, StagePassed
<1>2. DOMAIN conv = All
  BY <1>a DEF Shapes
<1>3. Shapes'
  <2>1. DOMAIN conv' = All
    BY <1>b, <1>2
  <2> QED BY <1>a, <1>b, <1>1, <2>1 DEF Shapes, All
<1>4. kind = "linear" /\ pc = 7
  BY <1>a, <1>b, StateStages
<1>5. ASSUME NEW s \in All
      PROVE  conv'[s] = ConvBefore(s, Held(s, 7)') /\ rec'[s] = RecState(s)[Held(s, 10)']
  <2>1. /\ Held(s, 7)' = IF InCall(s) THEN len[s] + 1 ELSE len[s]
        /\ Held(s, 7) = len[s] /\ len[s] \in Nat /\ Held(s, 10)' = Held(s, 10)
    BY <1>a, <1>b, <1>4, HeldNext
  <2>2. conv[s] = ConvBefore(s, len[s]) /\ rec[s] = RecState(s)[Held(s, 10)]
    BY <1>a, <1>4, <2>1 DEF StateSound
  <2>3. CASE ~InCall(s)
    BY <1>b, <1>2, <2>1, <2>2, <2>3
  <2>4. CASE InCall(s)
    <3>1. /\ Args(RowOf(s)) = Fed(kind, Stages[pc], s, len[s])
          /\ Stateful(kind, pc, Stages[pc], s, len[s])
      BY <1>b, <2>4, ArgsOf
    <3>2. Args(RowOf(s))[1] = Mixed(s, len[s])
      BY <1>b, <3>1 DEF Stateful, Op
    <3>3. conv'[s] = Append(Tail(ConvBefore(s, len[s])), Mixed(s, len[s]))
      BY <1>b, <1>2, <2>2, <2>4, <3>2
    <3>4. conv'[s] = ConvBefore(s, len[s] + 1)
      BY <2>1, <3>3, Shifted
    <3> QED BY <1>b, <2>1, <2>2, <2>4, <3>4
  <2> QED BY <2>3, <2>4
<1>6. StateSound'
  BY <1>1, <1>4, <1>5 DEF StateSound, All
<1> QED BY <1>1, <1>3, <1>6 DEF LayersInv

(* Each row's own recurrent state.                                         *)
LEMMA UpdateRecKeeps ==
  ASSUME LayersInv, UpdateRec
  PROVE  LayersInv'
PROOF
<1>a. Shapes /\ StateSound
  BY DEF LayersInv
<1>b. /\ pc \in 1..Len(Stages) /\ Op = "delta_rule" /\ buf' = Outputs /\ NextStage
      /\ cells' = cells /\ conv' = conv
      /\ rec' = [s \in DOMAIN rec |->
                   IF InCall(s) THEN <<"state", Args(RowOf(s)), rec[s]>> ELSE rec[s]]
  BY DEF UpdateRec
<1>1. /\ CallSound' /\ BuffersSound' /\ kind' = kind /\ kind' \in KINDS
      /\ path' = path /\ path' \in Paths /\ (kind' = "block" => path' = "single")
      /\ pc' \in 0..Len(ListOf(kind')) + 1 /\ DOMAIN buf' = Paths
      /\ len' = len /\ caps' = caps
  BY <1>b, StagePassed
<1>2. DOMAIN rec = All
  BY <1>a DEF Shapes
<1>3. Shapes'
  <2>1. DOMAIN rec' = All
    BY <1>b, <1>2
  <2> QED BY <1>a, <1>b, <1>1, <2>1 DEF Shapes, All
<1>4. kind = "linear" /\ pc = 10
  BY <1>a, <1>b, StateStages
<1>5. ASSUME NEW s \in All
      PROVE  conv'[s] = ConvBefore(s, Held(s, 7)') /\ rec'[s] = RecState(s)[Held(s, 10)']
  <2>1. /\ Held(s, 10)' = IF InCall(s) THEN len[s] + 1 ELSE len[s]
        /\ Held(s, 10) = len[s] /\ len[s] \in Nat /\ Held(s, 7)' = Held(s, 7)
    BY <1>a, <1>b, <1>4, HeldNext
  <2>2. rec[s] = RecState(s)[len[s]] /\ conv[s] = ConvBefore(s, Held(s, 7))
    BY <1>a, <1>4, <2>1 DEF StateSound
  <2>3. CASE ~InCall(s)
    BY <1>b, <1>2, <2>1, <2>2, <2>3
  <2>4. CASE InCall(s)
    <3>1. /\ Args(RowOf(s)) = Fed(kind, Stages[pc], s, len[s])
          /\ Stateful(kind, pc, Stages[pc], s, len[s]) /\ len[s] \in 0..MaxLen - 1
      BY <1>b, <2>4, ArgsOf
    <3>2. Args(RowOf(s)) = DeltaArgs(s, len[s])
      BY <1>b, <3>1 DEF Stateful, Op
    <3>3. rec'[s] = <<"state", DeltaArgs(s, len[s]), RecState(s)[len[s]]>>
      BY <1>b, <1>2, <2>2, <2>4, <3>2
    <3>4. len[s] + 1 \in 1..MaxLen /\ len[s] + 1 - 1 = len[s]
      BY <3>1, DecoderLayersAssumption
    <3>5. RecState(s)[len[s] + 1] = <<"state", DeltaArgs(s, len[s]), RecState(s)[len[s]]>>
      <4>1. PICK q \in 1..MaxLen : q = len[s] + 1
        BY <3>4
      <4>2. RecState(s)[q] = <<"state", DeltaArgs(s, q - 1), RecState(s)[q - 1]>>
        BY RecStates
      <4>3. q - 1 = len[s]
        BY <2>1, <4>1
      <4> QED BY <4>1, <4>2, <4>3
    <3> QED BY <1>b, <2>1, <2>2, <2>4, <3>3, <3>5
  <2> QED BY <2>3, <2>4
<1>6. StateSound'
  BY <1>1, <1>4, <1>5 DEF StateSound, All
<1> QED BY <1>1, <1>3, <1>6 DEF LayersInv

(* No call: the rows and the buffers say nothing.                          *)
LEMMA Idle ==
  ASSUME pc' = 0
  PROVE  CallSound' /\ BuffersSound'
PROOF
<1> QED BY DEF CallSound, BuffersSound

(* The lengths catch up with the states.                                   *)
LEMMA ReturnKeeps ==
  ASSUME LayersInv, Return
  PROVE  LayersInv'
PROOF
<1>a. Shapes /\ CallSound /\ StateSound
  BY DEF LayersInv
<1>b. /\ pc = Len(Stages) + 1 /\ pc' = 0
      /\ len' = [s \in DOMAIN len |-> len[s] + IF InCall(s) THEN 1 ELSE 0]
      /\ kind' = kind /\ path' = path /\ buf' = buf /\ caps' = caps /\ cells' = cells
      /\ conv' = conv /\ rec' = rec
  BY DEF Return
<1>c. /\ kind \in KINDS /\ path \in Paths /\ (kind = "block" => path = "single")
      /\ DOMAIN buf = Paths /\ len \in [All -> 0..MaxLen]
  BY <1>a DEF Shapes
<1>1. pc > 11 /\ pc \in Nat
  <2>1. Stages = ListOf(kind)
    BY <1>c, StagesAre
  <2>2. PICK n \in 12..20 : n = Len(ListOf(kind))
    BY <1>c, AllStagesSound, 0 \in Nat
  <2>3. pc = n + 1
    BY <1>b, <2>1, <2>2
  <2> QED BY <2>3
<1>2. ASSUME NEW s \in All
      PROVE  /\ len'[s] = len[s] + IF InCall(s) THEN 1 ELSE 0
             /\ len'[s] \in 0..MaxLen
             /\ \A k \in 0..11 : Held(s, k) = len'[s] /\ Held(s, k)' = len'[s]
  <2>1. len'[s] = len[s] + IF InCall(s) THEN 1 ELSE 0
    BY <1>b, <1>c
  <2>2. MaxLen \in Nat /\ len[s] \in 0..MaxLen
    BY <1>c, DecoderLayersAssumption
  <2>3. InCall(s) => len[s] \in 0..MaxLen - 1
    <3>1. SUFFICES ASSUME NEW r \in DOMAIN rows, rows[r].seq = s
                   PROVE  len[s] \in 0..MaxLen - 1
      BY DEF InCall
    <3>2. pc > 0
      BY <1>1
    <3> QED BY <1>a, <3>1, <3>2, RowFacts
  <2>4. len'[s] \in 0..MaxLen
    BY <2>1, <2>2, <2>3
  <2>5. ASSUME NEW k \in 0..11
        PROVE  Held(s, k) = len'[s] /\ Held(s, k)' = len'[s]
    <3>1. pc > k /\ ~(0 > k)
      BY <1>1
    <3>2. Held(s, k) = len'[s]
      BY <2>1, <3>1 DEF Held
    <3>3. Held(s, k)' = len'[s]
      BY <1>b, <2>4, <3>1 DEF Held
    <3> QED BY <3>2, <3>3
  <2> QED BY <2>1, <2>4, <2>5
<1>3. Shapes'
  <2>1. len' \in [All -> 0..MaxLen]
    BY <1>b, <1>c, <1>2
  <2>2. pc' \in 0..Len(ListOf(kind)) + 1
    <3>1. Len(ListOf(kind)) \in 12..20
      BY <1>c, AllStagesSound, 0 \in Nat
    <3> QED BY <1>b, <3>1
  <2> QED BY <1>a, <1>b, <2>1, <2>2 DEF Shapes, All
<1>4. StateSound'
  <2>1. KvStage(kind)' = KvStage(kind) /\ KvStage(kind) \in 0..11
    BY <1>b DEF KvStage
  <2>2. ASSUME NEW s \in All
        PROVE  /\ Held(s, 7)' = Held(s, 7) /\ Held(s, 10)' = Held(s, 10)
               /\ Held(s, KvStage(kind))' = Held(s, KvStage(kind))
    <3>1. PICK k \in 0..11 : k = KvStage(kind) /\ k = KvStage(kind)'
      BY <2>1
    <3>2. Held(s, KvStage(kind))' = Held(s, k)'
      BY <3>1 DEF Held
    <3> QED BY <1>2, <3>1, <3>2
  <2> QED BY <1>a, <1>b, <2>2 DEF StateSound, All
<1> QED BY <1>b, <1>3, <1>4, Idle DEF LayersInv

(* The state of a fresh sequence.                                          *)
LEMMA Fresh ==
  ASSUME NEW s
  PROVE  ConvBefore(s, 0) = <<Zero, Zero, Zero>> /\ RecState(s)[0] = Zero
PROOF
<1>1. Mixed(s, 0 - 3) = Zero /\ Mixed(s, 0 - 2) = Zero /\ Mixed(s, 0 - 1) = Zero
  BY DEF Mixed
<1> QED BY <1>1, RecStates DEF ConvBefore

(* Between calls a sequence holds its own tokens.                          *)
LEMMA HeldIdle ==
  ASSUME pc = 0, NEW s \in All, len[s] \in Nat, NEW k \in Nat
  PROVE  Held(s, k) = len[s]
PROOF
<1> QED BY DEF Held

(* A reset sequence holds no tokens.                                       *)
LEMMA ResetStateKeeps ==
  ASSUME LayersInv, ResetState
  PROVE  LayersInv'
PROOF
<1>a. Shapes /\ StateSound
  BY DEF LayersInv
<1>b. /\ pc = 0 /\ pc' = pc /\ kind' = kind /\ path' = path /\ buf' = buf /\ caps' = caps
      /\ cells' = [cells EXCEPT ![0] = [p \in 0..MaxLen - 1 |-> <<Zero, Zero>>]]
      /\ conv' = [conv EXCEPT ![0] = <<Zero, Zero, Zero>>]
      /\ rec' = [rec EXCEPT ![0] = Zero]
      /\ len' = [len EXCEPT ![0] = 0]
  BY DEF ResetState
<1>c. /\ kind \in KINDS /\ DOMAIN cells = All /\ DOMAIN conv = All /\ DOMAIN rec = All
      /\ len \in [All -> 0..MaxLen] /\ \A s \in All : DOMAIN cells[s] = 0..MaxLen - 1
  BY <1>a DEF Shapes
<1>d. 0 \in All /\ MaxLen \in Nat
  BY DecoderLayersAssumption DEF All
<1>1. Shapes'
  <2>1. len' \in [All -> 0..MaxLen]
    BY <1>b, <1>c, <1>d
  <2>2. DOMAIN cells' = All /\ DOMAIN conv' = All /\ DOMAIN rec' = All
    BY <1>b, <1>c
  <2>3. \A s \in All : DOMAIN cells'[s] = 0..MaxLen - 1
    BY <1>b, <1>c
  <2> QED BY <1>a, <1>b, <2>1, <2>2, <2>3 DEF Shapes, All
<1>2. ASSUME NEW s \in All, NEW k \in Nat
      PROVE  /\ Held(s, k)' = IF s = 0 THEN 0 ELSE len[s]
             /\ Held(s, k) = len[s]
  <2>1. len[s] \in Nat
    BY <1>c, <1>d
  <2>2. len'[s] = IF s = 0 THEN 0 ELSE len[s]
    BY <1>b, <1>c
  <2> QED BY <1>b, <2>1, <2>2 DEF Held
<1>3. StateSound'
  <2>1. PICK k \in Nat : k = KvStage(kind) /\ k = KvStage(kind)'
    BY <1>b DEF KvStage
  <2>2. ASSUME NEW s \in All
        PROVE  IF kind = "linear"
               THEN /\ conv'[s] = ConvBefore(s, Held(s, 7)')
                    /\ rec'[s] = RecState(s)[Held(s, 10)']
               ELSE \A i \in 0..Held(s, k)' - 1 : cells'[s][i] = CellOf(kind, s, i)
    <3>1. CASE s = 0
      <4>1. conv'[s] = <<Zero, Zero, Zero>> /\ rec'[s] = Zero
        BY <1>b, <1>c, <3>1
      <4>2. Held(s, 7)' = 0 /\ Held(s, 10)' = 0 /\ Held(s, k)' = 0
        BY <1>2, <3>1
      <4> QED BY <4>1, <4>2, Fresh
    <3>2. CASE s # 0
      <4>1. conv'[s] = conv[s] /\ rec'[s] = rec[s] /\ cells'[s] = cells[s]
        BY <1>b, <1>c, <3>2
      <4>2. /\ Held(s, 7)' = Held(s, 7) /\ Held(s, 10)' = Held(s, 10)
            /\ Held(s, k)' = Held(s, k)
        BY <1>2, <3>2
      <4> QED BY <1>a, <2>1, <4>1, <4>2 DEF StateSound
    <3> QED BY <3>1, <3>2
  <2> QED BY <1>b, <2>1, <2>2 DEF StateSound, All
<1> QED BY <1>b, <1>1, <1>3, Idle DEF LayersInv

(* The largest of finitely many numbers is one of them, and above all.     *)
LEMMA MaxOf ==
  ASSUME NEW S \in SUBSET Nat, IsFiniteSet(S), S # {}
  PROVE  Max(S) \in S /\ \A j \in S : j <= Max(S)
PROOF
<1>1. \E i \in S : \A j \in S : i >= j
  BY LargestNat
<1>2. Max(S) \in S /\ \A j \in S : Max(S) >= j
  BY <1>1 DEF Max
<1>3. \A j \in S : j \in Nat /\ Max(S) \in Nat
  BY <1>2
<1> QED BY <1>2, <1>3

(* The same for two.                                                       *)
LEMMA MaxOfTwo ==
  ASSUME NEW a \in Nat, NEW b \in Nat
  PROVE  Max({a, b}) \in Nat /\ a <= Max({a, b}) /\ b <= Max({a, b})
PROOF
<1>1. PICK S : S = {a, b}
  OBVIOUS
<1>2. IsFiniteSet(S)
  <2>1. IsFiniteSet({b})
    BY FS_Singleton
  <2> QED BY <1>1, <2>1, FS_AddElement
<1>3. S \in SUBSET Nat /\ S # {}
  BY <1>1
<1>4. Max(S) \in S /\ \A j \in S : j <= Max(S)
  BY <1>2, <1>3, MaxOf
<1> QED BY <1>1, <1>4

(* A call begins: no stage has run, and the states are what they were.     *)
LEMMA BegunSound ==
  ASSUME LayersInv, pc = 0, pc' = 1, kind' = kind, path' \in Paths,
         kind = "block" => path' = "single", DOMAIN buf' = Paths,
         cells' = cells, conv' = conv, rec' = rec, len' = len,
         caps' \in [rows : Nat, t_max : Nat], CallSound'
  PROVE  LayersInv'
PROOF
<1>a. Shapes /\ StateSound
  BY DEF LayersInv
<1>b. kind \in KINDS /\ len \in [All -> 0..MaxLen] /\ MaxLen \in Nat
  BY <1>a, DecoderLayersAssumption DEF Shapes
<1>1. Shapes'
  <2>1. pc' \in 0..Len(ListOf(kind')) + 1
    <3>1. PICK n \in 12..20 : n = Len(ListOf(kind))
      BY <1>b, AllStagesSound, 0 \in Nat
    <3>2. 1 \in 0..n + 1
      OBVIOUS
    <3> QED BY <3>1, <3>2
  <2> QED BY <1>a, <1>b, <2>1 DEF Shapes, All
<1>2. BuffersSound'
  <2>1. Names' = Names
    BY DEF Names, Width
  <2>2. ASSUME NEW n \in Names
        PROVE  ~(OrderOf(kind, n) < 1)
    <3>1. PICK o : o = OrderOf(kind, n)
      OBVIOUS
    <3>2. o \in 1..99
      BY <1>b, <3>1, OrdersSound
    <3>3. ~(o < 1)
      BY <3>2
    <3> QED BY <3>1, <3>3
  <2> QED BY <2>1, <2>2 DEF BuffersSound
<1>3. StateSound'
  <2>1. PICK k \in 1..11 : k = KvStage(kind) /\ k = KvStage(kind)'
    BY DEF KvStage
  <2>2. ASSUME NEW s \in All, NEW j \in 1..11
        PROVE  Held(s, j)' = Held(s, j)
    <3>1. ~(1 > j) /\ ~(0 > j) /\ len[s] \in Nat
      BY <1>b
    <3> QED BY <3>1 DEF Held
  <2>3. ASSUME NEW s \in All
        PROVE  /\ Held(s, 7)' = Held(s, 7) /\ Held(s, 10)' = Held(s, 10)
               /\ Held(s, k)' = Held(s, k)
    BY <2>2
  <2> QED BY <1>a, <2>1, <2>3 DEF StateSound, All
<1> QED BY <1>1, <1>2, <1>3 DEF LayersInv

(* One row.                                                                *)
LEMMA BeginSingleKeeps ==
  ASSUME LayersInv, BeginSingle
  PROVE  LayersInv'
PROOF
<1>a. Shapes
  BY DEF LayersInv
<1>b. /\ pc = 0 /\ path' = "single" /\ pc' = 1 /\ kind' = kind /\ buf' = buf /\ caps' = caps
      /\ cells' = cells /\ conv' = conv /\ rec' = rec /\ len' = len
  BY DEF BeginSingle
<1>1. PICK s \in All : len[s] < MaxLen /\ rows' = <<[seq |-> s, pos |-> len[s]]>>
  BY DEF BeginSingle, All
<1>2. len[s] \in 0..MaxLen - 1
  <2>1. len[s] \in 0..MaxLen /\ MaxLen \in Nat
    BY <1>a, DecoderLayersAssumption DEF Shapes
  <2> QED BY <1>1, <2>1
<1>3. CallSound'
  <2>1. MaxRows' = MaxRows /\ 1 \in 1..MaxRows
    BY RowsBounded DEF MaxRows
  <2>2. All' = All
    BY DEF All
  <2>3. /\ Len(rows') = 1 /\ DOMAIN rows' = {1} /\ rows'[1] = [seq |-> s, pos |-> len[s]]
        /\ rows' \in Seq([seq : All, pos : 0..MaxLen - 1])
    BY <1>1, <1>2
  <2>4. \A r \in DOMAIN rows' : rows'[r].pos = len'[rows'[r].seq]
    BY <1>b, <2>3
  <2>5. \A r, t \in DOMAIN rows' : rows'[r].seq = rows'[t].seq => r = t
    BY <2>3
  <2> QED BY <1>b, <2>1, <2>2, <2>3, <2>4, <2>5 DEF CallSound
<1>4. DOMAIN buf' = Paths /\ path' \in Paths /\ caps' \in [rows : Nat, t_max : Nat]
  BY <1>a, <1>b DEF Shapes, Paths
<1> QED BY <1>b, <1>3, <1>4, BegunSound

(* What grow_batch leaves allocated.                                       *)
LEMMA GrownSound ==
  ASSUME caps \in [rows : Nat, t_max : Nat], NEW b \in Nat, NEW t \in Nat
  PROVE  /\ GrownTo(b, t) \in [rows : Nat, t_max : Nat] /\ b <= GrownTo(b, t).rows
         /\ kind # "linear" => t <= GrownTo(b, t).t_max
PROOF
<1>1. caps.rows \in Nat /\ caps.t_max \in Nat
  OBVIOUS
<1>2. CASE kind = "linear"
  <2>1. GrownTo(b, t) = [rows |-> IF b <= caps.rows THEN caps.rows ELSE b, t_max |-> 0]
    BY <1>2 DEF GrownTo
  <2> QED BY <1>1, <1>2, <2>1
<1>3. CASE kind # "linear"
  <2>1. PICK m, n : m = Max({caps.rows, b}) /\ n = Max({caps.t_max, t})
    OBVIOUS
  <2>2. m \in Nat /\ b <= m /\ n \in Nat /\ t <= n
    BY <1>1, <2>1, MaxOfTwo
  <2>3. GrownTo(b, t) = [rows |-> m, t_max |-> n]
    BY <1>3, <2>1 DEF GrownTo
  <2> QED BY <2>2, <2>3
<1> QED BY <1>2, <1>3

(* Rows apart, in any order, in buffers grown for as many and as long.     *)
LEMMA BeginBatchKeeps ==
  ASSUME LayersInv, BeginBatch
  PROVE  LayersInv'
PROOF
<1>a. Shapes
  BY DEF LayersInv
<1>b. /\ pc = 0 /\ path' = "batch" /\ pc' = 1 /\ kind' = kind /\ kind # "block"
      /\ cells' = cells /\ conv' = conv /\ rec' = rec /\ len' = len
      /\ buf' = IF caps' = caps THEN buf
                ELSE [buf EXCEPT !["batch"] = [n \in Names |-> [r \in 1..MaxRows |-> Zero]]]
  BY DEF BeginBatch
<1>1. PICK q \in SeqOf(Sequences, MaxRows) \ {<<>>} :
        /\ IsInjective(q) /\ \A r \in DOMAIN q : len[q[r]] < MaxLen
        /\ rows' = [r \in DOMAIN q |-> [seq |-> q[r], pos |-> len[q[r]]]]
        /\ caps' = GrownTo(Len(q), Max({1} \cup {len[q[r]] + 1 : r \in DOMAIN q}))
  BY DEF BeginBatch
<1>2. PICK m \in 1..MaxRows : q \in [1..m -> Sequences]
  <2>1. PICK m \in 0..MaxRows : q \in [1..m -> Sequences]
    BY <1>1 DEF SeqOf
  <2>2. m # 0
    <3>1. CASE m = 0
      <4>1. q \in Seq(Sequences) /\ Len(q) = 0
        BY <2>1, <3>1
      <4> QED BY <1>1, <4>1
    <3> QED BY <3>1
  <2> QED BY <2>1, <2>2, RowsBounded
<1>3. \A r \in 1..m : q[r] \in All /\ len[q[r]] \in 0..MaxLen - 1
  <2>1. len \in [All -> 0..MaxLen] /\ MaxLen \in Nat /\ DOMAIN q = 1..m
    BY <1>a, <1>2, DecoderLayersAssumption DEF Shapes
  <2>2. ASSUME NEW r \in 1..m PROVE q[r] \in All /\ len[q[r]] \in 0..MaxLen - 1
    <3>1. q[r] \in All
      BY <1>2 DEF All
    <3>2. len[q[r]] \in 0..MaxLen /\ len[q[r]] < MaxLen
      BY <1>1, <2>1, <3>1
    <3> QED BY <2>1, <3>1, <3>2
  <2> QED BY <2>2
<1>4. /\ DOMAIN q = 1..m /\ Len(q) = m /\ m \in Nat /\ DOMAIN rows' = 1..m
      /\ \A r \in 1..m : rows'[r] = [seq |-> q[r], pos |-> len[q[r]]]
  <2>1. m \in Nat /\ DOMAIN q = 1..m /\ q \in Seq(Sequences)
    BY <1>2, RowsBounded
  <2> QED BY <1>1, <1>2, <2>1
<1>5. rows' \in Seq([seq : All, pos : 0..MaxLen - 1]) /\ Len(rows') = m
  <2>1. PICK R : R = [seq : All, pos : 0..MaxLen - 1]
    OBVIOUS
  <2>2. \A r \in 1..m : rows'[r] \in R
    BY <1>3, <1>4, <2>1
  <2>3. rows' \in [1..m -> R]
    BY <1>1, <1>4, <2>2
  <2>4. rows' \in Seq(R)
    BY <1>4, <2>3
  <2>5. Len(rows') = m
    BY <1>4, <2>4
  <2> QED BY <2>1, <2>4, <2>5
<1>6. PICK T : T = {1} \cup {len[q[r]] + 1 : r \in DOMAIN q}
  OBVIOUS
<1>7. Max(T) \in Nat
  <2>1. T \in SUBSET Nat /\ T # {}
    BY <1>3, <1>4, <1>6, DecoderLayersAssumption
  <2>2. IsFiniteSet(T)
    <3>1. PICK N : N = 0..MaxLen
      OBVIOUS
    <3>2. IsFiniteSet(N)
      <4>1. 0 \in Int /\ MaxLen \in Int
        BY DecoderLayersAssumption
      <4> QED BY <3>1, <4>1, FS_Interval
    <3>3. T \subseteq N
      BY <1>3, <1>4, <1>6, <3>1, DecoderLayersAssumption
    <3> QED BY <3>2, <3>3, FS_Subset
  <2> QED BY <2>1, <2>2, MaxOf
<1>8. /\ caps' \in [rows : Nat, t_max : Nat] /\ m <= caps'.rows
      /\ kind # "linear" => Max(T) <= caps'.t_max
  <2>1. caps \in [rows : Nat, t_max : Nat]
    BY <1>a DEF Shapes
  <2>2. caps' = GrownTo(m, Max(T))
    BY <1>1, <1>4, <1>6
  <2> QED BY <1>4, <1>7, <2>1, <2>2, GrownSound
<1>9. t_max' = Max(T)
  <2>1. {1} \cup {rows'[r].pos + 1 : r \in DOMAIN rows'} = T
    BY <1>4, <1>6
  <2> QED BY <2>1 DEF t_max
<1>10. CallSound'
  <2>1. MaxRows' = MaxRows /\ All' = All
    BY DEF MaxRows, All
  <2>2. \A r \in DOMAIN rows' : rows'[r].pos = len'[rows'[r].seq]
    BY <1>b, <1>4
  <2>3. \A r, t \in DOMAIN rows' : rows'[r].seq = rows'[t].seq => r = t
    BY <1>1, <1>4 DEF IsInjective
  <2>4. path' # "single" /\ (kind' = "full" => kind # "linear")
    BY <1>b
  <2> QED BY <1>2, <1>5, <1>8, <1>9, <2>1, <2>2, <2>3, <2>4 DEF CallSound
<1>11. DOMAIN buf' = Paths /\ path' \in Paths
  BY <1>a, <1>b DEF Shapes, Paths
<1> QED BY <1>b, <1>8, <1>10, <1>11, BegunSound

(* Nothing has been computed.                                              *)
LEMMA InitSound ==
  ASSUME LayersInit
  PROVE  LayersInv
PROOF
<1>a. /\ kind \in KINDS /\ pc = 0 /\ path = "single" /\ MaxLen \in Nat
      /\ buf = [p \in Paths |-> [n \in Names |-> [r \in 1..MaxRows |-> Zero]]]
      /\ caps = [rows |-> 0, t_max |-> 0]
      /\ cells = [s \in All |-> [p \in 0..MaxLen - 1 |-> <<Zero, Zero>>]]
      /\ conv = [s \in All |-> <<Zero, Zero, Zero>>] /\ rec = [s \in All |-> Zero]
      /\ len = [s \in All |-> 0]
  BY DecoderLayersAssumption DEF LayersInit, KINDS, All
<1>1. Shapes
  <2>1. 0 \in 0..Len(ListOf(kind)) + 1
    <3>1. PICK n \in 12..20 : n = Len(ListOf(kind))
      BY <1>a, AllStagesSound, 0 \in Nat
    <3>2. 0 \in 0..n + 1
      OBVIOUS
    <3> QED BY <3>1, <3>2
  <2>2. len \in [All -> 0..MaxLen]
    BY <1>a
  <2>3. /\ DOMAIN buf = Paths /\ path \in Paths /\ caps \in [rows : Nat, t_max : Nat]
        /\ DOMAIN conv = All /\ DOMAIN rec = All
    BY <1>a DEF Paths
  <2>4. DOMAIN cells = All /\ \A s \in All : DOMAIN cells[s] = 0..MaxLen - 1
    BY <1>a
  <2> QED BY <1>a, <2>1, <2>2, <2>3, <2>4 DEF Shapes
<1>2. CallSound /\ BuffersSound
  BY <1>a DEF CallSound, BuffersSound
<1>3. StateSound
  <2>1. PICK k \in Nat : k = KvStage(kind)
    BY DEF KvStage
  <2>2. ASSUME NEW s \in All
        PROVE  IF kind = "linear"
               THEN conv[s] = ConvBefore(s, Held(s, 7)) /\ rec[s] = RecState(s)[Held(s, 10)]
               ELSE \A i \in 0..Held(s, k) - 1 : cells[s][i] = CellOf(kind, s, i)
    <3>1. Held(s, 7) = 0 /\ Held(s, 10) = 0 /\ Held(s, k) = 0
      BY <1>a, HeldIdle
    <3>2. conv[s] = <<Zero, Zero, Zero>> /\ rec[s] = Zero
      BY <1>a
    <3> QED BY <3>1, <3>2, Fresh
  <2> QED BY <2>1, <2>2 DEF StateSound
<1> QED BY <1>1, <1>2, <1>3 DEF LayersInv

(* No step leaves the invariant.                                           *)
LEMMA StepSound ==
  ASSUME LayersInv, [LayersNext]_layerVars
  PROVE  LayersInv'
PROOF
<1>1. CASE UNCHANGED layerVars
  <2>1. /\ kind' = kind /\ pc' = pc /\ path' = path /\ rows' = rows /\ buf' = buf
        /\ caps' = caps /\ cells' = cells /\ conv' = conv /\ rec' = rec /\ len' = len
    BY <1>1 DEF layerVars
  <2>2. Shapes'
    BY <2>1 DEF LayersInv, Shapes, All
  <2>3. CallSound'
    <3>1. t_max' = t_max
      BY <2>1 DEF t_max
    <3> QED BY <2>1, <3>1 DEF LayersInv, CallSound, All, MaxRows
  <2>4. BuffersSound'
    <3>1. Names' = Names
      BY DEF Names, Width
    <3> QED BY <2>1, <3>1 DEF LayersInv, BuffersSound
  <2>5. StateSound'
    <3>1. PICK k : k = KvStage(kind) /\ k = KvStage(kind)'
      BY <2>1 DEF KvStage
    <3>2. \A s : InCall(s)' <=> InCall(s)
      BY <2>1 DEF InCall
    <3>3. ASSUME NEW s \in All
          PROVE  /\ Held(s, 7)' = Held(s, 7) /\ Held(s, 10)' = Held(s, 10)
                 /\ Held(s, k)' = Held(s, k)
      BY <2>1, <3>2 DEF Held
    <3> QED BY <2>1, <3>1, <3>3 DEF LayersInv, StateSound, All
  <2> QED BY <2>2, <2>3, <2>4, <2>5 DEF LayersInv
<1> QED BY <1>1, BeginSingleKeeps, BeginBatchKeeps, LaunchKeeps, WriteKvKeeps,
           ShiftConvKeeps, UpdateRecKeeps, ReturnKeeps, ResetStateKeeps DEF LayersNext

--------------------------------------------------------------------------------
(* What the invariant says at the end of a call, and between calls.        *)

(* When all stages are done the last buffer holds the layer's function.    *)
LEMMA OutputsOwn ==
  ASSUME LayersInv
  PROVE  OutputsAreOwn
PROOF
<1>a. Shapes /\ CallSound /\ BuffersSound /\ kind \in KINDS
  BY DEF LayersInv, Shapes
<1> SUFFICES ASSUME pc = Len(Stages) + 1, NEW r \in DOMAIN rows
             PROVE  buf[path]["final"][r] = Out(rows[r].seq, rows[r].pos)
  BY DEF OutputsAreOwn
<1>1. "final" \in Names
  BY NamesAre
<1>2. PICK o, n : o = OrderOf(kind, "final") /\ n = Len(Stages)
  OBVIOUS
<1>3. o \in 1..99 /\ o <= n /\ n \in 12..20
  <2>1. Stages = ListOf(kind)
    BY <1>a, StagesAre
  <2>2. Len(ListOf(kind)) \in 12..20
    BY <1>a, AllStagesSound, 0 \in Nat
  <2>3. o \in 1..99 /\ o <= Len(ListOf(kind))
    BY <1>a, <1>1, <1>2, OrdersSound
  <2> QED BY <1>2, <2>1, <2>2, <2>3
<1>4. pc > 0 /\ o < pc
  BY <1>2, <1>3
<1>5. buf[path]["final"][r] = TermOf(kind, "final", rows[r].seq, rows[r].pos)
  BY <1>a, <1>1, <1>2, <1>4 DEF BuffersSound
<1> QED BY <1>a, <1>5, FinalTerm

(* Between calls the states are those of the tokens.                       *)
LEMMA HistoryKept ==
  ASSUME LayersInv
  PROVE  StateIsHistory
PROOF
<1>a. Shapes /\ StateSound
  BY DEF LayersInv
<1> SUFFICES ASSUME pc = 0, kind = "linear", NEW s \in DOMAIN len
             PROVE  /\ rec[s] = RecState(s)[len[s]]
                    /\ conv[s] = [k \in 1..3 |->
                         IF len[s] - 4 + k < 0 THEN Zero
                         ELSE Proj("in_proj_qkv", Normed(s, len[s] - 4 + k))]
  BY DEF StateIsHistory
<1>1. s \in All /\ len[s] \in Nat
  BY <1>a, DecoderLayersAssumption DEF Shapes
<1>2. Held(s, 7) = len[s] /\ Held(s, 10) = len[s]
  BY <1>1, HeldIdle
<1>3. conv[s] = ConvBefore(s, len[s]) /\ rec[s] = RecState(s)[len[s]]
  BY <1>a, <1>1, <1>2 DEF StateSound
<1>4. PICK p \in Nat : p = len[s]
  BY <1>1
<1>5. ConvBefore(s, p) = [k \in 1..3 |-> Mixed(s, p - 4 + k)]
  <2>1. p - 4 + 1 = p - 3 /\ p - 4 + 2 = p - 2 /\ p - 4 + 3 = p - 1
    OBVIOUS
  <2>2. PICK a, b, c : a = Mixed(s, p - 3) /\ b = Mixed(s, p - 2) /\ c = Mixed(s, p - 1)
    OBVIOUS
  <2>3. PICK f : f = [k \in 1..3 |-> Mixed(s, p - 4 + k)]
    OBVIOUS
  <2>4. f[1] = a /\ f[2] = b /\ f[3] = c
    BY <2>1, <2>2, <2>3
  <2>5. PICK S : S = {a, b, c}
    OBVIOUS
  <2>6. f = <<a, b, c>>
    <3>1. f \in [1..3 -> S]
      <4>1. \A k \in 1..3 : f[k] \in S
        BY <2>4, <2>5
      <4> QED BY <2>3, <4>1
    <3>2. f \in Seq(S)
      <4>1. PICK n \in Nat : n = 3
        OBVIOUS
      <4>2. f \in [1..n -> S]
        BY <3>1, <4>1
      <4> QED BY <4>2
    <3>3. Len(f) = 3
      BY <3>1, <3>2
    <3>4. <<a, b, c>> \in Seq(S) /\ Len(<<a, b, c>>) = 3
      BY <2>5
    <3>5. \A k \in 1..3 : f[k] = <<a, b, c>>[k]
      BY <2>4
    <3> QED BY <3>2, <3>3, <3>4, <3>5, SeqEqual
  <2> QED BY <2>2, <2>3, <2>6 DEF ConvBefore
<1>6. \A k \in 1..3 : Mixed(s, p - 4 + k)
                        = IF p - 4 + k < 0 THEN Zero
                          ELSE Proj("in_proj_qkv", Normed(s, p - 4 + k))
  BY DEF Mixed
<1> QED BY <1>3, <1>4, <1>5, <1>6

(* The widths are numbers.                                                 *)
LEMMA WidthsAre ==
  ASSUME NEW n \in Names
  PROVE  Width[n] \in Nat
PROOF
<1>1. H \in Nat /\ I \in Nat /\ NV \in Nat
  BY DecoderLayersAssumption DEF H, I, NV
<1>2. QO \in Nat /\ KVO \in Nat /\ KEY \in Nat
  <2>1. /\ Dim.heads \in Nat /\ Dim.head_dim \in Nat /\ Dim.kv_heads \in Nat
        /\ Dim.lin_heads \in Nat /\ Dim.lin_head_dim \in Nat
    BY DecoderLayersAssumption
  <2>2. \A a, b \in Nat : a * b \in Nat
    OBVIOUS
  <2> QED BY <2>1, <2>2 DEF QO, KVO, KEY
<1>3. VALUE \in Nat /\ CONV \in Nat /\ 2 * QO \in Nat
  BY <1>2 DEF VALUE, CONV
<1>4. \A m \in Names : Width[m] \in {H, I, NV, QO, KVO, KEY, VALUE, CONV, 2 * QO}
  BY DEF Names, Width
<1> QED BY <1>1, <1>2, <1>3, <1>4

(* Products grow with their factors.                                       *)
LEMMA Scaled ==
  ASSUME NEW a \in Nat, NEW b \in Nat, a <= b, NEW w \in Nat
  PROVE  a * w <= b * w /\ w * a <= w * b
PROOF
<1>1. PICK d \in Nat : b = a + d
  <2>1. b - a \in Nat /\ b = a + (b - a)
    OBVIOUS
  <2> QED BY <2>1
<1>2. PICK e \in Nat : e = d * w
  OBVIOUS
<1>3. b * w = a * w + e /\ w * b = w * a + e
  BY <1>1, <1>2
<1>4. a * w \in Nat /\ w * a \in Nat
  OBVIOUS
<1> QED BY <1>2, <1>3, <1>4

(* The linear attention has no attention over cells.                       *)
LEMMA NoAttention ==
  \A k \in 1..18 : LinearStages[k].ops[1] # "attention"
PROOF
<1> QED BY DEF LinearStages, DeltaNetStages, MlpStages, One, Stage, AddNorm

(* The longest row of a call, in tokens.                                   *)
LEMMA TMaxNat ==
  ASSUME Shapes, CallSound, pc > 0
  PROVE  t_max \in Nat
PROOF
<1>1. PICK T : T = {1} \cup {rows[r].pos + 1 : r \in DOMAIN rows}
  OBVIOUS
<1>2. \A r \in DOMAIN rows : rows[r].pos \in 0..MaxLen - 1
  BY RowFacts
<1>3. PICK N : N = 0..MaxLen
  OBVIOUS
<1>4. IsFiniteSet(N)
  <2>1. 0 \in Int /\ MaxLen \in Int
    BY DecoderLayersAssumption
  <2> QED BY <1>3, <2>1, FS_Interval
<1>5. T \subseteq N /\ T # {}
  BY <1>1, <1>2, <1>3, DecoderLayersAssumption
<1>6. T \in SUBSET Nat /\ IsFiniteSet(T)
  <2>1. \A i \in N : i \in Nat
    BY <1>3, DecoderLayersAssumption
  <2> QED BY <1>4, <1>5, <2>1, FS_Subset
<1>7. Max(T) \in T
  BY <1>5, <1>6, MaxOf
<1> QED BY <1>1, <1>6, <1>7 DEF t_max

(* Every stage writes within what the call's buffers were allocated for.   *)
LEMMA WidthsKept ==
  ASSUME LayersInv
  PROVE  WidthsFit
PROOF
<1>a. Shapes /\ CallSound /\ kind \in KINDS /\ path \in Paths
  BY DEF LayersInv, Shapes
<1> SUFFICES ASSUME pc \in 1..Len(Stages)
             PROVE  /\ \A k \in DOMAIN Stages[pc].to :
                         Len(rows) * Stages[pc].widths[k] <= Allocated(Stages[pc].to[k])
                    /\ Op = "attention" => ScratchUsed <= ScratchAllocated
  BY DEF WidthsFit
<1>b. pc > 0
  BY <1>a DEF Shapes
<1>c. /\ Len(rows) \in Nat /\ caps.rows \in Nat /\ caps.t_max \in Nat
      /\ path = "single" => Len(rows) = 1
      /\ path = "batch" => Len(rows) <= caps.rows /\ (kind = "full" => t_max <= caps.t_max)
      /\ kind = "block" => path = "single"
  <2>1. MaxRows \in Nat /\ Len(rows) \in 1..MaxRows /\ caps \in [rows : Nat, t_max : Nat]
    BY <1>a, <1>b, RowsBounded DEF CallSound, Shapes
  <2> QED BY <1>a, <1>b, <2>1 DEF CallSound, Shapes
<1>1. ASSUME NEW k \in DOMAIN Stages[pc].to
      PROVE  Len(rows) * Stages[pc].widths[k] <= Allocated(Stages[pc].to[k])
  <2>1. Stages[pc].widths[k] = Width[Stages[pc].to[k]]
    <3>1. Sized(kind, Stages[pc])
      BY <1>a, StageNow, 0 \in Nat
    <3> QED BY <3>1 DEF Sized
  <2>2. Stages[pc].to[k] \in Names
    <3>1. StageSound(kind, pc, Stages[pc], 0, 0)
      BY <1>a, StageNow, 0 \in Nat
    <3> QED BY <3>1 DEF StageSound, InPlace
  <2>3. PICK w \in Nat : w = Width[Stages[pc].to[k]] /\ w = Stages[pc].widths[k]
    BY <2>1, <2>2, WidthsAre
  <2>4. CASE path = "single"
    <3>1. Allocated(Stages[pc].to[k]) = w
      BY <2>3, <2>4 DEF Allocated
    <3>2. 1 * w <= w /\ Len(rows) = 1
      BY <1>c, <2>4
    <3> QED BY <2>3, <3>1, <3>2
  <2>5. CASE path = "batch"
    <3>1. Allocated(Stages[pc].to[k]) = caps.rows * w
      BY <2>3, <2>5 DEF Allocated
    <3>2. Len(rows) * w <= caps.rows * w
      BY <1>c, <2>5, Scaled
    <3> QED BY <2>3, <3>1, <3>2
  <2> QED BY <1>a, <2>4, <2>5 DEF Paths
<1>2. ASSUME Op = "attention"
      PROVE  ScratchUsed <= ScratchAllocated
  <2>1. kind # "linear"
    <3>1. ASSUME kind = "linear" PROVE FALSE
      <4>1. Stages = LinearStages
        BY <1>a, <3>1, StagesAre, Zenon DEF ListOf
      <4>2. pc \in 1..18
        BY <4>1, LinearStagesSound, 0 \in Nat
      <4> QED BY <1>2, <4>1, <4>2, NoAttention DEF Op
    <3> QED BY <3>1
  <2>2. PICK w \in Nat : w = 2 * Dim.heads
    <3>1. Dim.heads \in Nat
      BY DecoderLayersAssumption
    <3> QED BY <3>1
  <2>3. CASE path = "single"
    <3>1. rows[1].pos \in 0..MaxLen - 1 /\ MaxLen \in Nat
      <4>1. pc > 0 /\ Shapes /\ CallSound
        BY <1>a, <1>b DEF LayersInv
      <4>2. 1 \in DOMAIN rows
        BY <4>1 DEF CallSound
      <4> QED BY <4>1, <4>2, RowFacts, DecoderLayersAssumption
    <3>2. PICK a \in Nat : a = rows[1].pos + 1 /\ a <= MaxLen
      BY <3>1
    <3>3. w * a <= w * MaxLen
      BY <3>1, <3>2, Scaled
    <3>4. ScratchUsed = w * a /\ ScratchAllocated = w * MaxLen
      BY <2>2, <2>3, <3>2 DEF ScratchUsed, ScratchAllocated
    <3> QED BY <3>3, <3>4
  <2>4. CASE path = "batch"
    <3>1. kind = "full"
      BY <1>a, <1>c, <2>1, <2>4 DEF KINDS
    <3>2. t_max \in Nat /\ t_max <= caps.t_max /\ Len(rows) <= caps.rows
      <4>1. t_max \in Nat
        BY <1>a, <1>b, TMaxNat
      <4> QED BY <1>c, <2>4, <3>1, <4>1
    <3>3. PICK a \in Nat, b \in Nat : a = Len(rows) * t_max /\ b = caps.rows * caps.t_max
      BY <1>c, <3>2
    <3>4. a <= b
      <4>1. Len(rows) * t_max <= caps.rows * t_max
        BY <1>c, <3>2, Scaled
      <4>2. caps.rows * t_max <= caps.rows * caps.t_max
        BY <1>c, <3>2, Scaled
      <4>3. caps.rows * t_max \in Nat
        BY <1>c, <3>2
      <4> QED BY <3>3, <4>1, <4>2, <4>3
    <3>5. w * a <= w * b
      BY <3>4, Scaled
    <3>6. ScratchUsed = w * a /\ ScratchAllocated = w * b
      BY <2>2, <2>4, <3>3 DEF ScratchUsed, ScratchAllocated
    <3> QED BY <3>5, <3>6
  <2> QED BY <1>a, <2>3, <2>4 DEF Paths
<1> QED BY <1>1, <1>2

--------------------------------------------------------------------------------
(* The theorems.                                                           *)

(* The invariant of the decoder layers: in every reachable state the       *)
(* buffers behind the call's stage hold the terms of its tokens, and every *)
(* state those of its sequence.                                            *)
THEOREM LayersInvariant == LayersSpec => []LayersInv
PROOF
<1> QED BY InitSound, StepSound, PTL DEF LayersSpec

(* Whatever calls came before, single or batched, of whichever sequences:  *)
(* the output of a row is the layer's function of its own sequence, and no *)
(* kernel writes past its buffers.                                         *)
THEOREM LayersRows == LayersSpec => []RowsAreTheirOwn
PROOF
<1>1. LayersInv => RowsAreTheirOwn
  BY OutputsOwn, WidthsKept DEF RowsAreTheirOwn
<1> QED BY <1>1, LayersInvariant, PTL

(* Between calls a sequence's recurrent state and that of its convolution  *)
(* are those of its own tokens, whichever forward took them.               *)
THEOREM LayersHistory == LayersSpec => []StateIsHistory
PROOF
<1> QED BY HistoryKept, LayersInvariant, PTL

================================================================================
