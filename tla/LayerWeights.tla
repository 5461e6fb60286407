------------------------------ MODULE LayerWeights ------------------------------
(***************************************************************************)
(* From a loaded file to the weights of one layer on the device: the       *)
(* config is validated, the layer's tensors are checked against it, each   *)
(* is uploaded into a slot, and every linear gets its N and K.  Kinds of   *)
(* layer: "block" (BlockWeights, version 1), "full" and "linear"           *)
(* (Qwen35LayerWeights, version 2).                                        *)
(***************************************************************************)
EXTENDS Integers, Sequences, SequencesExt, FiniteSetsExt, Functions

CONSTANTS Configs,     \* configs of the files
          KernelGroup, \* the 128 the GEMV kernels divide K by
          Rotary       \* partial_rotary_factor as <<numerator, denominator>>

LayerWeightsAssumption ==
  KernelGroup \in Nat \ {0} /\ Rotary[1] \in Nat /\ Rotary[2] \in Nat \ {0}

Kinds == {"block", "full", "linear"}

VARIABLES
  kind, c,   \* the layer and its config
  file,      \* tensor name -> [dtype, dims]
  given,     \* the config the caller of BlockWeights::load expects
  pc,        \* "file", "upload", "fill", "ok", "error"
  bufs,      \* slot -> the tensor it holds
  views,     \* tensor name -> [slot, dims], out->q_proj.weight and so on
  linears    \* projection -> [N, K]
vars == <<kind, c, file, given, pc, bufs, views, linears>>

q_proj_out == IF kind = "block" THEN c.heads * c.head_dim ELSE 2 * c.heads * c.head_dim
kv_proj_out == c.kv_heads * c.head_dim
o_proj_in == c.heads * c.head_dim
linear_key_dim == c.lin_heads * c.lin_head_dim
linear_value_dim == c.lin_v_heads * c.lin_head_dim
linear_conv_dim == 2 * linear_key_dim + linear_value_dim
rotary_dim == (2 * c.head_dim * Rotary[1] + Rotary[2]) \div (2 * Rotary[2])

(* Mutant of Valid: the width that only out_proj reads is not checked.     *)
ValidNoValueDim ==
  LET ks == {c.hidden, o_proj_in, c.inter}
  IN  /\ c.group > 0
      /\ c.heads % c.kv_heads = 0
      /\ IF kind = "block" THEN c.head_dim % 2 = 0
         ELSE /\ c.lin_v_heads % c.lin_heads = 0
              /\ rotary_dim \in 1..c.head_dim /\ rotary_dim % 2 = 0
              /\ c.mrope = rotary_dim \div 2
      /\ \A k \in ks : k % c.group = 0

(* ModelConfig::valid and Qwen35Config::valid, for positive sizes.         *)
Valid ==
  LET ks == IF kind = "block" THEN {c.hidden, o_proj_in, c.inter}
            ELSE {c.hidden, o_proj_in, c.inter, linear_value_dim}
  IN  /\ c.group > 0
      /\ c.heads % c.kv_heads = 0
      /\ IF kind = "block" THEN c.head_dim % 2 = 0
         ELSE /\ c.lin_v_heads % c.lin_heads = 0
              /\ rotary_dim \in 1..c.head_dim /\ rotary_dim % 2 = 0
              /\ c.mrope = rotary_dim \div 2
      /\ \A k \in ks : k % c.group = 0

(* A weight and its scales: [N, K] packed two to a byte, one scale a group.*)
Pair(name, n, k, g) ==
  <<[name |-> name, of |-> "weight", dtype |-> "int4", dims |-> <<n, k \div 2>>],
    [name |-> name, of |-> "scale", dtype |-> "scale", dims |-> <<n, k \div g>>]>>
Plain(name, dtype, dims) == <<[name |-> name, of |-> "plain", dtype |-> dtype, dims |-> dims]>>

group == IF kind = "block" THEN KernelGroup ELSE c.group
norm == IF kind = "block" THEN "fp16" ELSE "bf16"

mlp == Pair("gate_proj", c.inter, c.hidden, group) \o Pair("up_proj", c.inter, c.hidden, group)
         \o Pair("down_proj", c.hidden, c.inter, group)

attention ==
  Pair("q_proj", q_proj_out, c.hidden, group) \o Pair("k_proj", kv_proj_out, c.hidden, group)
    \o Pair("v_proj", kv_proj_out, c.hidden, group) \o Pair("o_proj", c.hidden, o_proj_in, group)

delta_net ==
  Pair("in_proj_qkv", linear_conv_dim, c.hidden, group)
    \o Pair("in_proj_z", linear_value_dim, c.hidden, group)
    \o Pair("in_proj_b", c.lin_v_heads, c.hidden, group)
    \o Pair("in_proj_a", c.lin_v_heads, c.hidden, group)
    \o Pair("out_proj", c.hidden, linear_value_dim, group)

(* The tensors of a layer, with the checks of validate_block_tensors and   *)
(* validate_layer, in the order of their slots.                            *)
Expected ==
  Plain("input_layernorm", norm, <<c.hidden>>) \o Plain("post_layernorm", norm, <<c.hidden>>) \o
  (CASE kind = "block" ->
          Plain("rope_cos", "fp16", <<c.max_seq, c.head_dim \div 2>>)
            \o Plain("rope_sin", "fp16", <<c.max_seq, c.head_dim \div 2>>) \o attention
     [] kind = "full" ->
          Plain("q_norm", "bf16", <<c.head_dim>>) \o Plain("k_norm", "bf16", <<c.head_dim>>)
            \o attention
     [] kind = "linear" ->
          delta_net \o Plain("conv1d", "bf16", <<linear_conv_dim, 1, c.conv_kernel>>)
            \o Plain("dt_bias", "bf16", <<c.lin_v_heads>>)
            \o Plain("A_log", "fp32", <<c.lin_v_heads>>)
            \o Plain("norm", "fp32", <<c.lin_head_dim>>))
  \o mlp

Id(t) == <<t.name, t.of>>
Ids == {Id(t) : t \in Range(Expected)}

(* Where upload puts the k-th tensor: version 1 packs the slots, version 2 *)
(* starts the projections at 4 and the MLP at 18, of 24.                   *)
Slot(k) ==
  LET n == Len(Expected)
  IN  CASE kind = "block" -> k - 1
        [] kind # "block" /\ k > n - 6 -> 18 + (k - (n - 5))
        [] kind = "full" /\ k <= n - 6 -> k - 1
        [] kind = "linear" /\ k <= n - 6 -> IF k <= 2 THEN k - 1 ELSE k + 1

Slots == IF kind = "block" THEN 18 ELSE 24

NoViews == [i \in {} |-> 0]

(* The file written for the config.                                        *)
Whole == [i \in Ids |-> LET t == CHOOSE t \in Range(Expected) : Id(t) = i
                        IN  [dtype |-> t.dtype, dims |-> t.dims]]

(* That file, or with one tensor missing, of another type, transposed, or  *)
(* too long.                                                               *)
Files(whole) ==
  {whole}
  \cup {Restrict(whole, DOMAIN whole \ {i}) : i \in DOMAIN whole}
  \cup UNION {{[whole EXCEPT ![i].dtype = "other"], [whole EXCEPT ![i].dims = Reverse(@)],
               [whole EXCEPT ![i].dims[1] = @ + 1],
               [whole EXCEPT ![i].dims[Len(whole[i].dims)] = @ + 1],
               [whole EXCEPT ![i].dims = Append(@, 1)]} : i \in DOMAIN whole}

Init ==
  /\ kind \in Kinds /\ c \in Configs /\ Valid
  /\ \E whole \in {Whole} : file \in Files(whole)
  /\ given \in IF kind = "block" THEN {"none", "same", "another", "invalid"} ELSE {"none"}
  /\ pc = "file"
  /\ bufs = [s \in 0..Slots - 1 |-> "none"] /\ views = NoViews /\ linears = NoViews

(* expect_tensor of every tensor of the layer.                             *)
TensorsOk ==
  \A t \in Range(Expected) :
    Id(t) \in DOMAIN file /\ file[Id(t)] = [dtype |-> t.dtype, dims |-> t.dims]

(* The checks before the first upload; version 2 has none of the group.    *)
Validate ==
  /\ pc = "file"
  /\ pc' = IF /\ given # "another"
              /\ kind = "block" => c.group = KernelGroup
              /\ TensorsOk
           THEN "upload" ELSE "error"
  /\ UNCHANGED <<kind, c, file, given, bufs, views, linears>>

uploaded == Cardinality(DOMAIN views)

(* upload: a buffer of its own, and the view of it.                        *)
Upload ==
  /\ pc = "upload" /\ uploaded < Len(Expected)
  /\ LET t == Expected[uploaded + 1]
     IN  /\ bufs' = [bufs EXCEPT ![Slot(uploaded + 1)] = Id(t)]
         /\ views' = [i \in DOMAIN views \cup {Id(t)} |->
                        IF i = Id(t) THEN [slot |-> Slot(uploaded + 1), dims |-> file[i].dims]
                        ELSE views[i]]
  /\ pc' = IF uploaded + 1 = Len(Expected) THEN "fill" ELSE pc
  /\ UNCHANGED <<kind, c, file, given, linears>>

(* fill of every linear of the layer.                                      *)
Fill ==
  /\ pc = "fill"
  /\ linears' = [p \in {i[1] : i \in {i \in DOMAIN views : i[2] = "weight"}} |->
                   [N |-> views[<<p, "weight">>].dims[1],
                    K |-> 2 * views[<<p, "weight">>].dims[2]]]
  /\ pc' = "ok"
  /\ UNCHANGED <<kind, c, file, given, bufs, views>>

Next == Validate \/ Upload \/ Fill

Spec == Init /\ [][Next]_vars

--------------------------------------------------------------------------------
(* How the layers use the weights.                                         *)

(* The buffers a projection reads and writes, by their allocated elements  *)
(* in the constructors of the layers.                                      *)
Buffers == [p \in {"q_proj", "k_proj", "v_proj", "o_proj", "gate_proj", "up_proj", "down_proj",
                   "in_proj_qkv", "in_proj_z", "in_proj_b", "in_proj_a", "out_proj"} |->
  CASE p = "q_proj" -> <<c.hidden, IF kind = "block" THEN o_proj_in ELSE 2 * o_proj_in>>
    [] p \in {"k_proj", "v_proj"} -> <<c.hidden, kv_proj_out>>
    [] p = "o_proj" -> <<o_proj_in, c.hidden>>
    [] p \in {"gate_proj", "up_proj"} -> <<c.hidden, c.inter>>
    [] p = "down_proj" -> <<c.inter, c.hidden>>
    [] p = "in_proj_qkv" -> <<c.hidden, linear_conv_dim>>
    [] p = "in_proj_z" -> <<c.hidden, linear_value_dim>>
    [] p \in {"in_proj_b", "in_proj_a"} -> <<c.hidden, c.lin_v_heads>>
    [] p = "out_proj" -> <<linear_value_dim, c.hidden>>]

(* After a load every view of the layer shows the tensor of its own name,  *)
(* and no two share a buffer.                                              *)
ViewsOwnBuffers ==
  pc = "ok" =>
    /\ DOMAIN views = Ids
    /\ \A i \in Ids : bufs[views[i].slot] = i
    /\ \A i, j \in Ids : i # j => views[i].slot # views[j].slot

(* A projection reads as many elements as its input buffer has and writes  *)
(* as many rows as its output buffer has: no forward goes past either, for *)
(* every config that is valid.                                             *)
ProjectionsFit ==
  pc = "ok" => \A p \in DOMAIN linears :
    linears[p] = [N |-> Buffers[p][2], K |-> Buffers[p][1]]

(* The scale a GEMV kernel applies to element k of row n, at index         *)
(* n * (K / 128) + k / 128, is in row n of the scales, in the column of    *)
(* k's group: where the widths are whole groups, which only the config's   *)
(* four checks see to.  Said of files whose group is the kernels' 128;     *)
(* version 1 takes no other, version 2 does (ScaleOfEach128).              *)
ScalesOfTheirGroups ==
  pc = "ok" /\ (kind = "block" \/ c.group = KernelGroup) =>
    \A p \in DOMAIN linears :
      LET K == linears[p].K
          columns == views[<<p, "scale">>].dims[2]
      IN  \A n \in 0..linears[p].N - 1, k \in 0..K - 1 :
            LET at == n * (K \div KernelGroup) + k \div KernelGroup
            IN  at \div columns = n /\ at % columns = k \div c.group

(* A projection that is loaded has one scale for each 128 elements of a    *)
(* row: "scale;    // kFp16Scale   [N, K/128]" (weight_loader.h:60).       *)
ScaleOfEach128 ==
  pc = "ok" => \A p \in DOMAIN linears :
    views[<<p, "scale">>].dims = <<linears[p].N, linears[p].K \div KernelGroup>>
================================================================================
