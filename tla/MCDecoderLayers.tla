---------------------------- MODULE MCDecoderLayers ----------------------------
(* Sizes for the runs of DecoderLayers, all different.                     *)
EXTENDS DecoderLayers

MCDim == [hidden |-> 5, heads |-> 4, kv_heads |-> 2, head_dim |-> 3, inter |-> 7,
          lin_heads |-> 2, lin_head_dim |-> 4]
================================================================================
