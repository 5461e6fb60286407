---------------------------- MODULE MCLayerWeights ----------------------------
(***************************************************************************)
(* The configs of run GroupSize: every width is a multiple of the group    *)
(* the kernels divide by, 4 for 128, and the file's own group is that or   *)
(* half of it.                                                             *)
(***************************************************************************)
EXTENDS LayerWeights

MCConfigs ==
  [hidden : {8}, heads : {1}, kv_heads : {1}, head_dim : {4}, inter : {8},
   group : {2, 4}, max_seq : {3}, lin_heads : {1}, lin_v_heads : {1},
   lin_head_dim : {4}, conv_kernel : {4}, mrope : {1}]

MCRotary == <<1, 2>>
=============================================================================
