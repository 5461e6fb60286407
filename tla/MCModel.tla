------------------------------- MODULE MCModel --------------------------------
(***************************************************************************)
(* The model, part by part: the forward over the state manager, the two    *)
(* file formats of its weights, how a layer binds a file's tensors, and    *)
(* what the layers compute.  A behaviour is of one part; the variables of  *)
(* the others stay as they are.                                            *)
(***************************************************************************)
EXTENDS ModelForward, DecoderLayers

VARIABLES
  part,                \* "forward", "table", "container", "weights", "layers"
  file, written, step, pos, tensors,    \* of WeightTable; file and step of all
  source, parsed, object, loads,        \* of WeightContainer
  layer, c, given, bufs, views, linears \* of LayerWeights

tableVars == <<written, tensors>>
containerVars == <<source, parsed, object, loads>>
weightVars == <<layer, c, given, bufs, views, linears>>
allVars == <<vars, part, file, step, pos, tableVars, containerVars, weightVars,
             layerVars>>

(* Sizes below, at and above one alignment unit, and a transpose.          *)
Table == INSTANCE WeightTable WITH
  Dims <- {<<16>>, <<2, 9>>, <<9, 2>>}, MaxTensors <- 3, MaxSeqLen <- 4,
  pc <- step

(* No metadata, an arch key, and an arch key and one with an empty value.  *)
MCMetadata == {<<>>, <<[key |-> "arch", klen |-> 4, vlen |-> 7]>>,
               <<[key |-> "arch", klen |-> 4, vlen |-> 7],
                 [key |-> "other", klen |-> 5, vlen |-> 0]>>}

Container == INSTANCE WeightContainer WITH
  Dims <- {<<5>>, <<2, 3, 4>>}, Metadata <- MCMetadata, MaxTensors <- 2,
  NameCharset <- {TRUE}, Loads <- 1, pc <- step

(* Query widths below, at and above the hidden size, grouped and ungrouped *)
(* heads, every width a multiple of the group, 4 for 128, and one that is  *)
(* not; and files with groups of 2.                                        *)
MCConfig == [hidden |-> 8, heads |-> 1, kv_heads |-> 1, head_dim |-> 4, inter |-> 12,
             group |-> 4, max_seq |-> 3, lin_heads |-> 1, lin_v_heads |-> 2,
             lin_head_dim |-> 4, conv_kernel |-> 4, mrope |-> 1]

MCConfigs ==
  {[MCConfig EXCEPT !.heads = h, !.kv_heads = k, !.head_dim = d]
   : h, k \in {1, 2}, d \in {4, 6}}
  \cup {[MCConfig EXCEPT !.lin_v_heads = v, !.lin_head_dim = d] : v \in {1, 2}, d \in {4, 6}}
  \cup {[MCConfig EXCEPT !.hidden = 6], [MCConfig EXCEPT !.inter = 6],
        [MCConfig EXCEPT !.group = 2], [MCConfig EXCEPT !.group = 2, !.hidden = 6]}

Weights == INSTANCE LayerWeights WITH
  Configs <- MCConfigs, KernelGroup <- 4, Rotary <- <<2, 5>>, kind <- layer, pc <- step

(* All sizes different.                                                    *)
MCDim == [hidden |-> 5, heads |-> 4, kv_heads |-> 2, head_dim |-> 3, inter |-> 7,
          lin_heads |-> 2, lin_head_dim |-> 4]

ASSUME PartsAssumption ==
  /\ Table!WeightTableAssumption /\ Container!WeightContainerAssumption
  /\ Weights!LayerWeightsAssumption

NoTable == written = <<>> /\ tensors = <<>>
NoContainer == source = <<>> /\ parsed = <<>> /\ object = <<>> /\ loads = 0
NoWeights == /\ c = <<>> /\ given = "none" /\ bufs = <<>> /\ views = <<>>
             /\ linears = <<>> /\ layer = "none"

MCInit ==
  /\ part \in {"forward", "table", "container", "weights", "layers"}
  /\ Init
  /\ LayersInit /\ (part # "layers" => kind = "block")
  /\ \/ part \in {"forward", "layers"} /\ NoTable /\ NoContainer /\ NoWeights
          /\ file = 0 /\ step = 0 /\ pos = 0
     \/ part = "table" /\ Table!Init /\ NoContainer /\ NoWeights
     \/ part = "container" /\ Container!Init /\ NoTable /\ NoWeights
     \/ part = "weights" /\ Weights!Init /\ NoTable /\ NoContainer /\ pos = 0

MCNext ==
  /\ UNCHANGED part
  /\ \/ /\ part = "forward" /\ ForwardNext
        /\ UNCHANGED <<file, step, pos, tableVars, containerVars, weightVars, layerVars>>
     \/ /\ part = "table" /\ Table!Next
        /\ UNCHANGED <<vars, containerVars, weightVars, layerVars>>
     \/ /\ part = "container" /\ Container!Next
        /\ UNCHANGED <<vars, tableVars, weightVars, layerVars>>
     \/ /\ part = "weights" /\ Weights!Next
        /\ UNCHANGED <<vars, pos, tableVars, containerVars, layerVars>>
     \/ /\ part = "layers" /\ LayersNext
        /\ UNCHANGED <<vars, file, step, pos, tableVars, containerVars, weightVars>>

MCSpec == MCInit /\ [][MCNext]_allVars
-----------------------------------------------------------------------------
(* What the writers wrote loads.  A file that has one damaged field, or    *)
(* was cut short, fails to load or is whole: of version 1, every tensor    *)
(* has the very bytes it was written with; of version 2, which does not    *)
(* check that tensors are apart, no tensor is missing or out of bounds,    *)
(* and all but the damaged one have their bytes.                           *)
LoadedIsWhole ==
  /\ part = "table" =>
       Table!RoundTrip /\ Table!TensorsReadTheirOwn /\ Table!RegionsApart
  /\ part = "container" => Container!WrittenLoads /\ Container!LoadedIsWhole

(* After a load every view shows its own tensor, every projection fits the *)
(* buffers it reads and writes, and, where the file's group is the         *)
(* kernels', a GEMV takes each scale for the row and the group it is of.   *)
ScalesOfTheirGroups ==
  part = "weights" =>
    /\ Weights!ViewsOwnBuffers /\ Weights!ProjectionsFit
    /\ Weights!ScalesOfTheirGroups
=============================================================================
