------------------------------ MODULE MCTokenizer ------------------------------
(***************************************************************************)
(* The vocabulary alone, for artifacts given in the configuration.         *)
(***************************************************************************)
EXTENDS Tokenizer, MCArtifacts
================================================================================
