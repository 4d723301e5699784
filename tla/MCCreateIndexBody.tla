-------------------------- MODULE MCCreateIndexBody --------------------------
(* An instance of CreateIndexBody for TLC.                                 *)
EXTENDS CreateIndexBody
==============================================================================
