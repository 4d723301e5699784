--------------------------- MODULE MCHttpPipeline ----------------------------
(* Instances of HttpPipeline for TLC.                                      *)
EXTENDS HttpPipeline
==============================================================================
