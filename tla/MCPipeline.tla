------------------------------ MODULE MCPipeline ------------------------------
(* Instances of Pipeline for TLC.                                           *)
EXTENDS Pipeline, TLC

CONSTANTS e1, e2

=============================================================================
