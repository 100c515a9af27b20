-------------------------- MODULE MCPipelineServer --------------------------
(* Instances of PipelineServer for TLC: a run, two event streams of it and a  *)
(* question.                                                                  *)
EXTENDS PipelineServer, TLC

CONSTANTS r1, c1, c2, q1
=============================================================================
