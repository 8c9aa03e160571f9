---------------------------- MODULE MCFlowEngine ----------------------------
(* Instances of FlowEngine for TLC.                                        *)
EXTENDS FlowEngine

CONSTANTS s1, s2
=============================================================================
