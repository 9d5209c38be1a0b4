-------------------------- MODULE MCContentPipeline --------------------------
(* ContentPipeline for TLC: sets of model values and their symmetries.     *)
EXTENDS ContentPipeline, TLC

CONSTANTS x, weibo, c1, c2, q1, q2, q3, q4

Symmetry == Permutations({c1, c2}) \cup Permutations({q1, q2, q3, q4})
=============================================================================
