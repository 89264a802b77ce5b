--------------------------- MODULE MCCalculations ---------------------------
(* Values for model-checking Calculations: part of the study's lists, the  *)
(* lambda lists of expand_full and expand_core_3x3, and for the memory     *)
(* that grows old every formula with and without a floor, at lambda = ln 2 *)
(* per day, so that it halves every day.                                   *)
EXTENDS Calculations

MCMemLists == {<<"episodic">>, <<"episodic", "semantic">>}
MCModelLists == {<<>>, <<"bge-m3", "bge-m3">>}
MCRerankerLists == {<<>>, <<"none", "bge-reranker">>}
MCBestStrategies == {"bm25", "hybrid"}
MCStrategyLists == {<<"bm25">>, <<"bm25", "embeddings", "hybrid">>}
MCPolicyLists == {<<"none", "exponential", "logarithmic">>, <<"periodic", "none", "linear">>}
MCLambdaLists == {LambdaSteps, <<100>>}

MCExp == [t \in 0..8 |-> 1000 \div (2 ^ t)]
MCSettings ==
  [type : {"exponential", "linear", "logarithmic", "tiered"}, lambda : {0, 693},
   floor : {FloorUnset, 0, 650, 1000}, archival : {1, 4}, working : {0, 2}]
=============================================================================
