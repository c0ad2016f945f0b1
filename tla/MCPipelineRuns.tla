--------------------------- MODULE MCPipelineRuns ---------------------------
(***************************************************************************)
(* Instances of PipelineRuns for TLC: the chain raw -> clean -> report,    *)
(* in which clean is auto-triggered, and the join of raw and clean.        *)
(***************************************************************************)
EXTENDS PipelineRuns

CONSTANTS raw, clean, report, c1, c2

MCChain == [d \in Dataset |-> CASE d = raw -> {}
                                [] d = clean -> {raw}
                                [] d = report -> {clean}]

MCJoin == [d \in Dataset |-> IF d = report THEN {raw, clean} ELSE {}]
=============================================================================
