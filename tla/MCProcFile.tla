----------------------------- MODULE MCProcFile -----------------------------
(* Model-checking instance of ProcFile: two writers, at most one reader,   *)
(* core_weight responses of two lengths (the count is the caller's).       *)
EXTENDS ProcFile

CONSTANTS w1, w2, r1

MCRespSize == [t \in Handled |-> IF t = "core_weight" THEN {1, 3} ELSE {2}]
=============================================================================
