--------------------------- MODULE MCControlLoop ---------------------------
(* Model-checking instance of ControlLoop: MSR images are model values.    *)
EXTENDS ControlLoop

CONSTANTS v1, v2

MCMsrVals == {v1, v2}
=============================================================================
