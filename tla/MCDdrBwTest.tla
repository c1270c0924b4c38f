---------------------------- MODULE MCDdrBwTest ----------------------------
(* Model-checking instance of DdrBwTest, with the property that needs the  *)
(* recursive fold of SumFunction.                                          *)
EXTENDS DdrBwTest, Functions

\* When core_first checks the result (line 141), every thread has measured
\* and ddr_bw_target is the sum of all the measurements: none is still to
\* be added, and the reset to 0 did not erase one.
TargetIsSum ==
  pc[Master] = "final" =>
    /\ \A t \in Threads : meas[t] \in Meas
    /\ target = SumFunction(meas)

=============================================================================
