-------------------------- MODULE MCKernelMonitor --------------------------
(***************************************************************************)
(* Small instances of KernelMonitor.  Five CPUs make two modules: lead 0   *)
(* with cores 1-3, and lead 4 alone.                                       *)
(***************************************************************************)
EXTENDS KernelMonitor

\* core_range requests: all five cores, or the first module only.
MCRanges == {<<0, 4>>, <<0, 3>>}
====
