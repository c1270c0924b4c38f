---------------------------- MODULE ModuleTuning ----------------------------
(***************************************************************************)
(* What the control loop promises about the prefetcher MSRs of the         *)
(* modules (spec.md, "Data flow per tick" and invariants 2 and 5), with    *)
(* the threads, the barrier and the ticks abstracted away.                 *)
(*                                                                         *)
(* The tuner holds one decision (an MSR image) per module.  A module is    *)
(* pending while its MSR may not yet hold that decision.  A decision is    *)
(* made only when no module is pending, so no decision is lost; it makes   *)
(* pending exactly the modules whose image changes.  An MSR write always   *)
(* writes the module's current decision, never a stale one.  After the     *)
(* process stops, nothing is written or decided again.                     *)
(***************************************************************************)
EXTENDS Naturals

CONSTANTS
  Modules,   \* the four-core modules the loop tunes
  MsrVals,   \* the prefetcher MSR images a tuner may choose
  InitVal    \* the image every core writes at start

VARIABLES
  round,     \* number of decisions made
  target,    \* target[m]: the tuner's current decision for module m
  msr,       \* msr[m]: the prefetcher MSR of module m
  pending,   \* the modules whose MSR may not yet hold target
  running    \* FALSE once the process has stopped

avars == <<round, target, msr, pending, running>>

\* At start every module still has to be written with InitVal; the MSRs
\* hold whatever was there before.
Init ==
  /\ round = 0
  /\ target = [m \in Modules |-> InitVal]
  /\ msr \in [Modules -> MsrVals]
  /\ pending = Modules
  /\ running = TRUE

\* The decision phase: it sees every module programmed with the previous
\* decision, picks new images, and marks the modules whose image changes.
Decide ==
  /\ running
  /\ pending = {}
  /\ round' = round + 1
  /\ \E tv \in [Modules -> MsrVals] :
       /\ target' = tv
       /\ pending' = {m \in Modules : tv[m] # target[m]}
  /\ UNCHANGED <<msr, running>>

\* A write of module m's MSR: it writes the current decision.  The module
\* stops being pending with the last write it was waiting for.
Program(m) ==
  /\ running
  /\ m \in pending
  /\ msr' = [msr EXCEPT ![m] = target[m]]
  /\ pending' \in {pending, pending \ {m}}
  /\ UNCHANGED <<round, target, running>>

\* The process ends: no write or decision follows.
Stop ==
  /\ running
  /\ running' = FALSE
  /\ pending' = {}
  /\ UNCHANGED <<round, target, msr>>

Next == Decide \/ (\E m \in Modules : Program(m)) \/ Stop

Spec == Init /\ [][Next]_avars

=============================================================================
