----------------------------- MODULE DdrBwTest -----------------------------
(***************************************************************************)
(* The DDR bandwidth self-test at the top of thread_start (src/main.c,     *)
(* lines 119-144), run when --ddrbw-test set ddr_bw_target to              *)
(* DDR_BW_AUTOTEST (-2).  Each thread tests ddr_bw_target; core_first      *)
(* initialises the test and resets the target to 0; every thread then      *)
(* arrives at ddrbwflag, spins until all have arrived, adds its            *)
(* measurement to the target, leaves, and spins until all have left;       *)
(* core_first finally rejects a zero target.                               *)
(*                                                                         *)
(* Two timing assumptions the code relies on are constants:                *)
(*   LateStart  - a thread may test ddr_bw_target only after core_first    *)
(*                has already reset it (threads are created one by one);   *)
(*   FastMeasure - a measurement may end, and its thread leave, before     *)
(*                every other thread has seen ddrbwflag reach              *)
(*                ACTIVE_THREADS.                                          *)
(* With both FALSE, every thread starts before the reset and a            *)
(* measurement outlasts the other threads' spin.                           *)
(***************************************************************************)
EXTENDS Integers, FiniteSets

CONSTANTS N, Meas, LateStart, FastMeasure

ASSUME NAssumption == N \in Nat \ {0}
ASSUME MeasAssumption == Meas \subseteq Nat /\ Meas # {}
ASSUME TimingAssumption == LateStart \in BOOLEAN /\ FastMeasure \in BOOLEAN

DDR_BW_AUTOTEST == -2
Threads == 0..N-1
Master == 0            \* tstate->core_id == core_first

VARIABLES
  pc,      \* pc[t]: where thread t is in lines 119-144
  target,  \* ddr_bw_target
  flag,    \* ddrbwflag
  meas     \* meas[t]: what thread t added to the target (-1: nothing yet)

vars == <<pc, target, flag, meas>>

\* ddr_bw_target as main leaves it after --ddrbw-test (line 370).
Init ==
  /\ pc = [t \in Threads |-> "check"]
  /\ target = DDR_BW_AUTOTEST
  /\ flag = 0
  /\ meas = [t \in Threads |-> -1]

\* exit(-1) ends every thread.
Exit == pc' = [t \in Threads |-> "exit"]

\* Line 119: a thread that does not see DDR_BW_AUTOTEST skips the test.
Check(t) ==
  /\ pc[t] = "check"
  /\ pc' = [pc EXCEPT ![t] = IF target # DDR_BW_AUTOTEST THEN "loop"
                             ELSE IF t = Master THEN "init" ELSE "arrive"]
  /\ UNCHANGED <<target, flag, meas>>

\* Lines 120-124: ddrmembw_init, exit(-1) on failure, ddr_bw_target = 0.
MasterInit ==
  /\ pc[Master] = "init"
  /\ LateStart \/ \A t \in Threads : pc[t] # "check"
  /\ \/ /\ Exit
        /\ UNCHANGED <<target, flag, meas>>
     \/ /\ target' = 0
        /\ pc' = [pc EXCEPT ![Master] = "arrive"]
        /\ UNCHANGED <<flag, meas>>

\* Line 126.
Arrive(t) ==
  /\ pc[t] = "arrive"
  /\ flag' = flag + 1
  /\ pc' = [pc EXCEPT ![t] = "spin1"]
  /\ UNCHANGED <<target, meas>>

\* Mutant: the first spin stops one arrival short.
Pass1Short(t) ==
  /\ pc[t] = "spin1"
  /\ flag >= N - 1
  /\ pc' = [pc EXCEPT ![t] = "measure"]
  /\ UNCHANGED <<target, flag, meas>>

\* Line 128: the spin ends once the thread reads ddrbwflag >= ACTIVE_THREADS.
Pass1(t) ==
  /\ pc[t] = "spin1"
  /\ flag >= N
  /\ pc' = [pc EXCEPT ![t] = "measure"]
  /\ UNCHANGED <<target, flag, meas>>

\* Line 132: atomic_fetch_add(&ddr_bw_target, ddrmembw_measurement()).
Measure(t) ==
  /\ pc[t] = "measure"
  /\ FastMeasure \/ \A u \in Threads : pc[u] # "spin1"
  /\ \E m \in Meas :
       /\ target' = target + m
       /\ meas' = [meas EXCEPT ![t] = m]
  /\ pc' = [pc EXCEPT ![t] = "depart"]
  /\ UNCHANGED flag

\* Mutant: a thread leaves without decrementing ddrbwflag.
DepartKeepsFlag(t) ==
  /\ pc[t] = "depart"
  /\ pc' = [pc EXCEPT ![t] = "spin2"]
  /\ UNCHANGED <<target, flag, meas>>

\* Mutant: the decrement is applied twice.
DepartTwice(t) ==
  /\ pc[t] = "depart"
  /\ flag' = flag - 2
  /\ pc' = [pc EXCEPT ![t] = "spin2"]
  /\ UNCHANGED <<target, meas>>

\* Line 134.
Depart(t) ==
  /\ pc[t] = "depart"
  /\ flag' = flag - 1
  /\ pc' = [pc EXCEPT ![t] = "spin2"]
  /\ UNCHANGED <<target, meas>>

\* Line 136; core_first goes on to its check, the others to the loop.
Pass2(t) ==
  /\ pc[t] = "spin2"
  /\ flag = 0
  /\ pc' = [pc EXCEPT ![t] = IF t = Master THEN "final" ELSE "loop"]
  /\ UNCHANGED <<target, flag, meas>>

\* Lines 138-143: ddrmembw_deinit, exit(-1) on a zero bandwidth.
MasterFinal ==
  /\ pc[Master] = "final"
  /\ IF target = 0 THEN Exit
                   ELSE pc' = [pc EXCEPT ![Master] = "loop"]
  /\ UNCHANGED <<target, flag, meas>>

Next ==
  \/ MasterInit \/ MasterFinal
  \/ \E t \in Threads :
       Check(t) \/ Arrive(t) \/ Pass1(t) \/ Measure(t) \/ Depart(t) \/ Pass2(t)

\* Each worker is pinned to its own core and spins, so a thread whose step
\* stays enabled takes it.
Fairness ==
  /\ WF_vars(MasterInit) /\ WF_vars(MasterFinal)
  /\ \A t \in Threads : WF_vars(Check(t) \/ Arrive(t) \/ Pass1(t)
                                \/ Measure(t) \/ Depart(t) \/ Pass2(t))

Spec == Init /\ [][Next]_vars /\ Fairness

(***************************************************************************)
(* Properties.                                                             *)
(***************************************************************************)

TypeOK ==
  /\ pc \in [Threads -> {"check", "init", "arrive", "spin1", "measure",
                         "depart", "spin2", "final", "loop", "exit"}]
  /\ target \in Int
  /\ flag \in 0..N
  /\ meas \in [Threads -> Meas \cup {-1}]

\* The threads between their increment of ddrbwflag (line 126) and their
\* decrement (line 134): spinning at line 128, measuring, or leaving.
InBarrier == {t \in Threads : pc[t] \in {"spin1", "measure", "depart"}}

\* Both barriers share ddrbwflag, with a plain counter of increments and
\* decrements: until exit(-1) ends the process, ddrbwflag is exactly the
\* number of threads that have done line 126 and not yet line 134, so a
\* thread spinning at line 128 sees ACTIVE_THREADS only when all are in.
FlagCounts ==
  \/ flag = Cardinality(InBarrier)
  \/ \A t \in Threads : pc[t] = "exit"

\* The self-test ends: every thread leaves the block for the control loop,
\* or the process exits.
TestCompletes == <>(\A t \in Threads : pc[t] \in {"loop", "exit"})

=============================================================================
