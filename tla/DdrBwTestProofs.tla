-------------------------- MODULE DdrBwTestProofs --------------------------
(***************************************************************************)
(* Proofs about the DDR bandwidth self-test of thread_start (main.c        *)
(* 119-144), for every number of threads, every set of measurements and    *)
(* both timing assumptions.                                                *)
(*                                                                         *)
(* TypeOK is not inductive by itself: that ddrbwflag stays in              *)
(* 0..ACTIVE_THREADS rests on it counting the threads between lines 126    *)
(* and 134 (FlagCounts), and FlagCounts needs the types.  Their            *)
(* conjunction IInv is inductive.                                          *)
(***************************************************************************)
EXTENDS DdrBwTest, FiniteSetTheorems, TLAPS

\* The values of pc, and those between the increment and the decrement.
PcVals == {"check", "init", "arrive", "spin1", "measure",
           "depart", "spin2", "final", "loop", "exit"}
BarrierPcs == {"spin1", "measure", "depart"}

IInv == TypeOK /\ FlagCounts

\* A set of threads is finite and has at most ACTIVE_THREADS members.
LEMMA ThreadSubsetCard ==
  ASSUME NEW S \in SUBSET Threads
  PROVE  IsFiniteSet(S) /\ Cardinality(S) \in 0..N
<1>1. IsFiniteSet(Threads) /\ Cardinality(Threads) = N
  BY NAssumption, FS_Interval DEF Threads
<1>. QED BY <1>1, FS_Subset, FS_CardinalityType

\* A step of thread t that neither enters nor leaves the barrier span, and
\* leaves ddrbwflag alone, keeps IInv.
LEMMA MoveIInv ==
  ASSUME IInv, NEW t \in Threads, NEW c \in PcVals, pc[t] # "exit",
         pc' = [pc EXCEPT ![t] = c],
         (pc[t] \in BarrierPcs) <=> (c \in BarrierPcs),
         target' \in Int, flag' = flag,
         meas' \in [Threads -> Meas \cup {-1}]
  PROVE  IInv'
<1>1. TypeOK'
  BY DEF IInv, TypeOK, PcVals
<1>2. InBarrier' = InBarrier
  BY DEF IInv, TypeOK, InBarrier, BarrierPcs
<1>3. flag = Cardinality(InBarrier)
  BY DEF IInv, FlagCounts
<1>. QED BY <1>1, <1>2, <1>3 DEF IInv, FlagCounts

\* exit(-1): every thread ends, ddrbwflag keeps its value.
LEMMA ExitIInv ==
  ASSUME IInv, Exit, UNCHANGED <<target, flag, meas>>
  PROVE  IInv'
BY DEF IInv, TypeOK, FlagCounts, Exit

\* Line 126: the increment counts the arriving thread.
LEMMA ArriveIInv ==
  ASSUME IInv, NEW t \in Threads, Arrive(t)
  PROVE  IInv'
<1>1. flag = Cardinality(InBarrier)
  BY DEF IInv, FlagCounts, Arrive
<1>2. InBarrier' = InBarrier \cup {t} /\ t \notin InBarrier
  BY DEF IInv, TypeOK, InBarrier, Arrive
<1>3. IsFiniteSet(InBarrier) /\ Cardinality(InBarrier') \in 0..N
  BY ThreadSubsetCard DEF InBarrier
<1>4. flag' = Cardinality(InBarrier')
  BY <1>1, <1>2, <1>3, FS_AddElement DEF Arrive
<1>5. TypeOK'
  BY <1>3, <1>4 DEF IInv, TypeOK, Arrive
<1>. QED BY <1>4, <1>5 DEF IInv, FlagCounts

\* Line 134: the decrement uncounts the leaving thread.
LEMMA DepartIInv ==
  ASSUME IInv, NEW t \in Threads, Depart(t)
  PROVE  IInv'
<1>1. flag = Cardinality(InBarrier)
  BY DEF IInv, FlagCounts, Depart
<1>2. InBarrier' = InBarrier \ {t} /\ t \in InBarrier
  BY DEF IInv, TypeOK, InBarrier, Depart
<1>3. IsFiniteSet(InBarrier) /\ Cardinality(InBarrier') \in 0..N
  BY ThreadSubsetCard DEF InBarrier
<1>4. flag' = Cardinality(InBarrier')
  BY <1>1, <1>2, <1>3, FS_RemoveElement DEF Depart
<1>5. TypeOK'
  BY <1>3, <1>4 DEF IInv, TypeOK, Depart
<1>. QED BY <1>4, <1>5 DEF IInv, FlagCounts


LEMMA InitIInv == Init => IInv
<1>. SUFFICES ASSUME Init PROVE IInv
  OBVIOUS
<1>1. InBarrier = {}
  BY DEF Init, InBarrier
<1>2. flag = Cardinality(InBarrier)
  BY <1>1, FS_EmptySet DEF Init
<1>3. TypeOK
  BY NAssumption DEF Init, TypeOK, DDR_BW_AUTOTEST
<1>. QED BY <1>2, <1>3 DEF IInv, FlagCounts

LEMMA MasterThread == Master \in Threads
BY NAssumption DEF Master, Threads

LEMMA StepIInv == IInv /\ [Next]_vars => IInv'
<1>. SUFFICES ASSUME IInv, [Next]_vars PROVE IInv'
  OBVIOUS
<1>1. CASE MasterInit
  <2>1. CASE Exit /\ UNCHANGED <<target, flag, meas>>
    BY <2>1, ExitIInv
  <2>2. CASE target' = 0 /\ pc' = [pc EXCEPT ![Master] = "arrive"]
             /\ UNCHANGED <<flag, meas>>
    <3>1. /\ pc[Master] = "init"
          /\ "arrive" \in PcVals
          /\ ~("init" \in BarrierPcs) /\ ~("arrive" \in BarrierPcs)
          /\ target' \in Int /\ flag' = flag
          /\ meas' \in [Threads -> Meas \cup {-1}]
      BY <1>1, <2>2 DEF MasterInit, PcVals, BarrierPcs, IInv, TypeOK
    <3>. QED BY <2>2, <3>1, MasterThread, MoveIInv
  <2>. QED BY <1>1, <2>1, <2>2 DEF MasterInit
<1>2. CASE MasterFinal
  <2>1. CASE target = 0
    BY <1>2, <2>1, ExitIInv DEF MasterFinal
  <2>2. CASE target # 0
    BY <1>2, <2>2, MasterThread, MoveIInv DEF MasterFinal, PcVals,
       BarrierPcs, IInv, TypeOK
  <2>. QED BY <2>1, <2>2
<1>3. ASSUME NEW t \in Threads, Check(t) PROVE IInv'
  BY <1>3, MoveIInv DEF Check, PcVals, BarrierPcs, IInv, TypeOK
<1>4. ASSUME NEW t \in Threads, Arrive(t) PROVE IInv'
  BY <1>4, ArriveIInv
<1>5. ASSUME NEW t \in Threads, Pass1(t) PROVE IInv'
  BY <1>5, MoveIInv DEF Pass1, PcVals, BarrierPcs, IInv, TypeOK
<1>6. ASSUME NEW t \in Threads, Measure(t) PROVE IInv'
  <2>1. PICK m \in Meas : target' = target + m /\ meas' = [meas EXCEPT ![t] = m]
    BY <1>6 DEF Measure
  <2>2. target' \in Int /\ meas' \in [Threads -> Meas \cup {-1}]
    BY <2>1, MeasAssumption DEF IInv, TypeOK
  <2>. QED BY <1>6, <2>2, MoveIInv DEF Measure, PcVals, BarrierPcs, IInv, TypeOK
<1>7. ASSUME NEW t \in Threads, Depart(t) PROVE IInv'
  BY <1>7, DepartIInv
<1>8. ASSUME NEW t \in Threads, Pass2(t) PROVE IInv'
  BY <1>8, MoveIInv DEF Pass2, PcVals, BarrierPcs, IInv, TypeOK
<1>9. CASE UNCHANGED vars
  BY <1>9 DEF vars, IInv, TypeOK, FlagCounts, InBarrier
<1>. QED BY <1>1, <1>2, <1>3, <1>4, <1>5, <1>6, <1>7, <1>8, <1>9 DEF Next

\* The counting invariant holds in every reachable state of lines 119-144,
\* whatever the timing of thread creation and of the measurements.
THEOREM IInvHolds == Spec => []IInv
BY InitIInv, StepIInv, PTL DEF Spec

\* ddrbwflag never goes below 0 or above ACTIVE_THREADS, ddr_bw_target is
\* an integer and each thread records at most one measurement, for every
\* number of threads and both timing assumptions.
THEOREM TypeCorrect == Spec => []TypeOK
BY IInvHolds, PTL DEF IInv

\* The shared ddrbwflag counts exactly the threads between the increment
\* of line 126 and the decrement of line 134 until exit(-1): the two
\* barriers never see each other's counts.
THEOREM FlagCountsHolds == Spec => []FlagCounts
BY IInvHolds, PTL DEF IInv

=============================================================================
