------------------------- MODULE ControlLoopProofs -------------------------
(***************************************************************************)
(* Proofs about the user-space control loop (ControlLoop), for every      *)
(* number of threads, every set of MSR images and every bound.             *)
(***************************************************************************)
EXTENDS ControlLoop, FiniteSetTheorems, TLAPS

\* The module a thread writes is one of the modules of the model.
LEMMA ModuleInModules ==
  ASSUME NEW t \in Threads
  PROVE  Module(t) \in Modules
  BY DEF Modules

\* One step of the loop keeps every variable in its type.
LEMMA TypeStep ==
  ASSUME TypeOK, [Next]_vars
  PROVE  TypeOK'
  <1>1. ASSUME NEW t \in Threads, Start(t) PROVE TypeOK'
    BY <1>1, ModuleInModules DEF Start, TypeOK
  <1>2. ASSUME NEW t \in Threads, Sample(t) PROVE TypeOK'
    BY <1>2 DEF Sample, TypeOK
  <1>3. ASSUME NEW t \in Threads, Arrive(t) PROVE TypeOK'
    BY <1>3 DEF Arrive, TypeOK
  <1>4. ASSUME NEW t \in Threads, LeadWait(t) PROVE TypeOK'
    BY <1>4 DEF LeadWait, TypeOK
  <1>5. ASSUME NEW t \in Threads, Apply(t) PROVE TypeOK'
    BY <1>5, ModuleInModules DEF Apply, Target, TypeOK
  <1>6. CASE MasterDecide
    <2>1. /\ pc' \in [Threads -> {"init", "sleep", "arrive", "wait", "release",
                                  "apply", "exit"}]
          /\ round' \in Nat
          /\ UNCHANGED <<tick, syncflag, msr, tunealg>>
      BY <1>6, NAssumption DEF MasterDecide, TypeOK, Master, Threads
    <2>2. /\ desired' \in [Threads -> MsrVals]
          /\ dirty' \in [Threads -> BOOLEAN]
          /\ arm' \in MsrVals
      <3>1. CASE tunealg = "basic"
        <4>1. PICK v \in [Leads -> MsrVals] :
                /\ desired' = [u \in Threads |-> IF u \in Leads THEN v[u] ELSE desired[u]]
                /\ dirty' = [u \in Threads |-> dirty[u] \/ (u \in Leads /\ v[u] # desired[u])]
                /\ UNCHANGED arm
          BY <1>6, <3>1 DEF MasterDecide, Decision
        <4>2. QED
          BY <4>1 DEF TypeOK
      <3>2. CASE tunealg = "mab"
        <4>1. PICK a \in MsrVals :
                /\ arm' = a
                /\ dirty' = [u \in Threads |-> dirty[u] \/ (u \in Leads /\ a # arm)]
                /\ UNCHANGED desired
          BY <1>6, <3>2 DEF MasterDecide, Decision
        <4>2. QED
          BY <4>1 DEF TypeOK
      <3>3. QED
        BY <3>1, <3>2 DEF TypeOK
    <2>3. QED
      BY <2>1, <2>2 DEF TypeOK
  <1>7. CASE MasterRelease
    BY <1>7, NAssumption DEF MasterRelease, TypeOK, Master, Threads
  <1>8. CASE SigInt
    BY <1>8 DEF SigInt, TypeOK
  <1>9. CASE UNCHANGED vars
    BY <1>9 DEF vars, TypeOK
  <1>10. QED
    BY <1>1, <1>2, <1>3, <1>4, <1>5, <1>6, <1>7, <1>8, <1>9 DEF Next

\* The type invariant: every variable keeps its type in every reachable
\* state of the loop, whatever the interleaving of the threads.
THEOREM TypeCorrect == Spec => []TypeOK
  <1>1. Init => TypeOK
    BY MsrAssumption DEF Init, TypeOK
  <1>2. QED
    BY <1>1, TypeStep, PTL DEF Spec

----------------------------------------------------------------------------
(* Facts about the thread set and the modules.                             *)

\* There are N threads, and the master is one of them.
LEMMA ThreadsCard ==
  /\ IsFiniteSet(Threads)
  /\ Cardinality(Threads) = N
  /\ Master \in Threads
  BY NAssumption, FS_Interval DEF Threads, Master

\* The arrived threads are a finite set of at most N threads; N of them are
\* all of the threads.
LEMMA ArrivedCard ==
  /\ IsFiniteSet(Arrived)
  /\ Cardinality(Arrived) <= N
  /\ Cardinality(Arrived) = N => Arrived = Threads
  <1>1. Arrived \subseteq Threads
    BY DEF Arrived
  <1>2. QED
    BY <1>1, ThreadsCard, FS_Subset

\* A module has a single lead, so a lead's write touches no other lead's MSR.
LEMMA LeadPerModule ==
  ASSUME NEW t \in Leads, NEW u \in Leads, Module(t) = Module(u)
  PROVE  t = u
  BY DEF Leads, Threads, Module, CoreInModule

\* The master is a module lead.
LEMMA MasterLead == Master \in Leads
  BY ThreadsCard DEF Leads, Master, CoreInModule

----------------------------------------------------------------------------
(* The barrier invariant.                                                  *)

Core == /\ InPhase /\ MasterAhead /\ SyncCounts /\ SyncFull /\ RoundsOrdered
        /\ Programmed /\ NoPending /\ NonLeadsFixed /\ InitUntouched

\* Every thread is in tick round or round + 1.
LEMMA TickRange ==
  ASSUME Core, NEW t \in Threads
  PROVE  tick[t] = round \/ tick[t] = round + 1
  BY DEF Core, InPhase, PhaseOK

\* Once the process has exited no thread takes a step.
LEMMA ExitedStep ==
  ASSUME TypeOK, Exited, [Next]_vars
  PROVE  Exited'
  <1>1. ~\E t \in Threads : Start(t) \/ Sample(t) \/ Arrive(t) \/ LeadWait(t) \/ Apply(t)
    BY DEF Exited, Start, Sample, Arrive, LeadWait, Apply
  <1>2. ~MasterDecide /\ ~MasterRelease /\ ~SigInt
    BY ThreadsCard DEF Exited, MasterDecide, MasterRelease, SigInt
  <1>3. QED
    BY <1>1, <1>2 DEF Next, vars, Exited

\* Start(t): the startup write lands while nothing has been decided, so it
\* writes the image every lead of the module already targets.
LEMMA StartStep ==
  ASSUME TypeOK, Core, NEW t \in Threads, Start(t)
  PROVE  Core'
  <1>1. tick[t] = round /\ round = 0 /\ arm = InitVal /\ \A u \in Threads : desired[u] = InitVal
    BY DEF Start, Core, InPhase, PhaseOK, InitUntouched
  <1>2. ~\E u \in Threads : tick[u] = round + 1
    BY <1>1 DEF Start, Core, RoundsOrdered
  <1>3. Arrived' = Arrived
    BY <1>1, <1>2 DEF Start, Arrived
  <1>4. \A u \in Leads : Target(u)' = InitVal
    BY <1>1 DEF Start, Target, Leads
  <1>5. Programmed'
    <2> SUFFICES ASSUME NEW u \in Leads, pc'[u] # "init"
                 PROVE  dirty'[u] \/ msr'[Module(u)] = Target(u)'
      BY DEF Programmed
    <2>1. CASE Module(u) = Module(t)
      BY <2>1, <1>1, <1>4, ModuleInModules DEF Start, TypeOK
    <2>2. CASE Module(u) # Module(t)
      <3>1. pc[u] # "init"
        BY <2>2 DEF Start
      <3>2. QED
        BY <2>2, <3>1, ModuleInModules DEF Start, TypeOK, Core, Programmed, Target, Leads
    <2>3. QED
      BY <2>1, <2>2
  <1>6. QED
    BY <1>1, <1>2, <1>3, <1>5
       DEF Start, Core, InPhase, PhaseOK, MasterAhead, SyncCounts, SyncFull,
           RoundsOrdered, NoPending, Settled, NonLeadsFixed, InitUntouched

\* Sample(t): with the design timing, a thread samples tick round + 1 only
\* when every thread has finished tick round.
LEMMA SampleStep ==
  ASSUME Drift = 0, TypeOK, Core, NEW t \in Threads, Sample(t)
  PROVE  Core'
  <1>1. tick[t] = round
    <2>1. Completed(Master) >= tick[t]
      BY ThreadsCard DEF Sample, TypeOK
    <2>2. Completed(Master) <= round
      BY ThreadsCard DEF Core, InPhase, PhaseOK, MasterAhead, Completed, TypeOK
    <2>3. tick[t] = round \/ tick[t] = round + 1
      BY TickRange
    <2>4. QED
      BY <2>1, <2>2, <2>3, ThreadsCard DEF TypeOK, Completed
  <1>2. \A u \in Threads : tick[u] = round => pc[u] = "sleep"
    <2> SUFFICES ASSUME NEW u \in Threads, tick[u] = round PROVE pc[u] = "sleep"
      OBVIOUS
    <2>1. Completed(u) >= round
      BY <1>1 DEF Sample, TypeOK
    <2>2. QED
      BY <2>1 DEF Completed, Core, InPhase, TypeOK
  <1>3. Arrived' = Arrived
    BY <1>1 DEF Sample, Arrived, TypeOK
  <1>4. QED
    BY <1>1, <1>2, <1>3
       DEF Sample, TypeOK, Core, InPhase, PhaseOK, MasterAhead, SyncCounts, SyncFull,
           RoundsOrdered, Programmed, Target, NoPending, Settled, NonLeadsFixed,
           InitUntouched

\* Arrive(t): the atomic increment adds exactly the arriving thread to the
\* arrivals of tick round + 1.
LEMMA ArriveStep ==
  ASSUME TypeOK, Core, NEW t \in Threads, Arrive(t)
  PROVE  Core'
  <1>1. tick[t] = round + 1
    BY DEF Arrive, Core, InPhase, PhaseOK
  <1>2. pc[Master] # "release"
    <2> SUFFICES ASSUME pc[Master] = "release" PROVE FALSE
      OBVIOUS
    <2>1. tick[Master] = round
      BY ThreadsCard, TickRange DEF Core, MasterAhead
    <2>2. pc[Master] = "sleep"
      BY <1>1, <2>1, ThreadsCard DEF Core, RoundsOrdered
    <2>3. QED
      BY <2>2
  <1>3. Arrived' = Arrived \cup {t} /\ t \notin Arrived
    BY <1>1 DEF Arrive, Arrived, TypeOK
  <1>4. syncflag' = Cardinality(Arrived')
    <2>1. Cardinality(Arrived \cup {t}) = Cardinality(Arrived) + 1
      BY <1>3, ArrivedCard, FS_AddElement
    <2>2. syncflag = Cardinality(Arrived)
      BY <1>2 DEF Core, SyncCounts
    <2>3. QED
      BY <1>3, <2>1, <2>2 DEF Arrive
  <1>5. InPhase'
    <2> SUFFICES ASSUME NEW u \in Threads PROVE pc'[u] # "exit" /\ PhaseOK(u)'
      BY DEF InPhase
    <2>1. CASE u = t
      BY <1>1, <2>1 DEF Arrive, TypeOK, PhaseOK
    <2>2. CASE u # t
      BY <2>2 DEF Arrive, TypeOK, Core, InPhase, PhaseOK
    <2>3. QED
      BY <2>1, <2>2
  <1>11. MasterAhead'
    <2>1. CASE t = Master
      BY <1>1, <2>1, MasterLead DEF Arrive, TypeOK, MasterAhead
    <2>2. CASE t # Master
      BY <2>2, ThreadsCard DEF Arrive, TypeOK, Core, MasterAhead
    <2>3. QED
      BY <2>1, <2>2
  <1>6. SyncCounts' /\ SyncFull'
    BY <1>2, <1>4 DEF Arrive, SyncCounts, SyncFull
  <1>7. RoundsOrdered'
    BY <1>1 DEF Arrive, TypeOK, Core, RoundsOrdered
  <1>8. Programmed' /\ NoPending'
    BY <1>1 DEF Arrive, TypeOK, Core, Programmed, Target, NoPending, Settled
  <1>9. NonLeadsFixed' /\ InitUntouched'
    BY DEF Arrive, TypeOK, Core, NonLeadsFixed, InitUntouched
  <1>10. QED
    BY <1>5, <1>11, <1>6, <1>7, <1>8, <1>9 DEF Core

\* LeadWait(t): a lead sees syncflag = 0 only once the decision of its tick
\* has been released, because its own arrival is counted until then.
LEMMA LeadWaitStep ==
  ASSUME TypeOK, Core, NEW t \in Threads, LeadWait(t)
  PROVE  Core'
  <1>1. t \in Leads
    BY DEF LeadWait, Core, InPhase, PhaseOK
  <1>2. tick[t] = round
    <2> SUFFICES ASSUME tick[t] = round + 1 PROVE FALSE
      BY DEF LeadWait, Core, InPhase, PhaseOK
    <2>1. t \in Arrived
      BY DEF LeadWait, Arrived
    <2>2. CASE pc[Master] = "release"
      BY <2>2, NAssumption DEF LeadWait, Core, SyncFull
    <2>3. CASE pc[Master] # "release"
      <3>1. Cardinality(Arrived) # 0
        BY <2>1, ArrivedCard, FS_EmptySet
      <3>2. QED
        BY <2>3, <3>1 DEF LeadWait, Core, SyncCounts
    <2>4. QED
      BY <2>2, <2>3
  <1>3. ~\E u \in Threads : tick[u] = round + 1
    BY <1>2 DEF LeadWait, Core, RoundsOrdered
  <1>4. Arrived' = Arrived
    BY <1>2 DEF LeadWait, Arrived, TypeOK
  <1>5. QED
    BY <1>1, <1>2, <1>3, <1>4
       DEF LeadWait, TypeOK, Core, InPhase, PhaseOK, MasterAhead, SyncCounts, SyncFull,
           RoundsOrdered, Programmed, Target, NoPending, Settled, NonLeadsFixed,
           InitUntouched

\* Apply(t): the lead's write reaches its own module only, and leaves the
\* module at the lead's target with nothing pending.
LEMMA ApplyStep ==
  ASSUME TypeOK, Core, NEW t \in Threads, Apply(t)
  PROVE  Core'
  <1>1. t \in Leads /\ tick[t] = round
    BY MasterLead DEF Apply, Core, InPhase, PhaseOK
  <1>2. ~\E u \in Threads : tick[u] = round + 1
    BY <1>1 DEF Apply, Core, RoundsOrdered
  <1>3. msr'[Module(t)] = Target(t) /\ ~dirty'[t]
    BY <1>1, ModuleInModules DEF Apply, TypeOK, Core, Programmed
  <1>4. \A u \in Leads : u # t => msr'[Module(u)] = msr[Module(u)] /\ dirty'[u] = dirty[u]
    BY <1>1, LeadPerModule, ModuleInModules DEF Apply, TypeOK, Leads
  <1>5. Programmed' /\ NoPending'
    BY <1>3, <1>4 DEF Apply, TypeOK, Core, Programmed, Target, NoPending, Settled
  <1>6. Arrived' = Arrived
    BY <1>1 DEF Apply, Arrived, TypeOK
  <1>7. QED
    BY <1>1, <1>2, <1>5, <1>6, ThreadsCard
       DEF Apply, TypeOK, Core, InPhase, PhaseOK, MasterAhead, SyncCounts, SyncFull,
           RoundsOrdered, NonLeadsFixed, InitUntouched

\* MasterDecide: syncflag >= N means all N threads have arrived, so the
\* decision sees every sample of the tick and every lead is waiting.
LEMMA AllArrived ==
  ASSUME TypeOK, Core, MasterDecide
  PROVE  Arrived = Threads
  <1>1. pc[Master] # "release" /\ syncflag >= N
    BY DEF MasterDecide
  <1>2. Cardinality(Arrived) = N
    BY <1>1, ArrivedCard, NAssumption DEF Core, SyncCounts, TypeOK
  <1>3. QED
    BY <1>2, ArrivedCard

LEMMA DecideStep ==
  ASSUME TypeOK, Core, MasterDecide
  PROVE  Core'
  <1>1. \A t \in Threads : tick[t] = round + 1 /\ pc[t] # "arrive"
    BY AllArrived DEF Arrived
  <1>2. \A t \in Threads : pc[t] = IF t \in Leads THEN "wait" ELSE "sleep"
    BY <1>1 DEF Core, InPhase, PhaseOK
  <1>3. \A t \in Leads : dirty'[t] \/ Target(t)' = Target(t)
    <2>1. CASE tunealg = "basic"
      <3>1. PICK v \in [Leads -> MsrVals] :
              /\ desired' = [u \in Threads |-> IF u \in Leads THEN v[u] ELSE desired[u]]
              /\ dirty' = [u \in Threads |-> dirty[u] \/ (u \in Leads /\ v[u] # desired[u])]
              /\ tunealg' = tunealg
        BY <2>1 DEF MasterDecide, Decision
      <3>2. QED
        BY <2>1, <3>1 DEF Target, Leads
    <2>2. CASE tunealg = "mab"
      <3>1. PICK a \in MsrVals :
              /\ arm' = a
              /\ dirty' = [u \in Threads |-> dirty[u] \/ (u \in Leads /\ a # arm)]
              /\ tunealg' = tunealg
        BY <2>2 DEF MasterDecide, Decision
      <3>2. QED
        BY <2>2, <3>1 DEF Target, Leads
    <2>3. QED
      BY <2>1, <2>2 DEF TypeOK
  <1>4. \A t \in Threads : dirty[t] => dirty'[t]
    BY DEF MasterDecide, Decision
  <1>5. Programmed'
    <2> SUFFICES ASSUME NEW u \in Leads, pc'[u] # "init"
                 PROVE  dirty'[u] \/ msr'[Module(u)] = Target(u)'
      BY DEF Programmed
    <2>1. dirty[u] \/ msr[Module(u)] = Target(u)
      BY <1>2 DEF Core, Programmed, Leads
    <2>2. QED
      BY <2>1, <1>3, <1>4 DEF MasterDecide, Leads
  <1>6. NoPending'
    <2> SUFFICES ASSUME NEW u \in Leads PROVE ~Settled(u)'
      BY DEF NoPending
    <2>1. CASE u = Master
      BY <2>1, ThreadsCard DEF MasterDecide, TypeOK, Settled
    <2>2. CASE u # Master
      BY <2>2, <1>1, <1>2 DEF MasterDecide, TypeOK, Settled, Leads
    <2>3. QED
      BY <2>1, <2>2
  <1>7. NonLeadsFixed'
    <2>1. CASE tunealg = "basic"
      BY <2>1 DEF MasterDecide, Decision, Core, NonLeadsFixed
    <2>2. CASE tunealg = "mab"
      BY <2>2 DEF MasterDecide, Decision, Core, NonLeadsFixed
    <2>3. QED
      BY <2>1, <2>2 DEF TypeOK
  <1>8. InPhase'
    <2> SUFFICES ASSUME NEW u \in Threads PROVE pc'[u] # "exit" /\ PhaseOK(u)'
      BY DEF InPhase
    <2>1. CASE u = Master
      BY <2>1, <1>1, ThreadsCard DEF MasterDecide, TypeOK, PhaseOK
    <2>2. CASE u # Master
      BY <2>2, <1>1, <1>2 DEF MasterDecide, TypeOK, PhaseOK
    <2>3. QED
      BY <2>1, <2>2
  <1>11. MasterAhead' /\ SyncCounts' /\ SyncFull' /\ RoundsOrdered'
    <2>1. syncflag = N
      BY ArrivedCard, AllArrived, ThreadsCard DEF Core, SyncCounts, MasterDecide
    <2>2. QED
      BY <2>1, <1>1, ThreadsCard DEF MasterDecide, TypeOK, MasterAhead, SyncCounts,
         SyncFull, RoundsOrdered
  <1>9. InitUntouched'
    BY <1>2 DEF MasterDecide, InitUntouched
  <1>10. QED
    BY <1>5, <1>6, <1>7, <1>8, <1>11, <1>9 DEF Core

\* MasterRelease: when the master stores syncflag = 0 nobody has arrived
\* for the next tick, so no arrival is lost.
LEMMA ReleaseStep ==
  ASSUME TypeOK, Core, MasterRelease
  PROVE  Core'
  <1>1. tick[Master] = round
    BY ThreadsCard, TickRange DEF MasterRelease, Core, MasterAhead
  <1>2. ~\E u \in Threads : tick[u] = round + 1
    BY <1>1, ThreadsCard DEF MasterRelease, Core, RoundsOrdered
  <1>3. Arrived' = {}
    BY <1>2 DEF MasterRelease, Arrived
  <1>4. QED
    BY <1>1, <1>2, <1>3, ThreadsCard, FS_EmptySet
       DEF MasterRelease, TypeOK, Core, InPhase, PhaseOK, MasterAhead, SyncCounts,
           SyncFull, RoundsOrdered, Programmed, Target, NoPending, Settled,
           NonLeadsFixed, InitUntouched

\* One step of the loop keeps the barrier invariant.
LEMMA BarrierStep ==
  ASSUME Drift = 0, TypeOK, BarrierInv, [Next]_vars
  PROVE  BarrierInv'
  <1>1. CASE Exited
    BY <1>1, ExitedStep DEF BarrierInv
  <1>2. CASE ~Exited
    <2>1. Core
      BY <1>2 DEF BarrierInv, Core
    <2>2. ASSUME NEW t \in Threads, Start(t) PROVE BarrierInv'
      BY <2>1, <2>2, StartStep DEF BarrierInv, Core
    <2>3. ASSUME NEW t \in Threads, Sample(t) PROVE BarrierInv'
      BY <2>1, <2>3, SampleStep DEF BarrierInv, Core
    <2>4. ASSUME NEW t \in Threads, Arrive(t) PROVE BarrierInv'
      BY <2>1, <2>4, ArriveStep DEF BarrierInv, Core
    <2>5. ASSUME NEW t \in Threads, LeadWait(t) PROVE BarrierInv'
      BY <2>1, <2>5, LeadWaitStep DEF BarrierInv, Core
    <2>6. ASSUME NEW t \in Threads, Apply(t) PROVE BarrierInv'
      BY <2>1, <2>6, ApplyStep DEF BarrierInv, Core
    <2>7. CASE MasterDecide
      BY <2>1, <2>7, DecideStep DEF BarrierInv, Core
    <2>8. CASE MasterRelease
      BY <2>1, <2>8, ReleaseStep DEF BarrierInv, Core
    <2>9. CASE SigInt
      BY <2>9 DEF SigInt, BarrierInv, Exited
    <2>10. CASE UNCHANGED vars
      <3>1. Core'
        BY <2>1, <2>10
           DEF vars, Core, InPhase, PhaseOK, MasterAhead, SyncCounts, SyncFull,
               Arrived, RoundsOrdered, Programmed, Target, NoPending, Settled,
               NonLeadsFixed, InitUntouched
      <3>2. QED
        BY <3>1 DEF BarrierInv, Core
    <2>11. QED
      BY <2>2, <2>3, <2>4, <2>5, <2>6, <2>7, <2>8, <2>9, <2>10 DEF Next
  <1>3. QED
    BY <1>1, <1>2

\* The initial state satisfies the barrier invariant.
LEMMA BarrierInit ==
  ASSUME Init
  PROVE  BarrierInv
  <1>1. Arrived = {}
    BY DEF Init, Arrived
  <1>2. InPhase /\ MasterAhead
    BY ThreadsCard DEF Init, InPhase, PhaseOK, MasterAhead
  <1>3. SyncCounts /\ SyncFull
    BY <1>1, FS_EmptySet, ThreadsCard DEF Init, SyncCounts, SyncFull
  <1>4. RoundsOrdered /\ Programmed /\ NoPending /\ NonLeadsFixed /\ InitUntouched
    BY DEF Init, RoundsOrdered, Programmed, NoPending, NonLeadsFixed, InitUntouched, Leads
  <1>5. Core
    BY <1>2, <1>3, <1>4 DEF Core
  <1>6. QED
    BY <1>5 DEF BarrierInv, Core

\* Under the design timing (each usleep outlasts the barrier, Drift = 0) the
\* syncflag barrier of thread_start is correct for any number of threads:
\* syncflag counts exactly the arrivals of the current tick, and the module
\* MSRs and dirty flags agree with the tuner between ticks.
LEMMA BarrierCorrect ==
  ASSUME Drift = 0
  PROVE  Spec => []BarrierInv
  <1>1. Init => TypeOK /\ BarrierInv
    BY BarrierInit, MsrAssumption DEF Init, TypeOK
  <1>2. TypeOK /\ BarrierInv /\ [Next]_vars => (TypeOK /\ BarrierInv)'
    BY TypeStep, BarrierStep
  <1>3. QED
    BY <1>1, <1>2, PTL DEF Spec

\* Spec property 3 (hwpf_msr_dirty clear and the module programmed at the
\* start of every sample phase) for every number of threads.
THEOREM ModuleProgrammedHolds ==
  ASSUME Drift = 0
  PROVE  Spec => []ModuleProgrammed
  <1>1. BarrierInv => ModuleProgrammed
    BY DEF BarrierInv, Exited, ModuleProgrammed, Programmed, NoPending, Settled,
           InPhase, Leads
  <1>2. QED
    BY <1>1, BarrierCorrect, PTL

\* A module lead applies only the decision of its own tick.
THEOREM LeadAppliesOwnTickHolds ==
  ASSUME Drift = 0
  PROVE  Spec => []LeadAppliesOwnTick
  <1>1. BarrierInv => LeadAppliesOwnTick
    BY MasterLead DEF BarrierInv, Exited, LeadAppliesOwnTick, InPhase, PhaseOK, Leads
  <1>2. QED
    BY <1>1, BarrierCorrect, PTL

----------------------------------------------------------------------------
(* The refinement of ModuleTuning.                                         *)

\* Core 4m is the lead of module m, and a lead leads its own module.
LEMMA LeadOfModule ==
  /\ \A m \in Modules : LeadOf(m) \in Leads /\ Module(LeadOf(m)) = m
  /\ \A t \in Leads : LeadOf(Module(t)) = t
  BY NAssumption DEF Modules, LeadOf, Leads, Threads, Module, CoreInModule

\* The mapped decisions are images, one per module.
LEMMA TunedTargetType ==
  ASSUME TypeOK
  PROVE  TunedTarget \in [Modules -> MsrVals]
  BY LeadOfModule DEF TunedTarget, Target, TypeOK, Leads

\* A step that moves no thread into or out of "init" or "exit" and leaves
\* hwpf_msr_dirty alone leaves the pending modules as they were.
LEMMA PendingSame ==
  ASSUME ~Exited, ~Exited', dirty' = dirty,
         \A u \in Threads : pc'[u] = "init" <=> pc[u] = "init"
  PROVE  PendingModules' = PendingModules
  BY DEF PendingModules

\* A step that changes one thread's place and nothing the mapping reads
\* besides leaves the abstract state unchanged.
LEMMA MappedStutter ==
  ASSUME TypeOK, NEW t \in Threads, NEW c, c \notin {"init", "exit"},
         pc[t] \notin {"init", "exit"}, ~Exited,
         pc' = [pc EXCEPT ![t] = c],
         UNCHANGED <<round, desired, dirty, arm, msr, tunealg>>
  PROVE  UNCHANGED Tuning!avars
  <1>1. ~Exited'
    BY DEF Exited, TypeOK
  <1>2. \A u \in Threads : pc'[u] = "init" <=> pc[u] = "init"
    BY DEF TypeOK
  <1>3. PendingModules' = PendingModules
    BY <1>1, <1>2, PendingSame
  <1>4. TunedTarget' = TunedTarget
    BY DEF TunedTarget, Target
  <1>5. QED
    BY <1>1, <1>3, <1>4 DEF Tuning!avars

\* Start(t) is a write of the module's decision: nothing has been decided
\* yet, so the startup image is the one every lead targets.
LEMMA RefStart ==
  ASSUME TypeOK, Core, ~Exited, NEW t \in Threads, Start(t)
  PROVE  Tuning!Program(Module(t))
  <1> DEFINE m == Module(t)
  <1>1. round = 0 /\ arm = InitVal /\ \A u \in Threads : desired[u] = InitVal
    BY DEF Start, Core, InitUntouched
  <1>2. m \in Modules /\ LeadOf(m) \in Leads
    BY ModuleInModules, LeadOfModule
  <1>3. msr' = [msr EXCEPT ![m] = TunedTarget[m]]
    BY <1>1, <1>2 DEF Start, TunedTarget, Target, Leads
  <1>4. m \in PendingModules
    BY <1>2 DEF Start, PendingModules
  <1>5. ~Exited'
    BY DEF Start, Exited, TypeOK
  <1>6. \A x \in Modules \ {m} : x \in PendingModules' <=> x \in PendingModules
    BY <1>5 DEF Start, PendingModules, TypeOK
  <1>7. PendingModules' \in {PendingModules, PendingModules \ {m}}
    <2>1. CASE m \in PendingModules'
      <3>1. PendingModules' = PendingModules
        BY <2>1, <1>4, <1>6 DEF PendingModules
      <3>2. QED
        BY <3>1
    <2>2. CASE m \notin PendingModules'
      <3>1. PendingModules' = PendingModules \ {m}
        BY <2>2, <1>6 DEF PendingModules
      <3>2. QED
        BY <3>1
    <2>3. QED
      BY <2>1, <2>2
  <1>8. TunedTarget' = TunedTarget
    BY DEF Start, TunedTarget, Target
  <1>9. QED
    BY <1>3, <1>4, <1>5, <1>7, <1>8 DEF Start, Tuning!Program

\* Apply(t) with hwpf_msr_dirty set writes the module's decision; without
\* it the step changes nothing the abstraction sees.
LEMMA RefApply ==
  ASSUME TypeOK, Core, ~Exited, NEW t \in Threads, Apply(t)
  PROVE  Tuning!Program(Module(t)) \/ UNCHANGED Tuning!avars
  <1> DEFINE m == Module(t)
  <1>1. t \in Leads
    BY MasterLead DEF Apply, Core, InPhase, PhaseOK
  <1>2. m \in Modules /\ LeadOf(m) = t
    BY <1>1, ModuleInModules, LeadOfModule
  <1>3. ~Exited'
    BY DEF Apply, Exited, TypeOK
  <1>4. TunedTarget' = TunedTarget
    BY DEF Apply, TunedTarget, Target
  <1>5. CASE dirty[t]
    <2>1. msr' = [msr EXCEPT ![m] = TunedTarget[m]]
      BY <1>5, <1>2 DEF Apply, TunedTarget
    <2>2. m \in PendingModules
      BY <1>5, <1>2 DEF PendingModules
    <2>3. \A x \in Modules \ {m} : x \in PendingModules' <=> x \in PendingModules
      <3>1. \A x \in Modules \ {m} : LeadOf(x) # t /\ LeadOf(x) \in Threads
        BY <1>2, LeadOfModule DEF Leads
      <3>2. \A x \in Modules \ {m} : dirty'[LeadOf(x)] = dirty[LeadOf(x)]
        BY <1>5, <3>1 DEF Apply, TypeOK
      <3>3. \A u \in Threads : pc'[u] = "init" <=> pc[u] = "init"
        BY DEF Apply, TypeOK
      <3>4. QED
        BY <1>3, <3>2, <3>3 DEF PendingModules
    <2>4. PendingModules' \in {PendingModules, PendingModules \ {m}}
      <3>1. CASE m \in PendingModules'
        BY <3>1, <2>2, <2>3 DEF PendingModules
      <3>2. CASE m \notin PendingModules'
        BY <3>2, <2>3 DEF PendingModules
      <3>3. QED
        BY <3>1, <3>2
    <2>5. QED
      BY <1>3, <1>4, <2>1, <2>2, <2>4 DEF Apply, Tuning!Program
  <1>6. CASE ~dirty[t]
    <2>1. pc[t] \notin {"init", "exit"} /\ "sleep" \notin {"init", "exit"}
      BY DEF Apply
    <2>2. UNCHANGED <<round, desired, dirty, arm, msr, tunealg>>
      BY <1>6 DEF Apply
    <2>3. QED
      BY <2>1, <2>2, MappedStutter DEF Apply
  <1>7. QED
    BY <1>5, <1>6

\* MasterDecide is a decision: all N threads have arrived, so every core has
\* done its start write and no lead has a write pending; the new dirty
\* flags mark exactly the modules whose image changes.
LEMMA RefDecide ==
  ASSUME TypeOK, Core, ~Exited, MasterDecide
  PROVE  Tuning!Decide
  <1>1. \A t \in Threads : tick[t] = round + 1 /\ pc[t] # "arrive"
    BY AllArrived DEF Arrived
  <1>2. \A t \in Threads : pc[t] = IF t \in Leads THEN "wait" ELSE "sleep"
    BY <1>1 DEF Core, InPhase, PhaseOK
  <1>3. \A t \in Leads : ~dirty[t]
    BY <1>1, <1>2 DEF Core, NoPending, Settled, Leads
  <1>4. PendingModules = {}
    BY <1>2, <1>3, LeadOfModule DEF PendingModules
  <1>5. /\ pc' = [pc EXCEPT ![Master] = "release"]
        /\ \A t \in Threads : pc'[t] \notin {"init", "exit"}
        /\ ~Exited'
    BY <1>2, ThreadsCard DEF MasterDecide, Exited, TypeOK
  <1>6. \A t \in Leads : dirty'[t] <=> Target(t)' # Target(t)
    <2>1. CASE tunealg = "basic"
      <3>1. PICK v \in [Leads -> MsrVals] :
              /\ desired' = [u \in Threads |-> IF u \in Leads THEN v[u] ELSE desired[u]]
              /\ dirty' = [u \in Threads |-> dirty[u] \/ (u \in Leads /\ v[u] # desired[u])]
              /\ tunealg' = tunealg
        BY <2>1 DEF MasterDecide, Decision
      <3>2. QED
        BY <2>1, <3>1, <1>3 DEF Target, Leads
    <2>2. CASE tunealg = "mab"
      <3>1. PICK a \in MsrVals :
              /\ arm' = a
              /\ dirty' = [u \in Threads |-> dirty[u] \/ (u \in Leads /\ a # arm)]
              /\ tunealg' = tunealg
        BY <2>2 DEF MasterDecide, Decision
      <3>2. QED
        BY <2>2, <3>1, <1>3 DEF Target, Leads
    <2>3. QED
      BY <2>1, <2>2 DEF TypeOK
  <1>7. PendingModules' = {x \in Modules : TunedTarget'[x] # TunedTarget[x]}
    BY <1>5, <1>6, LeadOfModule DEF PendingModules, TunedTarget
  <1>8. TunedTarget' \in [Modules -> MsrVals]
    <2>1. TypeOK'
      BY TypeStep DEF Next
    <2>2. QED
      BY <2>1, LeadOfModule DEF TunedTarget, Target, TypeOK, Leads
  <1>9. QED
    BY <1>4, <1>5, <1>7, <1>8 DEF MasterDecide, Tuning!Decide

\* sigintHandler's exit(1) is the abstract stop.
LEMMA RefSigInt ==
  ASSUME ~Exited, SigInt
  PROVE  Tuning!Stop
  <1>1. Exited' /\ PendingModules' = {}
    BY DEF SigInt, Exited, PendingModules
  <1>2. TunedTarget' = TunedTarget
    BY DEF SigInt, TunedTarget, Target
  <1>3. QED
    BY <1>1, <1>2 DEF SigInt, Tuning!Stop

\* After exit(1) no thread moves, so the abstraction stutters.
LEMMA RefExited ==
  ASSUME TypeOK, Exited, [Next]_vars
  PROVE  UNCHANGED Tuning!avars
  <1>1. ~\E t \in Threads : Start(t) \/ Sample(t) \/ Arrive(t) \/ LeadWait(t) \/ Apply(t)
    BY DEF Exited, Start, Sample, Arrive, LeadWait, Apply
  <1>2. ~MasterDecide /\ ~MasterRelease /\ ~SigInt
    BY ThreadsCard DEF Exited, MasterDecide, MasterRelease, SigInt
  <1>3. UNCHANGED vars
    BY <1>1, <1>2 DEF Next
  <1>4. QED
    BY <1>3 DEF vars, Tuning!avars, TunedTarget, Target, PendingModules, Exited

\* Every step of the loop is a step of ModuleTuning or leaves it unchanged.
LEMMA RefStep ==
  ASSUME TypeOK, BarrierInv, [Next]_vars
  PROVE  [Tuning!Next]_Tuning!avars
  <1>1. CASE Exited
    BY <1>1, RefExited
  <1>2. CASE ~Exited
    <2>1. Core
      BY <1>2 DEF BarrierInv, Core
    <2>2. ASSUME NEW t \in Threads, Start(t) PROVE [Tuning!Next]_Tuning!avars
      BY <1>2, <2>1, <2>2, RefStart, ModuleInModules DEF Tuning!Next
    <2>3. ASSUME NEW t \in Threads, Sample(t) PROVE [Tuning!Next]_Tuning!avars
      BY <1>2, <2>3, MappedStutter DEF Sample
    <2>4. ASSUME NEW t \in Threads, Arrive(t) PROVE [Tuning!Next]_Tuning!avars
      <3>1. (IF t \in Leads THEN "wait" ELSE "sleep") \notin {"init", "exit"}
        OBVIOUS
      <3>2. QED
        BY <1>2, <2>4, <3>1, MappedStutter DEF Arrive
    <2>5. ASSUME NEW t \in Threads, LeadWait(t) PROVE [Tuning!Next]_Tuning!avars
      BY <1>2, <2>5, MappedStutter DEF LeadWait
    <2>6. ASSUME NEW t \in Threads, Apply(t) PROVE [Tuning!Next]_Tuning!avars
      BY <1>2, <2>1, <2>6, RefApply, ModuleInModules DEF Tuning!Next
    <2>7. CASE MasterDecide
      BY <1>2, <2>1, <2>7, RefDecide DEF Tuning!Next
    <2>8. CASE MasterRelease
      BY <1>2, <2>8, ThreadsCard, MappedStutter DEF MasterRelease
    <2>9. CASE SigInt
      BY <1>2, <2>9, RefSigInt DEF Tuning!Next
    <2>10. CASE UNCHANGED vars
      BY <2>10 DEF vars, Tuning!avars, TunedTarget, Target, PendingModules, Exited
    <2>11. QED
      BY <2>2, <2>3, <2>4, <2>5, <2>6, <2>7, <2>8, <2>9, <2>10 DEF Next
  <1>3. QED
    BY <1>1, <1>2

\* The loop starts where ModuleTuning starts: nothing decided, every
\* module still to be written.
LEMMA RefInit ==
  ASSUME Init PROVE Tuning!Init
  <1>1. TunedTarget = [m \in Modules |-> InitVal]
    BY LeadOfModule DEF Init, TunedTarget, Target, Leads
  <1>2. ~Exited
    BY ThreadsCard DEF Init, Exited
  <1>3. PendingModules = Modules
    BY <1>2 DEF Init, PendingModules, Modules
  <1>4. QED
    BY <1>1, <1>2, <1>3 DEF Init, Tuning!Init

\* Under the design timing (Drift = 0), thread_start implements
\* ModuleTuning for every number of threads and every set of images: each
\* calculate_settings() finds every module programmed with the previous
\* decision, each write of a module's prefetcher MSR carries the current
\* decision, and hwpf_msr_dirty marks exactly the modules it changed.
THEOREM RefinementHolds ==
  ASSUME Drift = 0
  PROVE  Spec => ImplementsModuleTuning
  <1>1. TypeOK /\ BarrierInv /\ [Next]_vars => [Tuning!Next]_Tuning!avars
    BY RefStep
  <1>2. QED
    BY <1>1, RefInit, BarrierCorrect, TypeCorrect, PTL
       DEF Spec, ImplementsModuleTuning, Tuning!Spec

=============================================================================
