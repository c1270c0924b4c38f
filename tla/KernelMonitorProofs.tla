------------------------ MODULE KernelMonitorProofs ------------------------
(***************************************************************************)
(* Proofs about the kernel monitor (KernelMonitor) for every number of     *)
(* CPUs, every set of MSR images, every set of core ranges and every       *)
(* bound on the callbacks.                                                 *)
(***************************************************************************)
EXTENDS KernelMonitor, TLAPS

\* The module MSRs, the domain of hw.
ModSet == {Module(c) : c \in Cpus}

\* A pf_msr cache, its dirty flags and the module MSRs agree: only a loaded
\* image is dirty, and a clean loaded image is what the MSR holds.
Synced(ca, di, h) ==
  /\ \A d \in Leads : di[d] => ca[d] # Unloaded
  /\ \A d \in Leads : (ca[d] # Unloaded /\ ~di[d]) => h[Module(d)] = ca[d]

\* Two module leads never share a module MSR.
LEMMA LeadModule ==
  ASSUME NEW c \in Leads, NEW d \in Leads, Module(c) = Module(d)
  PROVE  c = d
  <1>1. c % 4 = 0 /\ d % 4 = 0 /\ c \in Nat /\ d \in Nat
    BY DEF Leads, CoreInModule, Cpus
  <1>2. c = 4 * (c \div 4) /\ d = 4 * (d \div 4)
    BY <1>1
  <1>3. QED
    BY <1>2 DEF Module

\* The tuner keeps the cache, the flags and the MSRs in agreement, and
\* types.
LEMMA TunedSynced ==
  ASSUME NEW nv \in [Leads -> MsrVals],
         cache \in [Leads -> MsrVals \cup {Unloaded}],
         dirty \in [Leads -> BOOLEAN],
         Synced(cache, dirty, hw)
  PROVE  /\ Tuned(nv) \in [Leads -> MsrVals \cup {Unloaded}]
         /\ TunedDirty(nv) \in [Leads -> BOOLEAN]
         /\ Synced(Tuned(nv), TunedDirty(nv), hw)
  BY ValAssumption DEF Tuned, TunedDirty, Synced

\* msr_update on a dirty lead writes its image and keeps the agreement.
LEMMA WriteSynced ==
  ASSUME NEW ca \in [Leads -> MsrVals \cup {Unloaded}],
         NEW di \in [Leads -> BOOLEAN],
         NEW h \in [ModSet -> MsrVals],
         NEW c \in Leads, di[c], Synced(ca, di, h)
  PROVE  /\ [h EXCEPT ![Module(c)] = ca[c]] \in [ModSet -> MsrVals]
         /\ [di EXCEPT ![c] = FALSE] \in [Leads -> BOOLEAN]
         /\ Synced(ca, [di EXCEPT ![c] = FALSE], [h EXCEPT ![Module(c)] = ca[c]])
  <1>1. ca[c] \in MsrVals
    BY DEF Synced
  <1>2. Module(c) \in ModSet
    BY DEF ModSet, Leads
  <1>3. \A d \in Leads : d # c => Module(d) # Module(c)
    BY LeadModule
  <1>4. QED
    BY <1>1, <1>2, <1>3 DEF Synced

\* MonitorInv restated with the agreement as one conjunct.
LEMMA InvSynced ==
  MonitorInv <=> /\ TypeOK
                 /\ hw \in [ModSet -> MsrVals]
                 /\ tuning \in {"on", "off"}
                 /\ hpc = "range" => hcur < NCpu
                 /\ keepRunning = (tuning = "on")
                 /\ (tuning = "off" /\ hpc \in {"idle", "range", "gone"}) =>
                      timer = "off"
                 /\ Synced(cache, dirty, hw)
  BY DEF MonitorInv, ModSet, Synced

\* One step of the callback's walk keeps MonitorInv.
LEMMA VisitStep ==
  ASSUME MonitorInv, Visit
  PROVE  MonitorInv'
  <1> DEFINE c == cursor
  <1>1. c \in Cpus /\ c + 1 \in 0..NCpu /\ timer = "running"
    BY NCpuAssumption DEF Visit, MonitorInv, TypeOK, Cpus
  <1>2. /\ UNCHANGED <<disabled, keepRunning, timer, ticks, hpc, hcur, hrange,
                       tuning>>
        /\ cursor' = c + 1
    BY DEF Visit
  <1>3. CASE disabled[c]
    <2>1. UNCHANGED <<last, full, stamp, cache, dirty, hw, visited>>
      BY <1>3 DEF Visit
    <2>2. QED
      BY <1>1, <1>2, <2>1 DEF MonitorInv, TypeOK
  <1>4. CASE ~disabled[c]
    <2>1. /\ visited' = IF c \in Leads THEN visited \cup {c} ELSE visited
          /\ last' = [last EXCEPT ![c] = "timer"]
          /\ full' = [full EXCEPT ![c] = last[c] = "timer"]
          /\ stamp' = [stamp EXCEPT ![c] = ticks]
      BY <1>4 DEF Visit
    <2>2. /\ visited' \subseteq Leads
          /\ last' \in [Cpus -> {"timer", "handler"}]
          /\ full' \in [Cpus -> BOOLEAN]
          /\ stamp' \in [Cpus -> 0..MaxTicks]
      BY <1>1, <2>1 DEF MonitorInv, TypeOK
    <2>3. PICK nv \in [Leads -> MsrVals] :
            LET cache1 == IF c = FirstCore THEN Tuned(nv) ELSE cache
                dirty1 == IF c = FirstCore THEN TunedDirty(nv) ELSE dirty
            IN /\ cache' = cache1
               /\ IF c \in Leads /\ dirty1[c]
                    THEN /\ hw' = [hw EXCEPT ![Module(c)] = cache1[c]]
                         /\ dirty' = [dirty1 EXCEPT ![c] = FALSE]
                    ELSE /\ hw' = hw
                         /\ dirty' = dirty1
      BY <1>4 DEF Visit
    <2> DEFINE cache1 == IF c = FirstCore THEN Tuned(nv) ELSE cache
               dirty1 == IF c = FirstCore THEN TunedDirty(nv) ELSE dirty
    <2>4. /\ cache1 \in [Leads -> MsrVals \cup {Unloaded}]
          /\ dirty1 \in [Leads -> BOOLEAN]
          /\ hw \in [ModSet -> MsrVals]
          /\ Synced(cache1, dirty1, hw)
      BY TunedSynced, InvSynced DEF TypeOK
    <2>5. /\ cache' \in [Leads -> MsrVals \cup {Unloaded}]
          /\ dirty' \in [Leads -> BOOLEAN]
          /\ hw' \in [ModSet -> MsrVals]
          /\ Synced(cache', dirty', hw')
      <3>1. CASE c \in Leads /\ dirty1[c]
        <4>1. /\ [hw EXCEPT ![Module(c)] = cache1[c]] \in [ModSet -> MsrVals]
              /\ [dirty1 EXCEPT ![c] = FALSE] \in [Leads -> BOOLEAN]
              /\ Synced(cache1, [dirty1 EXCEPT ![c] = FALSE],
                        [hw EXCEPT ![Module(c)] = cache1[c]])
          BY <2>4, <3>1, WriteSynced
        <4>2. QED
          BY <2>3, <2>4, <3>1, <4>1
      <3>2. CASE ~(c \in Leads /\ dirty1[c])
        BY <2>3, <2>4, <3>2
      <3>3. QED
        BY <3>1, <3>2
    <2>6. QED
      BY <1>1, <1>2, <2>2, <2>5 DEF MonitorInv, TypeOK, Synced, ModSet
  <1>5. QED
    BY <1>3, <1>4

\* Every step keeps MonitorInv: the callback's steps and the handlers'.
LEMMA MonitorStep ==
  ASSUME MonitorInv, [Next]_vars
  PROVE  MonitorInv'
  <1> USE NCpuAssumption, BoundAssumption
  <1>1. CASE Fire
    BY <1>1 DEF Fire, MonitorInv, TypeOK
  <1>2. CASE Visit
    BY <1>2, VisitStep
  <1>3. CASE Rearm
    BY <1>3 DEF Rearm, MonitorInv, TypeOK
  <1>4. CASE CoreRange
    BY <1>4 DEF CoreRange, MonitorInv, TypeOK
  <1>5. CASE RangeStep
    BY <1>5 DEF RangeStep, MonitorInv, TypeOK, Cpus
  <1>6. CASE TuningOn
    <2>1. \A c \in Leads : Module(c) \in ModSet
      BY DEF ModSet, Leads
    <2>2. QED
      BY <1>6, <2>1, ValAssumption DEF TuningOn, MonitorInv, TypeOK, ModSet
  <1>7. CASE TuningOff
    BY <1>7 DEF TuningOff, MonitorInv, TypeOK
  <1>8. CASE Cancel
    BY <1>8 DEF Cancel, MonitorInv, TypeOK
  <1>9. CASE PmuRead
    BY <1>9 DEF PmuRead, MonitorInv, TypeOK, Cpus
  <1>10. CASE MsrRead
    <2>1. PICK c \in {d \in Leads : ~disabled[d] /\ cache[d] = Unloaded} :
            cache' = [cache EXCEPT ![c] = hw[Module(c)]]
      BY <1>10 DEF MsrRead
    <2>2. Module(c) \in ModSet /\ ~dirty[c]
      BY <2>1 DEF ModSet, Leads, MonitorInv
    <2>3. \A d \in Leads : d # c => Module(d) # Module(c)
      BY <2>1, LeadModule
    <2>4. QED
      BY <1>10, <2>1, <2>2, <2>3, ValAssumption
      DEF MsrRead, MonitorInv, TypeOK, ModSet
  <1>11. CASE Unload
    BY <1>11 DEF Unload, MonitorInv, TypeOK
  <1>12. CASE UNCHANGED vars
    BY <1>12 DEF vars, MonitorInv, TypeOK
  <1>13. QED
    BY <1>1, <1>2, <1>3, <1>4, <1>5, <1>6, <1>7, <1>8, <1>9, <1>10, <1>11,
       <1>12 DEF Next

\* After dpf_module_init the invariant holds: nothing is loaded or dirty.
LEMMA MonitorInit ==
  Init => MonitorInv
  <1> SUFFICES ASSUME Init PROVE MonitorInv
    OBVIOUS
  <1>1. TypeOK
    <2>1. /\ disabled \in [Cpus -> BOOLEAN]
          /\ last \in [Cpus -> {"timer", "handler"}]
          /\ full \in [Cpus -> BOOLEAN]
      BY DEF Init
    <2>2. stamp \in [Cpus -> 0..MaxTicks] /\ ticks \in 0..MaxTicks
      BY BoundAssumption DEF Init
    <2>3. cursor \in 0..NCpu /\ hcur \in 0..NCpu
      BY NCpuAssumption DEF Init
    <2>4. cache \in [Leads -> MsrVals \cup {Unloaded}] /\ dirty \in [Leads -> BOOLEAN]
      BY DEF Init
    <2>5. QED
      BY <2>1, <2>2, <2>3, <2>4 DEF Init, TypeOK
  <1>2. Synced(cache, dirty, hw)
    BY DEF Init, Synced
  <1>3. hw \in [ModSet -> MsrVals]
    BY DEF Init, ModSet
  <1>4. QED
    BY <1>1, <1>2, <1>3, InvSynced DEF Init

\* MonitorInv holds in every reachable state, whatever the number of CPUs,
\* FIRST_CORE, the images, the ranges and the bound on callbacks: the
\* callback and the serialised handlers (core_range, tuning, pmu_read,
\* msr_read, module exit) never leave a clean loaded pf_msr that differs
\* from its module's MSR, and tuning off leaves the timer off.
THEOREM MonitorCorrect == Spec => []MonitorInv
  <1>1. Init => MonitorInv
    BY MonitorInit
  <1>2. MonitorInv /\ [Next]_vars => MonitorInv'
    BY MonitorStep
  <1>3. QED
    BY <1>1, <1>2, PTL DEF Spec

\* The hrtimer callback and the handlers (core_range, tuning, pmu_read,
\* msr_read, module exit) keep corestate, the timer and the MSRs in their
\* types for every instance.
THEOREM TypeCorrect == Spec => []TypeOK
  <1>1. MonitorInv => TypeOK
    BY DEF MonitorInv
  <1>2. QED
    BY <1>1, MonitorCorrect, PTL

\* Once handle_tuning(0) or dpf_module_exit has returned from
\* hrtimer_cancel, the monitor timer is neither queued nor running: no
\* callback survives a stop, for every instance.
THEOREM StopIsFinalHolds == Spec => []StopIsFinal
  <1>1. MonitorInv => StopIsFinal
    BY DEF MonitorInv, StopIsFinal
  <1>2. QED
    BY <1>1, MonitorCorrect, PTL

\* With FIRST_CORE = 0, a step of the walk keeps the visited leads clean:
\* the tuner runs at core 0, before any lead is visited.
LEMMA VisitInvVisit ==
  ASSUME FirstCore = 0, MonitorInv, VisitInv, Visit
  PROVE  VisitInv'
  <1> DEFINE c == cursor
  <1>1. c \in Cpus /\ cursor' = c + 1 /\ timer' = "running"
    BY NCpuAssumption DEF Visit, MonitorInv, TypeOK, Cpus
  <1>2. CASE disabled[c]
    BY <1>1, <1>2 DEF Visit, VisitInv, MonitorInv, TypeOK, Leads, Cpus
  <1>3. CASE ~disabled[c]
    <2>1. visited' = IF c \in Leads THEN visited \cup {c} ELSE visited
      BY <1>3 DEF Visit
    <2>2. PICK nv \in [Leads -> MsrVals] :
            LET cache1 == IF c = FirstCore THEN Tuned(nv) ELSE cache
                dirty1 == IF c = FirstCore THEN TunedDirty(nv) ELSE dirty
            IN /\ cache' = cache1
               /\ IF c \in Leads /\ dirty1[c]
                    THEN /\ hw' = [hw EXCEPT ![Module(c)] = cache1[c]]
                         /\ dirty' = [dirty1 EXCEPT ![c] = FALSE]
                    ELSE /\ hw' = hw
                         /\ dirty' = dirty1
      BY <1>3 DEF Visit
    <2> DEFINE dirty1 == IF c = FirstCore THEN TunedDirty(nv) ELSE dirty
    <2>3. dirty1 \in [Leads -> BOOLEAN]
      BY DEF MonitorInv, TypeOK, TunedDirty
    <2>4. \A d \in visited' : d # c => ~dirty1[d]
      <3>1. CASE c = FirstCore
        <4>1. visited = {}
          BY <1>1, <3>1 DEF VisitInv, Visit, MonitorInv, TypeOK, Leads, Cpus
        <4>2. QED
          BY <2>1, <4>1
      <3>2. CASE c # FirstCore
        BY <2>1, <3>2 DEF VisitInv
      <3>3. QED
        BY <3>1, <3>2
    <2>5. \A d \in visited' : ~dirty'[d]
      BY <2>1, <2>2, <2>3, <2>4 DEF MonitorInv, TypeOK
    <2>6. \A d \in visited' : d < cursor'
      BY <1>1, <2>1 DEF VisitInv, Visit, MonitorInv, TypeOK, Cpus, Leads
    <2>7. QED
      BY <2>5, <2>6 DEF VisitInv
  <1>4. QED
    BY <1>2, <1>3

\* With FIRST_CORE = 0, every step keeps VisitInv.
LEMMA VisitInvStep ==
  ASSUME FirstCore = 0, MonitorInv, VisitInv, [Next]_vars
  PROVE  VisitInv'
  <1>1. CASE Fire
    BY <1>1 DEF Fire, VisitInv
  <1>2. CASE Visit
    BY <1>2, VisitInvVisit
  <1>3. CASE TuningOn
    BY <1>3 DEF TuningOn, VisitInv, MonitorInv, TypeOK
  <1>4. CASE Cancel
    BY <1>4 DEF Cancel, VisitInv
  <1>5. CASE Rearm \/ CoreRange \/ RangeStep \/ TuningOff \/ PmuRead
             \/ MsrRead \/ Unload \/ UNCHANGED vars
    BY <1>5 DEF Rearm, CoreRange, RangeStep, TuningOff, PmuRead, MsrRead,
                Unload, vars, VisitInv
  <1>6. QED
    BY <1>1, <1>2, <1>3, <1>4, <1>5 DEF Next

\* With the tuner at the walk's first core (FIRST_CORE = 0), the leads a
\* callback has visited are clean in every reachable state, for every
\* instance.
THEOREM VisitCorrect ==
  ASSUME FirstCore = 0
  PROVE  Spec => [](MonitorInv /\ VisitInv)
  <1>1. Init => MonitorInv /\ VisitInv
    BY MonitorInit DEF Init, VisitInv
  <1>2. (MonitorInv /\ VisitInv) /\ [Next]_vars => (MonitorInv /\ VisitInv)'
    BY MonitorStep, VisitInvStep
  <1>3. QED
    BY <1>1, <1>2, PTL DEF Spec

\* With FIRST_CORE = 0, between callbacks every module lead the last
\* callback visited with a loaded pf_msr is clean and its module's MSR
\* holds its image (monitor_callback's msr_update applies the tick's
\* decision in the same tick), for every instance.
THEOREM ModulesProgrammedHolds ==
  ASSUME FirstCore = 0
  PROVE  Spec => []ModulesProgrammed
  <1>1. MonitorInv /\ VisitInv => ModulesProgrammed
    BY DEF MonitorInv, VisitInv, ModulesProgrammed, TypeOK
  <1>2. QED
    BY <1>1, VisitCorrect, PTL

=============================================================================
