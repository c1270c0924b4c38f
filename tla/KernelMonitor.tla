--------------------------- MODULE KernelMonitor ---------------------------
(***************************************************************************)
(* The periodic monitor of the kernel module (src/kernelmod/kernel_dpf.c): *)
(* the hrtimer callback that walks the online CPUs, samples every enabled  *)
(* core, runs the tuner when it reaches FIRST_CORE and has each module     *)
(* lead write its module's prefetch MSR when dirty; and the effects of the *)
(* proc-file handlers on that state: core_range (the core_disabled flags,  *)
(* one core at a time), tuning on (msr_load on enabled leads, start the    *)
(* timer) and off (keep_running = false, hrtimer_cancel), pmu_read (an     *)
(* extra pmu_update) and msr_read (msr_load of a not yet loaded core), and *)
(* module exit.  The handlers are serialised by dpf_mutex, so one handler  *)
(* process stands for them; the callback takes no lock.                    *)
(*                                                                         *)
(* msr_load, msr_update, is_msr_dirty, pmu_update and kernel_basicalg are  *)
(* in kernel_primitive.h, outside src/; they are modelled by their         *)
(* contract: msr_load caches the module's MSR, msr_update writes the cache *)
(* back and clears dirty, pmu_update turns the counters since the last     *)
(* update into the core's pmu_result, and the tuner picks new MSR images   *)
(* for the enabled leads, dirty where they change.                         *)
(***************************************************************************)
EXTENDS Integers, FiniteSets

CONSTANTS
  NCpu,       \* online CPUs 0..NCpu-1
  FirstCore,  \* FIRST_CORE
  MsrVals,    \* MSR images
  Unloaded,   \* a pf_msr cache never loaded (value 0)
  Ranges,     \* the core ranges a core_range request may carry
  PmuReads,   \* whether pmu_read requests are made
  MaxTicks    \* bound on timer callbacks

ASSUME NCpuAssumption == NCpu \in Nat \ {0} /\ FirstCore \in 0..NCpu-1
ASSUME ValAssumption == Unloaded \notin MsrVals /\ MsrVals # {}
ASSUME RangeAssumption == Ranges \subseteq (0..NCpu-1) \X (0..NCpu-1)
ASSUME BoundAssumption == PmuReads \in BOOLEAN /\ MaxTicks \in Nat

Cpus == 0..NCpu-1
CoreInModule(c) == c % 4
Module(c) == c \div 4
Leads == {c \in Cpus : CoreInModule(c) = 0}

VARIABLES
  disabled,    \* corestate[c].core_disabled
  keepRunning, \* keep_running
  timer,       \* monitor_timer: "off", "queued" or "running"
  cursor,      \* the callback's core_id in for_each_online_cpu
  ticks,       \* callbacks run so far
  last,        \* last[c]: who made c's last pmu_update: "timer" or "handler"
  full,        \* full[c]: c's pmu_result spans a whole timer period
  stamp,       \* stamp[c]: the callback whose pmu_update set pmu_result
  cache,       \* cache[c]: corestate[c].pf_msr of a lead
  dirty,       \* dirty[c]: is_msr_dirty(c) of a lead
  hw,          \* hw[m]: the prefetch MSR of module m
  hpc,         \* the handler: "idle", "range", "cancel", "unload", "gone"
  hcur,        \* the handler's core_id in the core_range loop
  hrange,      \* the range being applied
  tuning,      \* the last tuning request: "on" or "off"
  visited      \* ghost: the enabled leads this callback has visited

vars == <<disabled, keepRunning, timer, cursor, ticks, last, full, stamp, cache,
          dirty, hw, hpc, hcur, hrange, tuning, visited>>

\* After dpf_module_init (lines 463-465, 480-482): every core disabled, the
\* timer initialised but not started; the MSRs hold whatever the firmware
\* set.
Init ==
  /\ disabled = [c \in Cpus |-> TRUE]
  /\ keepRunning = FALSE
  /\ timer = "off"
  /\ cursor = 0
  /\ ticks = 0
  /\ last = [c \in Cpus |-> "timer"]
  /\ full = [c \in Cpus |-> TRUE]
  /\ stamp = [c \in Cpus |-> 0]
  /\ cache = [c \in Leads |-> Unloaded]
  /\ dirty = [c \in Leads |-> FALSE]
  /\ hw \in [{Module(c) : c \in Cpus} -> MsrVals]
  /\ hpc = "idle"
  /\ hcur = 0
  /\ hrange = <<0, 0>>
  /\ tuning = "off"
  /\ visited = {}

(***************************************************************************)
(* monitor_callback, lines 418-454.                                        *)
(***************************************************************************)

\* The timer expires: with keep_running false it returns HRTIMER_NORESTART
\* (line 422), otherwise the walk over the CPUs begins.
Fire ==
  /\ timer = "queued"
  /\ ticks < MaxTicks
  /\ IF keepRunning
       THEN /\ timer' = "running"
            /\ cursor' = 0
            /\ ticks' = ticks + 1
            /\ visited' = {}
       ELSE /\ timer' = "off"
            /\ UNCHANGED <<cursor, ticks, visited>>
  /\ UNCHANGED <<disabled, keepRunning, last, full, stamp, cache, dirty, hw, hpc,
                 hcur, hrange, tuning>>

\* kernel_basicalg(0), run when the walk reaches FIRST_CORE: new images
\* for the enabled leads, dirty where they change.
\* Mutant: is_msr_dirty misses the tuner's changes.
TunedDirtyLost(newVal) == dirty

Tuned(newVal) == [d \in Leads |-> IF disabled[d] THEN cache[d] ELSE newVal[d]]
TunedDirty(newVal) ==
  [d \in Leads |-> dirty[d] \/ (~disabled[d] /\ newVal[d] # cache[d])]

\* Mutant: msr_update writes the MSR but leaves the dirty flag set.
VisitNoClear ==
  LET c == cursor IN
  /\ timer = "running"
  /\ c < NCpu
  /\ cursor' = c + 1
  /\ IF disabled[c]
       THEN UNCHANGED <<last, full, stamp, cache, dirty, hw, visited>>
       ELSE
         /\ visited' = IF c \in Leads THEN visited \cup {c} ELSE visited
         /\ last' = [last EXCEPT ![c] = "timer"]
         /\ full' = [full EXCEPT ![c] = last[c] = "timer"]
         /\ stamp' = [stamp EXCEPT ![c] = ticks]
         /\ \E newVal \in [Leads -> MsrVals] :
              LET cache1 == IF c = FirstCore THEN Tuned(newVal) ELSE cache
                  dirty1 == IF c = FirstCore THEN TunedDirty(newVal) ELSE dirty
              IN /\ cache' = cache1
                 /\ dirty' = dirty1
                 /\ hw' = IF c \in Leads /\ dirty1[c]
                             THEN [hw EXCEPT ![Module(c)] = cache1[c]] ELSE hw
  /\ UNCHANGED <<disabled, keepRunning, timer, ticks, hpc, hcur, hrange,
                 tuning>>

\* Lines 434-448 for core c: pmu_update; at FIRST_CORE the tuner; a dirty
\* module lead then writes its MSR (msr_update).  A disabled core is
\* skipped.
Visit ==
  LET c == cursor IN
  /\ timer = "running"
  /\ c < NCpu
  /\ cursor' = c + 1
  /\ IF disabled[c]
       THEN UNCHANGED <<last, full, stamp, cache, dirty, hw, visited>>
       ELSE
         /\ visited' = IF c \in Leads THEN visited \cup {c} ELSE visited
         /\ last' = [last EXCEPT ![c] = "timer"]
         /\ full' = [full EXCEPT ![c] = last[c] = "timer"]
         /\ stamp' = [stamp EXCEPT ![c] = ticks]
         /\ \E newVal \in [Leads -> MsrVals] :
              LET cache1 == IF c = FirstCore THEN Tuned(newVal) ELSE cache
                  dirty1 == IF c = FirstCore THEN TunedDirty(newVal) ELSE dirty
              IN /\ cache' = cache1
                 /\ IF c \in Leads /\ dirty1[c]
                      THEN /\ hw' = [hw EXCEPT ![Module(c)] = cache1[c]]
                           /\ dirty' = [dirty1 EXCEPT ![c] = FALSE]
                      ELSE /\ hw' = hw
                           /\ dirty' = dirty1
  /\ UNCHANGED <<disabled, keepRunning, timer, ticks, hpc, hcur, hrange,
                 tuning>>

\* Lines 452-453: hrtimer_forward_now and HRTIMER_RESTART.
Rearm ==
  /\ timer = "running"
  /\ cursor = NCpu
  /\ timer' = "queued"
  /\ UNCHANGED <<disabled, keepRunning, cursor, ticks, last, full, stamp, cache,
                 dirty, hw, hpc, hcur, hrange, tuning, visited>>

(***************************************************************************)
(* The handlers' effects, in process context under dpf_mutex.              *)
(***************************************************************************)

\* handle_core_range (lines 85-124) begins its loop over the cores.
CoreRange ==
  /\ hpc = "idle"
  /\ \E r \in Ranges : hrange' = r
  /\ hpc' = "range"
  /\ hcur' = 0
  /\ UNCHANGED <<disabled, keepRunning, timer, cursor, ticks, last, full,
                 stamp, cache, dirty, hw, tuning, visited>>

\* Mutant: the loop runs one core past its end (core_id <= MAX_NUM_CORES).
RangeStepPastEnd ==
  /\ hpc = "range"
  /\ disabled' = [disabled EXCEPT ![hcur] =
                     hcur < hrange[1] \/ hcur > hrange[2]]
  /\ hcur' = hcur + 1
  /\ hpc' = IF hcur = NCpu THEN "idle" ELSE "range"
  /\ UNCHANGED <<keepRunning, timer, cursor, ticks, last, full, stamp, cache,
                 dirty, hw, hrange, tuning, visited>>

\* Lines 105-111 for one core: core_disabled outside the range, and
\* configure_pmu (which programs the counters of the CPU running the
\* handler, whatever core_id says) inside it.
RangeStep ==
  /\ hpc = "range"
  /\ disabled' = [disabled EXCEPT ![hcur] =
                     hcur < hrange[1] \/ hcur > hrange[2]]
  /\ hcur' = hcur + 1
  /\ hpc' = IF hcur + 1 = NCpu THEN "idle" ELSE "range"
  /\ UNCHANGED <<keepRunning, timer, cursor, ticks, last, full, stamp, cache, dirty,
                 hw, hrange, tuning, visited>>

\* handle_tuning with enable == 1 (lines 183-193): msr_load on every
\* enabled lead, keep_running = true, hrtimer_start.  A timer already
\* queued is restarted; one running is re-queued by its own return.
TuningOn ==
  /\ hpc = "idle"
  /\ cache' = [c \in Leads |-> IF disabled[c] THEN cache[c] ELSE hw[Module(c)]]
  /\ dirty' = [c \in Leads |-> IF disabled[c] THEN dirty[c] ELSE FALSE]
  /\ keepRunning' = TRUE
  /\ timer' = IF timer = "running" THEN "running" ELSE "queued"
  /\ tuning' = "on"
  /\ UNCHANGED <<disabled, cursor, ticks, last, full, stamp, hw, hpc, hcur,
                 hrange, visited>>

\* handle_tuning with enable == 0 (lines 195-198): keep_running = false,
\* then hrtimer_cancel, which waits for a running callback.
TuningOff ==
  /\ hpc = "idle"
  /\ keepRunning' = FALSE
  /\ tuning' = "off"
  /\ hpc' = "cancel"
  /\ UNCHANGED <<disabled, timer, cursor, ticks, last, full, stamp, cache, dirty,
                 hw, hcur, hrange, visited>>

\* Mutant: hrtimer_try_to_cancel, which returns at once while the
\* callback runs, in place of hrtimer_cancel.
CancelNoWait ==
  /\ hpc \in {"cancel", "unload"}
  /\ timer' = IF timer = "running" THEN "running" ELSE "off"
  /\ hpc' = IF hpc = "unload" THEN "gone" ELSE "idle"
  /\ UNCHANGED <<disabled, keepRunning, cursor, ticks, last, full, stamp, cache,
                 dirty, hw, hcur, hrange, tuning, visited>>

\* hrtimer_cancel returns once no callback runs; the timer is dequeued.
Cancel ==
  /\ hpc \in {"cancel", "unload"}
  /\ timer # "running"
  /\ timer' = "off"
  /\ hpc' = IF hpc = "unload" THEN "gone" ELSE "idle"
  /\ UNCHANGED <<disabled, keepRunning, cursor, ticks, last, full, stamp, cache,
                 dirty, hw, hcur, hrange, tuning, visited>>

\* handle_pmu_read (lines 287-323) on a valid enabled core: its own
\* pmu_update, which takes the counters since the last update.
PmuRead ==
  /\ hpc = "idle"
  /\ PmuReads
  /\ \E c \in {d \in Cpus : ~disabled[d]} :
       /\ last' = [last EXCEPT ![c] = "handler"]
       /\ full' = [full EXCEPT ![c] = FALSE]
       /\ stamp' = [stamp EXCEPT ![c] = 0]
  /\ UNCHANGED <<disabled, keepRunning, timer, cursor, ticks, cache, dirty,
                 hw, hpc, hcur, hrange, tuning, visited>>

\* handle_msr_read (lines 246-284) on a valid enabled core whose cache
\* reads 0: msr_load.
MsrRead ==
  /\ hpc = "idle"
  /\ \E c \in {d \in Leads : ~disabled[d] /\ cache[d] = Unloaded} :
       cache' = [cache EXCEPT ![c] = hw[Module(c)]]
  /\ UNCHANGED <<disabled, keepRunning, timer, cursor, ticks, last, full,
                 stamp, dirty, hw, hpc, hcur, hrange, tuning, visited>>

\* dpf_module_exit (lines 487-498): keep_running = false, hrtimer_cancel.
Unload ==
  /\ hpc = "idle"
  /\ keepRunning' = FALSE
  /\ tuning' = "off"
  /\ hpc' = "unload"
  /\ UNCHANGED <<disabled, timer, cursor, ticks, last, full, stamp, cache, dirty,
                 hw, hcur, hrange, visited>>

Next ==
  \/ Fire \/ Visit \/ Rearm
  \/ CoreRange \/ RangeStep \/ TuningOn \/ TuningOff \/ Cancel
  \/ PmuRead \/ MsrRead \/ Unload

\* The hrtimer fires and its callback runs to the end on its own CPU; the
\* handler process is not assumed to make requests.
Fairness == WF_vars(Fire) /\ WF_vars(Visit) /\ WF_vars(Rearm)
            /\ WF_vars(RangeStep) /\ WF_vars(Cancel)

Spec == Init /\ [][Next]_vars /\ Fairness

(***************************************************************************)
(* Properties.                                                             *)
(***************************************************************************)

TypeOK ==
  /\ disabled \in [Cpus -> BOOLEAN]
  /\ keepRunning \in BOOLEAN
  /\ timer \in {"off", "queued", "running"}
  /\ cursor \in 0..NCpu
  /\ ticks \in 0..MaxTicks
  /\ last \in [Cpus -> {"timer", "handler"}]
  /\ full \in [Cpus -> BOOLEAN]
  /\ stamp \in [Cpus -> 0..MaxTicks]
  /\ cache \in [Leads -> MsrVals \cup {Unloaded}]
  /\ dirty \in [Leads -> BOOLEAN]
  /\ hpc \in {"idle", "range", "cancel", "unload", "gone"}
  /\ hcur \in 0..NCpu
  /\ visited \subseteq Leads

\* Once tuning off or module exit has returned, no callback is queued or
\* running, so no MSR is written until tuning is turned on again.
StopIsFinal ==
  (tuning = "off" /\ hpc \in {"idle", "gone"}) => timer = "off"

\* Between callbacks, every module lead the last callback visited with a
\* loaded pf_msr has its module's MSR programmed with that image and is
\* clean, whatever tuning, msr_read and core_range requests ran during the
\* walk: no decision of that tick waits for a later one.
ModulesProgrammed ==
  timer # "running" =>
    \A c \in visited :
      cache[c] # Unloaded => ~dirty[c] /\ hw[Module(c)] = cache[c]

\* The invariant behind StopIsFinal and ModulesProgrammed, for any
\* FIRST_CORE: keep_running follows the last tuning request; with tuning
\* off the timer is off except while hrtimer_cancel waits; only a loaded
\* pf_msr is ever dirty; and a clean loaded lead's image is what its
\* module's MSR holds, however handlers and callbacks interleave.
MonitorInv ==
  /\ TypeOK
  /\ hw \in [{Module(c) : c \in Cpus} -> MsrVals]
  /\ tuning \in {"on", "off"}
  /\ hpc = "range" => hcur < NCpu
  /\ keepRunning = (tuning = "on")
  /\ (tuning = "off" /\ hpc \in {"idle", "range", "gone"}) => timer = "off"
  /\ \A c \in Leads : dirty[c] => cache[c] # Unloaded
  /\ \A c \in Leads : (cache[c] # Unloaded /\ ~dirty[c]) =>
                        hw[Module(c)] = cache[c]

\* With the tuner at a callback's first core, every lead the callback has
\* visited is clean: the walk visits the leads in order after the tuner
\* has marked them, and each writes its MSR when visited.
VisitInv ==
  /\ timer = "running" => \A c \in visited : c < cursor
  /\ \A c \in visited : ~dirty[c]

\* The spec: each tick samples every enabled core, then decides.  When the
\* tuner runs, every enabled core's pmu_result is the timer's sample of
\* this tick, spanning a whole period.
DecisionSeesTickSamples ==
  [][(timer = "running" /\ cursor = FirstCore /\ cursor < NCpu
      /\ ~disabled[FirstCore] /\ cursor' = cursor + 1)
     => \A c \in Cpus : ~disabled[c] => (stamp'[c] = ticks /\ full'[c])]_vars

=============================================================================
