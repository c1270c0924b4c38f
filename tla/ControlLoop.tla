---------------------------- MODULE ControlLoop ----------------------------
(***************************************************************************)
(* The user-space control loop of dPF (src/main.c, thread_start): one      *)
(* pinned thread per monitored core, tnum 0 .. N-1, running                *)
(*                                                                         *)
(*    sample -> atomic_fetch_add(&syncflag, 1) -> [barrier] -> apply       *)
(*                                                                         *)
(* Thread 0 (core_first) is the master: it spins until syncflag reaches    *)
(* ACTIVE_THREADS, runs calculate_settings() and stores syncflag = 0.      *)
(* The other module leads (CORE_IN_MODULE = 0) spin until syncflag = 0;    *)
(* the remaining cores do not wait at all.  A module of four cores shares  *)
(* one prefetcher MSR, written by its lead when hwpf_msr_dirty is set.     *)
(*                                                                         *)
(* The code has no other synchronisation.  The barrier is reused safely  *)
(* only if no thread wakes for tick k+1 before the master has collected   *)
(* tick k.  The code does not ensure this: the cores that are not module   *)
(* leads never wait, so each tick they gain the time the others spend in   *)
(* the barrier, and they lap it.  The constant Drift bounds how far ahead  *)
(* a thread may run: it may wake for tick k+1 only when every thread has   *)
(* completed tick k - Drift.  Drift = 0 is the timing the design needs;    *)
(* Drift >= MaxTick bounds nothing and is the timing the code has.         *)
(*                                                                         *)
(* The tuners (basicalg, mab) are not in src/; the decision is abstracted  *)
(* to the contract the spec gives them: pick new MSR images and set the    *)
(* dirty flag of the module leads whose image changes.                     *)
(***************************************************************************)
EXTENDS Integers, FiniteSets

CONSTANTS
  N,          \* ACTIVE_THREADS = core_last - core_first + 1
  MsrVals,    \* the prefetcher MSR images a tuner may choose
  InitVal,    \* hwpf_msr_value each thread starts with (written at start)
  Drift,      \* timing: how many ticks a thread may run ahead (see above)
  MaxTick     \* bound on the number of ticks explored

ASSUME NAssumption == N \in Nat \ {0}
ASSUME MsrAssumption == InitVal \in MsrVals
ASSUME DriftAssumption == Drift \in Nat
ASSUME MaxTickAssumption == MaxTick \in Nat

VARIABLES
  pc,        \* pc[t]: where thread t is in thread_start
  tick,      \* tick[t]: samples taken by t; its tstate->pmu_result is of tick[t]
  syncflag,  \* the shared arrival counter
  round,     \* number of completed calculate_settings() calls
  desired,   \* desired[t]: tstate->hwpf_msr_value
  dirty,     \* dirty[t]: tstate->hwpf_msr_dirty
  arm,       \* arms.hwpf_msr_values[mstate.arm]: the MAB's chosen image
  msr,       \* msr[m]: the prefetcher MSR of module m, in hardware
  tunealg    \* tunealg, set once by --alg: "basic" (0 or 1) or "mab" (2)

vars == <<pc, tick, syncflag, round, desired, dirty, arm, msr, tunealg>>

Threads == 0 .. N - 1
Master == 0                           \* tstate->core_id == core_first
\* CORE_IN_MODULE: (core_id - core_first) % 4, and core_id = core_first + tnum
CoreInModule(t) == t % 4
Module(t) == t \div 4
Modules == {Module(t) : t \in Threads}
Leads == {t \in Threads : CoreInModule(t) = 0}

\* Ticks thread u has fully completed (its loop body ends at "sleep").
Completed(u) == IF pc[u] \in {"sleep", "exit"} THEN tick[u] ELSE tick[u] - 1

\* The image a lead writes when it applies (lines 204-209).
Target(t) == IF tunealg = "mab" THEN arm ELSE desired[t]

----------------------------------------------------------------------------
Init ==
  /\ pc = [t \in Threads |-> "init"]
  /\ tick = [t \in Threads |-> 0]
  /\ syncflag = 0
  /\ round = 0
  /\ desired = [t \in Threads |-> InitVal]
  /\ dirty = [t \in Threads |-> FALSE]
  /\ arm = InitVal
  /\ msr \in [Modules -> MsrVals]      \* whatever the BIOS left there
  /\ tunealg \in {"basic", "mab"}      \* main's option loop, before the threads

\* msr_init, msr_hwpf_write(hwpf_msr_value), msr_enable_fixed, pmu_core_config:
\* every thread, lead or not, writes its image into its module's MSR.
Start(t) ==
  /\ pc[t] = "init"
  /\ pc' = [pc EXCEPT ![t] = "sleep"]
  /\ msr' = [msr EXCEPT ![Module(t)] = desired[t]]
  /\ UNCHANGED <<tick, syncflag, round, desired, dirty, arm, tunealg>>

\* usleep(time_intervall), pmu_core_read and the delta stored in tstate.
Sample(t) ==
  /\ pc[t] = "sleep"
  /\ tick[t] < MaxTick
  /\ \A u \in Threads : Completed(u) >= tick[t] - Drift
  /\ pc' = [pc EXCEPT ![t] = "arrive"]
  /\ tick' = [tick EXCEPT ![t] = @ + 1]
  /\ UNCHANGED <<syncflag, round, desired, dirty, arm, msr, tunealg>>

\* atomic_fetch_add(&syncflag, 1), then the branch on the thread's role: a
\* core that is neither master nor lead skips the apply (CORE_IN_MODULE # 0)
\* and loops back to its sleep.
Arrive(t) ==
  /\ pc[t] = "arrive"
  /\ syncflag' = syncflag + 1
  /\ pc' = [pc EXCEPT ![t] = IF t \in Leads THEN "wait" ELSE "sleep"]
  /\ UNCHANGED <<tick, round, desired, dirty, arm, msr, tunealg>>

\* The tuner's contract (basicalg / mab): new images for the module leads,
\* and the dirty flag set where the image changes.
Decision ==
  \/ /\ tunealg = "basic"
     /\ \E v \in [Leads -> MsrVals] :
          /\ desired' = [t \in Threads |-> IF t \in Leads THEN v[t] ELSE desired[t]]
          /\ dirty' = [t \in Threads |-> dirty[t] \/ (t \in Leads /\ v[t] # desired[t])]
     /\ UNCHANGED arm
  \/ /\ tunealg = "mab"
     /\ \E a \in MsrVals :
          /\ arm' = a
          /\ dirty' = [t \in Threads |-> dirty[t] \/ (t \in Leads /\ a # arm)]
     /\ UNCHANGED desired

\* Master: while (syncflag < ACTIVE_THREADS); calculate_settings();
MasterDecide ==
  /\ pc[Master] = "wait"
  /\ syncflag >= N
  /\ Decision
  /\ round' = round + 1
  /\ pc' = [pc EXCEPT ![Master] = "release"]
  /\ UNCHANGED <<tick, syncflag, msr, tunealg>>

\* Mutant: the release store is lost (syncflag keeps its count).
MasterReleaseNoReset ==
  /\ pc[Master] = "release"
  /\ UNCHANGED syncflag
  /\ pc' = [pc EXCEPT ![Master] = "apply"]
  /\ UNCHANGED <<tick, round, desired, dirty, arm, msr, tunealg>>

\* Master: syncflag = 0; a plain store, not an atomic operation.
MasterRelease ==
  /\ pc[Master] = "release"
  /\ syncflag' = 0
  /\ pc' = [pc EXCEPT ![Master] = "apply"]
  /\ UNCHANGED <<tick, round, desired, dirty, arm, msr, tunealg>>

\* Mutant: a lead does not wait for the decision.
LeadWaitSkipped(t) ==
  /\ t # Master
  /\ pc[t] = "wait"
  /\ pc' = [pc EXCEPT ![t] = "apply"]
  /\ UNCHANGED <<tick, syncflag, round, desired, dirty, arm, msr, tunealg>>

\* Mutant: a lead takes the release like a semaphore, decrementing syncflag.
LeadWaitConsumes(t) ==
  /\ t # Master
  /\ pc[t] = "wait"
  /\ syncflag = 0
  /\ syncflag' = syncflag - 1
  /\ pc' = [pc EXCEPT ![t] = "apply"]
  /\ UNCHANGED <<tick, round, desired, dirty, arm, msr, tunealg>>

\* Other module leads: while (syncflag != 0);
LeadWait(t) ==
  /\ t # Master
  /\ pc[t] = "wait"
  /\ syncflag = 0
  /\ pc' = [pc EXCEPT ![t] = "apply"]
  /\ UNCHANGED <<tick, syncflag, round, desired, dirty, arm, msr, tunealg>>

\* Mutant: the write is done but hwpf_msr_dirty is never cleared.
ApplyKeepsDirty(t) ==
  /\ pc[t] = "apply"
  /\ pc' = [pc EXCEPT ![t] = "sleep"]
  /\ IF dirty[t]
       THEN msr' = [msr EXCEPT ![Module(t)] = Target(t)]
       ELSE UNCHANGED msr
  /\ UNCHANGED <<dirty, tick, syncflag, round, desired, arm, tunealg>>

\* Mutant: the MAB branch is dropped; every lead writes its hwpf_msr_value.
ApplyIgnoresArm(t) ==
  /\ pc[t] = "apply"
  /\ pc' = [pc EXCEPT ![t] = "sleep"]
  /\ IF dirty[t]
       THEN /\ dirty' = [dirty EXCEPT ![t] = FALSE]
            /\ msr' = [msr EXCEPT ![Module(t)] = desired[t]]
       ELSE UNCHANGED <<dirty, msr>>
  /\ UNCHANGED <<tick, syncflag, round, desired, arm, tunealg>>

\* if (CORE_IN_MODULE == 0 && hwpf_msr_dirty == 1) { dirty = 0; write }
Apply(t) ==
  /\ pc[t] = "apply"
  /\ pc' = [pc EXCEPT ![t] = "sleep"]
  /\ IF dirty[t]
       THEN /\ dirty' = [dirty EXCEPT ![t] = FALSE]
            /\ msr' = [msr EXCEPT ![Module(t)] = Target(t)]
       ELSE UNCHANGED <<dirty, msr>>
  /\ UNCHANGED <<tick, syncflag, round, desired, arm, tunealg>>

\* sigintHandler: the handler ends the process with exit(1) at whatever
\* point the threads are; nothing writes the MSRs back.
SigInt ==
  /\ \E t \in Threads : pc[t] # "exit"
  /\ pc' = [t \in Threads |-> "exit"]
  /\ UNCHANGED <<tick, syncflag, round, desired, dirty, arm, msr, tunealg>>

Next ==
  \/ \E t \in Threads : Start(t) \/ Sample(t) \/ Arrive(t) \/ LeadWait(t) \/ Apply(t)
  \/ MasterDecide
  \/ MasterRelease
  \/ SigInt

\* Pinned threads each own a core and spin rather than block, so each thread
\* that can take a step eventually does.
Fairness == \A t \in Threads :
  /\ WF_vars(Start(t)) /\ WF_vars(Sample(t)) /\ WF_vars(Arrive(t))
  /\ WF_vars(LeadWait(t)) /\ WF_vars(Apply(t))
  /\ WF_vars(MasterDecide) /\ WF_vars(MasterRelease)

Spec == Init /\ [][Next]_vars /\ Fairness

----------------------------------------------------------------------------
TypeOK ==
  /\ pc \in [Threads -> {"init", "sleep", "arrive", "wait", "release", "apply", "exit"}]
  /\ tick \in [Threads -> Nat]
  /\ syncflag \in Nat
  /\ round \in Nat
  /\ desired \in [Threads -> MsrVals]
  /\ dirty \in [Threads -> BOOLEAN]
  /\ arm \in MsrVals
  /\ msr \in [Modules -> MsrVals]
  /\ tunealg \in {"basic", "mab"}

\* Spec invariant 2 (sample -> decide): calculate_settings() runs only when
\* every thread's stored delta is the one it sampled in the master's tick;
\* no delta is missing (not yet sampled) or from a tick ahead.
DecisionSeesAllSamples ==
  [][MasterDecide => \A t \in Threads : tick[t] = tick[Master]]_vars

\* Spec invariant 2 (decide -> apply): a module lead applies only after the
\* decision of its own tick, so it never writes from a decision that is a
\* tick behind or ahead of its sample.
LeadAppliesOwnTick ==
  \A t \in Leads : pc[t] = "apply" => round = tick[t]

\* Spec property 3: between ticks every module lead has written what the
\* tuner wants and has no pending write: the module's MSR holds the lead's
\* target image and hwpf_msr_dirty is clear.
ModuleProgrammed ==
  \A t \in Leads : pc[t] = "sleep" =>
     /\ ~dirty[t]
     /\ msr[Module(t)] = Target(t)

\* Every thread that has taken its tick-k sample finishes tick k (for the
\* master: makes the decision; for a lead: is released and applies), unless
\* the process is ended first: the barrier never hangs (liveness).
TickCompletes ==
  \A t \in Threads : \A k \in 1 .. MaxTick :
     (tick[t] = k) ~> (Completed(t) >= k \/ pc[t] = "exit")

----------------------------------------------------------------------------
(***************************************************************************)
(* The inductive invariant behind the barrier, under the design timing     *)
(* (Drift = 0).  round is the number of decisions made; every thread is in *)
(* tick round or round + 1, and syncflag counts exactly the threads that   *)
(* have arrived for tick round + 1, except between the decision and the    *)
(* master's store syncflag = 0, when it still holds N.                     *)
(***************************************************************************)
Exited == \A t \in Threads : pc[t] = "exit"

\* The threads whose atomic_fetch_add for tick round + 1 has been done.
Arrived == {t \in Threads : tick[t] = round + 1 /\ pc[t] # "arrive"}

\* Where a thread can be, given its tick relative to round.
PhaseOK(t) ==
  IF tick[t] = round + 1
    THEN pc[t] \in IF t \in Leads THEN {"arrive", "wait"} ELSE {"arrive", "sleep"}
    ELSE /\ tick[t] = round
         /\ pc[t] \in IF t = Master THEN {"init", "release", "apply", "sleep"}
                     ELSE IF t \in Leads THEN {"init", "wait", "apply", "sleep"}
                     ELSE {"init", "sleep"}

\* A lead that is not between the decision of its tick and its apply.
Settled(t) == pc[t] \in {"init", "sleep", "arrive"} \/ (pc[t] = "wait" /\ tick[t] = round + 1)

\* Every thread is alive and in tick round or round + 1, at a place its role
\* allows in that tick.
InPhase == \A t \in Threads : pc[t] # "exit" /\ PhaseOK(t)
\* The master is a tick ahead exactly while it collects arrivals.
MasterAhead == (tick[Master] = round + 1) <=> (pc[Master] \in {"arrive", "wait"})
\* syncflag counts the arrivals, and holds N from decision to release.
SyncCounts == pc[Master] # "release" => syncflag = Cardinality(Arrived)
SyncFull == pc[Master] = "release" => syncflag = N
\* Nobody starts tick round + 1 before everyone has finished tick round.
RoundsOrdered == (\E t \in Threads : tick[t] = round + 1) =>
                   \A u \in Threads : tick[u] = round => pc[u] = "sleep"
\* A lead's module holds its target unless a write is pending, and no write
\* is pending outside the stretch from decision to apply.
Programmed == \A t \in Leads : pc[t] # "init" => dirty[t] \/ msr[Module(t)] = Target(t)
NoPending == \A t \in Leads : Settled(t) => ~dirty[t]
\* Non-leads never change their image; nothing has changed before round 1.
NonLeadsFixed == \A t \in Threads \ Leads : desired[t] = InitVal
InitUntouched == (\E t \in Threads : pc[t] = "init") =>
                   /\ round = 0 /\ arm = InitVal
                   /\ \A t \in Threads : desired[t] = InitVal

BarrierInv ==
  \/ Exited
  \/ /\ InPhase /\ MasterAhead /\ SyncCounts /\ SyncFull /\ RoundsOrdered
     /\ Programmed /\ NoPending /\ NonLeadsFixed /\ InitUntouched


----------------------------------------------------------------------------
(***************************************************************************)
(* The refinement mapping onto ModuleTuning.  A module's decision is its   *)
(* lead's target image (CORE_IN_MODULE = 0 is core 4m of module m).  A     *)
(* module is pending while one of its cores has not yet done the start     *)
(* write of msr_hwpf_write, or while its lead has hwpf_msr_dirty set.      *)
(* After sigintHandler's exit(1) nothing is pending and nothing runs.      *)
(***************************************************************************)
LeadOf(m) == 4 * m
TunedTarget == [m \in Modules |-> Target(LeadOf(m))]
PendingModules ==
  IF Exited THEN {}
  ELSE {m \in Modules : \/ dirty[LeadOf(m)]
                        \/ \E t \in Threads : Module(t) = m /\ pc[t] = "init"}

Tuning == INSTANCE ModuleTuning
            WITH target <- TunedTarget, pending <- PendingModules,
                 running <- ~Exited

\* The threads of thread_start implement ModuleTuning: calculate_settings
\* runs only once every module's MSR holds the previous decision and every
\* core has done its start write, a lead's write always carries its
\* module's current decision, and hwpf_msr_dirty marks exactly the modules
\* the decision changed.
ImplementsModuleTuning == Tuning!Spec

=============================================================================
