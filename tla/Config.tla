------------------------------- MODULE Config -------------------------------
(***************************************************************************)
(* Startup of the user-space tuner: main (src/main.c, lines 309-483) and   *)
(* parse_weights (lines 263-306).  The option loop takes one option per    *)
(* step; the steps after it are E-core detection, the weights, the DDR     *)
(* bandwidth target, the DDR monitor's init and the thread creation.       *)
(*                                                                         *)
(* Option arguments are abstracted to what strtol and strtof return: a     *)
(* --core argument is a record with the number before the dash and, if     *)
(* there is a dash, the number after it; a --weight argument is its        *)
(* sequence of comma-separated tokens, each an integer or Bad (a token     *)
(* strtol does not consume to the end); --ddrbw-auto's factor is a         *)
(* fraction <<num, den>>.  MAX_THREADS and the priority bounds are in      *)
(* common.h, outside src/, and are constants.                              *)
(***************************************************************************)
EXTENDS Integers, Sequences

CONSTANTS
  MaxThreads,    \* MAX_THREADS
  MinPriority,   \* MIN_PRIORITY
  MaxPriority,   \* MAX_PRIORITY
  DefPriority,   \* DEFAULT_PRIORITY
  Bad,           \* a weight token that is not a number
  NoDash,        \* a --core argument without "-"
  NoWeight,      \* no --weight option was given
  CoreArgs,      \* the --core arguments
  WeightArgs,    \* the --weight arguments
  SetArgs,       \* the --ddrbw-set arguments
  UtilArgs,      \* the --ddrbw-auto arguments
  Garbage,       \* what the uninitialised weight_string may hold
  ECores,        \* what get_efficient_core_ids may return
  DmiBw,         \* what dmi_get_bandwidth may return
  MaxOpts        \* bound on the options of one command line

ASSUME ThreadsAssumption == MaxThreads \in Nat \ {0}
ASSUME PriorityAssumption ==
  /\ {MinPriority, MaxPriority, DefPriority} \subseteq Int
  /\ DefPriority \in MinPriority..MaxPriority
ASSUME ArgAssumption ==
  /\ CoreArgs \subseteq [first : Int, last : Int \cup {NoDash}]
  /\ UtilArgs \subseteq Int \X (Nat \ {0})
  /\ ECores \subseteq Int \X Int
  /\ WeightArgs \cup Garbage \subseteq Seq(Int \cup {Bad})
  /\ NoWeight \notin WeightArgs
  /\ MaxOpts \in Nat

DDR_BW_NOT_SET == -1
DDR_BW_AUTOTEST == -2
Slots == 0..MaxThreads-1          \* the indices of core_priority

VARIABLES
  phase,      \* where main is
  nopts,      \* options processed
  coreFirst,  \* core_first
  coreLast,   \* core_last
  target,     \* ddr_bw_target
  util,       \* ddr_bw_auto_utilization
  weightStr,  \* weight_string, as its tokens
  weightOpt,  \* ghost: the last --weight argument, or NoWeight
  prio,       \* core_priority
  count,      \* parse_weights' core_count
  overrun     \* a store past the end of core_priority happened

vars == <<phase, nopts, coreFirst, coreLast, target, util, weightStr,
          weightOpt, prio, count, overrun>>

ActiveThreads == coreLast - coreFirst + 1     \* ACTIVE_THREADS (line 31)

\* C's conversion of the float x * num / den to int: toward zero.
Trunc(x, f) == IF x * f[1] >= 0 THEN (x * f[1]) \div f[2]
                               ELSE -((-(x * f[1])) \div f[2])

\* core_priority[i] = v, which for an index past MAX_THREADS writes
\* memory after the array.
Store(i, v) ==
  IF i \in Slots THEN /\ prio' = [prio EXCEPT ![i] = v]
                      /\ UNCHANGED overrun
                 ELSE /\ overrun' = TRUE
                      /\ UNCHANGED prio

\* Lines 311-320 and the globals' initialisers (lines 37-41); the stack
\* array weight_string is not initialised.
Init ==
  /\ phase = "opts"
  /\ nopts = 0
  /\ coreFirst = -1
  /\ coreLast = -1
  /\ target = DDR_BW_NOT_SET
  /\ util = <<7, 10>>
  /\ weightStr \in Garbage
  /\ weightOpt = NoWeight
  /\ prio = [i \in Slots |-> MinPriority]
  /\ count = 0
  /\ overrun = FALSE

\* One getopt_long result (line 339).
Option == phase = "opts" /\ nopts < MaxOpts /\ nopts' = nopts + 1

\* Lines 346-362: --core a or a-b, and the bound on the range.
OptCore ==
  /\ Option
  /\ \E a \in CoreArgs :
       LET last == IF a.last = NoDash THEN a.first ELSE a.last IN
       /\ coreFirst' = a.first
       /\ coreLast' = last
       /\ phase' = IF last - a.first > MaxThreads THEN "exit" ELSE "opts"
  /\ UNCHANGED <<target, util, weightStr, weightOpt, prio, count, overrun>>

\* Lines 364-367: --ddrbw-auto.
OptAuto ==
  /\ Option
  /\ \E u \in UtilArgs : util' = u
  /\ UNCHANGED <<phase, coreFirst, coreLast, target, weightStr, weightOpt,
                 prio, count, overrun>>

\* Lines 369-376: --ddrbw-test and --ddrbw-set.
OptTarget ==
  /\ Option
  /\ \E t \in SetArgs \cup {DDR_BW_AUTOTEST} : target' = t
  /\ UNCHANGED <<phase, coreFirst, coreLast, util, weightStr, weightOpt,
                 prio, count, overrun>>

\* Lines 398-400: --weight copies its argument into weight_string.
OptWeight ==
  /\ Option
  /\ \E w \in WeightArgs : weightStr' = w /\ weightOpt' = w
  /\ UNCHANGED <<phase, coreFirst, coreLast, target, util, prio, count,
                 overrun>>

\* Lines 378-396: --intervall, --alg, --aggr and --log store values no
\* later step here reads.
OptOther ==
  /\ Option
  /\ UNCHANGED <<phase, coreFirst, coreLast, target, util, weightStr,
                 weightOpt, prio, count, overrun>>

\* Lines 402-410: --help, an unknown option (print_usage, return 0) or a
\* strange one (return -1).
OptStop ==
  /\ Option
  /\ phase' = "exit"
  /\ UNCHANGED <<coreFirst, coreLast, target, util, weightStr, weightOpt,
                 prio, count, overrun>>

\* Line 342: getopt_long returns -1.
EndOpts ==
  /\ phase = "opts"
  /\ phase' = "detect"
  /\ UNCHANGED <<nopts, coreFirst, coreLast, target, util, weightStr,
                 weightOpt, prio, count, overrun>>

\* Lines 416-430: without --core, the E-core range, or return -1.
Detect ==
  /\ phase = "detect"
  /\ IF coreFirst = -1 \/ coreLast = -1
       THEN \E e \in ECores :
              /\ coreFirst' = e[1]
              /\ coreLast' = e[2]
              /\ phase' = IF e[1] = -1 \/ e[2] = -1 THEN "exit" ELSE "weights"
       ELSE /\ phase' = "weights"
            /\ UNCHANGED <<coreFirst, coreLast>>
  /\ UNCHANGED <<nopts, target, util, weightStr, weightOpt, prio, count,
                 overrun>>

\* Lines 434-440: a non-empty weight_string is parsed, otherwise every
\* active core gets DEFAULT_PRIORITY.
Weights ==
  /\ phase = "weights"
  /\ IF weightStr # <<>>
       THEN /\ phase' = "parse"
            /\ count' = 0
            /\ UNCHANGED <<prio, overrun>>
       ELSE /\ phase' = "ddr"
            /\ prio' = [i \in Slots |->
                          IF i < ActiveThreads THEN DefPriority ELSE prio[i]]
            /\ overrun' = (overrun \/ ActiveThreads > MaxThreads)
            /\ UNCHANGED count
  /\ UNCHANGED <<nopts, coreFirst, coreLast, target, util, weightStr,
                 weightOpt>>

\* Mutant: a token out of MIN_PRIORITY..MAX_PRIORITY is accepted.
ParseTokenUnchecked ==
  /\ phase = "parse"
  /\ count < Len(weightStr) /\ count # ActiveThreads
  /\ LET tok == weightStr[count + 1] IN
       IF tok = Bad
         THEN phase' = "exit" /\ UNCHANGED <<prio, count, overrun>>
         ELSE Store(count, tok) /\ count' = count + 1 /\ UNCHANGED phase
  /\ UNCHANGED <<nopts, coreFirst, coreLast, target, util, weightStr,
                 weightOpt>>

\* Lines 270-292: one token, while there is one and core_count has not
\* reached ACTIVE_THREADS; a token that is not a number, or out of range,
\* makes parse_weights return -1 and main return -1.
ParseToken ==
  /\ phase = "parse"
  /\ count < Len(weightStr) /\ count # ActiveThreads
  /\ LET tok == weightStr[count + 1] IN
       IF tok = Bad \/ tok \notin MinPriority..MaxPriority
         THEN phase' = "exit" /\ UNCHANGED <<prio, count, overrun>>
         ELSE Store(count, tok) /\ count' = count + 1 /\ UNCHANGED phase
  /\ UNCHANGED <<nopts, coreFirst, coreLast, target, util, weightStr,
                 weightOpt>>

\* Mutant: the padding loop stops one core short.
PadShort ==
  /\ phase = "parse"
  /\ count >= Len(weightStr) \/ count = ActiveThreads
  /\ IF count < ActiveThreads - 1
       THEN Store(count, DefPriority) /\ count' = count + 1
            /\ UNCHANGED phase
       ELSE phase' = "ddr" /\ UNCHANGED <<prio, count, overrun>>
  /\ UNCHANGED <<nopts, coreFirst, coreLast, target, util, weightStr,
                 weightOpt>>

\* Lines 296-299: the cores without a token get DEFAULT_PRIORITY, one at a
\* time; then parse_weights returns 0.
Pad ==
  /\ phase = "parse"
  /\ count >= Len(weightStr) \/ count = ActiveThreads
  /\ IF count < ActiveThreads
       THEN Store(count, DefPriority) /\ count' = count + 1
            /\ UNCHANGED phase
       ELSE phase' = "ddr" /\ UNCHANGED <<prio, count, overrun>>
  /\ UNCHANGED <<nopts, coreFirst, coreLast, target, util, weightStr,
                 weightOpt>>

\* Lines 445-454: without --ddrbw-set or --ddrbw-test the target is the
\* DMI bandwidth times the factor, converted to int; -1 is rejected.
Ddr ==
  /\ phase = "ddr"
  /\ IF target = DDR_BW_NOT_SET
       THEN \E b \in DmiBw :
              /\ target' = Trunc(b, util)
              /\ phase' = IF Trunc(b, util) = -1 THEN "exit" ELSE "init"
       ELSE phase' = "init" /\ UNCHANGED target
  /\ UNCHANGED <<nopts, coreFirst, coreLast, util, weightStr, weightOpt,
                 prio, count, overrun>>

\* Lines 458-475: RDT MBM init, which may fail, or the DDR PMU; mab_init.
DdrInit ==
  /\ phase = "init"
  /\ phase' \in {"create", "exit"}
  /\ UNCHANGED <<nopts, coreFirst, coreLast, target, util, weightStr,
                 weightOpt, prio, count, overrun>>

\* Lines 479-483: one thread per core of the range; gtinfo has
\* MAX_THREADS entries.
Create ==
  /\ phase = "create"
  /\ phase' = "started"
  /\ overrun' = (overrun \/ ActiveThreads > MaxThreads)
  /\ UNCHANGED <<nopts, coreFirst, coreLast, target, util, weightStr,
                 weightOpt, prio, count>>

Next ==
  \/ OptCore \/ OptAuto \/ OptTarget \/ OptWeight \/ OptOther \/ OptStop
  \/ EndOpts \/ Detect \/ Weights \/ ParseToken \/ Pad \/ Ddr \/ DdrInit
  \/ Create

Spec == Init /\ [][Next]_vars

(***************************************************************************)
(* Properties.                                                             *)
(***************************************************************************)

TypeOK ==
  /\ phase \in {"opts", "detect", "weights", "parse", "ddr", "init",
                "create", "started", "exit"}
  /\ nopts \in 0..MaxOpts
  /\ prio \in [Slots -> MinPriority..MaxPriority]
  /\ count \in Nat
  /\ overrun \in BOOLEAN

\* The spec's --weight: per-core priorities in order, a short list padded
\* with DEFAULT_PRIORITY (50), extra values ignored.
SpecPriority(w, i) == IF i < Len(w) THEN w[i + 1] ELSE DefPriority

\* Once the threads are created after a --weight option, every active
\* core's core_priority entry is what the spec's --weight rule gives for
\* the last --weight argument: parse_weights' token loop, its break at
\* ACTIVE_THREADS and its padding loop agree with the spec.  (Entries
\* past the array are ThreadsInBounds' concern.)
WeightsAsSpecified ==
  (phase = "started" /\ weightOpt # NoWeight) =>
    \A i \in (0..ActiveThreads-1) \cap Slots :
      prio[i] = SpecPriority(weightOpt, i)

\* Without --weight, every active core starts with DEFAULT_PRIORITY (the
\* spec's default 50).
DefaultWeights ==
  (phase = "started" /\ weightOpt = NoWeight) =>
    \A i \in (0..ActiveThreads-1) \cap Slots : prio[i] = DefPriority

\* Threads are created only for a range of one to MAX_THREADS cores, the
\* size of gtinfo and core_priority (the check at line 357).
ThreadsInBounds ==
  phase = "started" => ActiveThreads \in 1..MaxThreads /\ ~overrun

\* The spec: if none of --ddrbw-set, the self-test or the DMI bandwidth
\* gives a positive target, startup fails.
TargetPositive ==
  phase = "started" => target > 0 \/ target = DDR_BW_AUTOTEST

=============================================================================
