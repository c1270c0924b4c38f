---------------------------- MODULE ConfigProofs ----------------------------
(***************************************************************************)
(* Proofs about main's startup (Config): core_priority only ever holds     *)
(* priorities in MIN_PRIORITY..MAX_PRIORITY, and after a --weight option   *)
(* parse_weights leaves every active core's entry as the spec's --weight   *)
(* rule says, for every MAX_THREADS, priority bounds and arguments.        *)
(***************************************************************************)
EXTENDS Config, TLAPS

\* The entries of core_priority below bound hold the spec's priorities of
\* the weight string.
AsSpecifiedBelow(bound) ==
  \A i \in (0..bound-1) \cap Slots : prio[i] = SpecPriority(weightStr, i)

\* The phases after parse_weights has returned 0.
Parsed == {"ddr", "init", "create", "started"}

\* The inductive invariant.  weight_string still holds the last --weight
\* argument (nothing else writes it); while the token and padding loops
\* run, the entries below core_count are the spec's; once they are done,
\* the entries below ACTIVE_THREADS are.
IInv ==
  /\ TypeOK
  /\ weightStr \in Seq(Int \cup {Bad})
  /\ coreFirst \in Int /\ coreLast \in Int
  /\ weightOpt # NoWeight => weightStr = weightOpt
  /\ (phase = "parse" /\ weightOpt # NoWeight) => AsSpecifiedBelow(count)
  /\ (phase \in Parsed /\ weightOpt # NoWeight) =>
        AsSpecifiedBelow(ActiveThreads)

LEMMA InitIInv == Init => IInv
<1> SUFFICES ASSUME Init PROVE IInv
  OBVIOUS
<1>1. TypeOK
  <2>1. MinPriority \in MinPriority..MaxPriority
    BY PriorityAssumption
  <2>2. prio \in [Slots -> MinPriority..MaxPriority]
    BY <2>1 DEF Init
  <2>3. nopts \in 0..MaxOpts
    BY ArgAssumption DEF Init
  <2> QED
    BY <2>2, <2>3 DEF Init, TypeOK
<1>2. weightStr \in Seq(Int \cup {Bad})
  BY ArgAssumption DEF Init
<1>3. coreFirst \in Int /\ coreLast \in Int
  BY DEF Init
<1>4. weightOpt = NoWeight /\ phase = "opts"
  BY DEF Init
<1> QED
  BY <1>1, <1>2, <1>3, <1>4 DEF IInv, Parsed

\* A step that leaves main's phase, the range, the weights and
\* core_priority alone keeps the invariant.
LEMMA FrameIInv ==
  ASSUME IInv, nopts' \in 0..MaxOpts,
         UNCHANGED <<phase, coreFirst, coreLast, weightStr, weightOpt, prio,
                     count, overrun>>
  PROVE  IInv'
<1>1. TypeOK'
  BY DEF IInv, TypeOK
<1>2. AsSpecifiedBelow(count)' = AsSpecifiedBelow(count)
  BY DEF AsSpecifiedBelow
<1>3. AsSpecifiedBelow(ActiveThreads)' = AsSpecifiedBelow(ActiveThreads)
  BY DEF AsSpecifiedBelow, ActiveThreads
<1> QED
  BY <1>1, <1>2, <1>3 DEF IInv

\* The options: weight_string and the ghost change together, and nothing
\* is claimed in phase "opts" or "exit".
LEMMA OptionsIInv ==
  ASSUME IInv,
         OptCore \/ OptAuto \/ OptTarget \/ OptWeight \/ OptOther \/ OptStop
         \/ EndOpts
  PROVE  IInv'
<1>a. nopts \in 0..MaxOpts
  BY DEF IInv, TypeOK
<1>0. Option => nopts' \in 0..MaxOpts
  BY <1>a, ArgAssumption DEF Option
<1>1. nopts' \in 0..MaxOpts \/ EndOpts
  BY <1>0 DEF OptCore, OptAuto, OptTarget, OptWeight, OptOther, OptStop
<1>2. CASE OptAuto \/ OptTarget \/ OptOther
  BY <1>1, <1>2, FrameIInv DEF OptAuto, OptTarget, OptOther, EndOpts
<1>3. CASE OptCore \/ OptWeight \/ OptStop \/ EndOpts
  <2>1. phase' \in {"opts", "exit", "detect"}
    BY <1>3 DEF OptCore, OptWeight, OptStop, EndOpts, Option
  <2>2. TypeOK'
    BY <1>1, <1>3, <2>1 DEF OptCore, OptWeight, OptStop, EndOpts, IInv, TypeOK
  <2>3. coreFirst' \in Int /\ coreLast' \in Int
    BY <1>3, ArgAssumption DEF OptCore, OptWeight, OptStop, EndOpts, IInv
  <2>4. weightStr' \in Seq(Int \cup {Bad})
        /\ (weightOpt' # NoWeight => weightStr' = weightOpt')
    BY <1>3, ArgAssumption DEF OptCore, OptWeight, OptStop, EndOpts, IInv
  <2> QED
    BY <2>1, <2>2, <2>3, <2>4 DEF IInv, Parsed
<1> QED
  BY <1>2, <1>3

LEMMA DetectIInv == IInv /\ Detect => IInv'
<1> SUFFICES ASSUME IInv, Detect PROVE IInv'
  OBVIOUS
<1>1. CASE coreFirst = -1 \/ coreLast = -1
  <2> PICK e \in ECores : /\ coreFirst' = e[1]
                          /\ coreLast' = e[2]
                          /\ phase' = IF e[1] = -1 \/ e[2] = -1
                                        THEN "exit" ELSE "weights"
    BY <1>1 DEF Detect
  <2> QED
    BY ArgAssumption DEF Detect, IInv, TypeOK, Parsed
<1>2. CASE ~(coreFirst = -1 \/ coreLast = -1)
  BY <1>2 DEF Detect, IInv, TypeOK, Parsed
<1> QED
  BY <1>1, <1>2

\* An empty weight_string gives every active core DEFAULT_PRIORITY, which
\* is the spec's priority of every core for an empty list.
LEMMA WeightsIInv == IInv /\ Weights => IInv'
<1> SUFFICES ASSUME IInv, Weights PROVE IInv'
  OBVIOUS
<1>1. CASE weightStr # <<>>
  BY <1>1 DEF Weights, IInv, TypeOK, Parsed, AsSpecifiedBelow
<1>2. CASE weightStr = <<>>
  <2>1. prio' = [i \in Slots |->
                   IF i < ActiveThreads THEN DefPriority ELSE prio[i]]
    BY <1>2 DEF Weights
  <2>2. TypeOK'
    BY <1>2, <2>1, PriorityAssumption DEF Weights, IInv, TypeOK
  <2>3. AsSpecifiedBelow(ActiveThreads)'
    BY <1>2, <2>1 DEF Weights, IInv, AsSpecifiedBelow, SpecPriority,
                      ActiveThreads
  <2> QED
    BY <1>2, <2>2, <2>3 DEF Weights, IInv, Parsed
<1> QED
  BY <1>1, <1>2

\* One token: a number in range is stored at core_count, which is below
\* the token count, so it is the spec's priority of that core.
LEMMA ParseTokenIInv == IInv /\ ParseToken => IInv'
<1> SUFFICES ASSUME IInv, ParseToken PROVE IInv'
  OBVIOUS
<1> DEFINE tok == weightStr[count + 1]
<1>1. /\ count < Len(weightStr) /\ count \in Nat /\ phase = "parse"
      /\ UNCHANGED <<nopts, coreFirst, coreLast, target, util, weightStr,
                     weightOpt>>
  BY DEF ParseToken, IInv, TypeOK
<1>2. CASE tok = Bad \/ tok \notin MinPriority..MaxPriority
  BY <1>2 DEF ParseToken, IInv, TypeOK, Parsed
<1>3. CASE ~(tok = Bad \/ tok \notin MinPriority..MaxPriority)
  <2>1. /\ Store(count, tok) /\ count' = count + 1 /\ phase' = phase
        /\ UNCHANGED <<nopts, coreFirst, coreLast, target, util, weightStr,
                       weightOpt>>
    BY <1>3 DEF ParseToken
  <2>2. tok = SpecPriority(weightStr, count)
    BY <1>1 DEF SpecPriority
  <2>3. CASE count \in Slots
    <3>1. prio' = [prio EXCEPT ![count] = tok] /\ overrun' = overrun
      BY <2>1, <2>3 DEF Store
    <3>2. TypeOK'
      BY <1>1, <1>3, <2>1, <2>3, <3>1, PriorityAssumption DEF IInv, TypeOK
    <3>3. (weightOpt # NoWeight => AsSpecifiedBelow(count))'
      BY <1>1, <2>1, <2>2, <2>3, <3>1 DEF IInv, AsSpecifiedBelow, TypeOK
    <3> QED
      BY <1>1, <2>1, <3>2, <3>3 DEF IInv, Parsed
  <2>4. CASE count \notin Slots
    <3>1. prio' = prio /\ overrun' = TRUE
      BY <2>1, <2>4 DEF Store
    <3>2. (0..count) \cap Slots = (0..count-1) \cap Slots
      BY <1>1, <2>4
    <3> QED
      BY <1>1, <2>1, <3>1, <3>2 DEF IInv, AsSpecifiedBelow, TypeOK, Parsed
  <2> QED
    BY <2>3, <2>4
<1> QED
  BY <1>2, <1>3

\* The padding loop: a core without a token gets DEFAULT_PRIORITY, which
\* is the spec's priority past the list; the loop ends at
\* ACTIVE_THREADS, so every active core has been given its priority.
LEMMA PadIInv == IInv /\ Pad => IInv'
<1> SUFFICES ASSUME IInv, Pad PROVE IInv'
  OBVIOUS
<1>1. count \in Nat /\ ActiveThreads \in Int /\ phase = "parse"
  BY DEF IInv, TypeOK, ActiveThreads, Pad
<1>2. CASE count < ActiveThreads
  <2>1. /\ Store(count, DefPriority) /\ count' = count + 1
        /\ phase' = phase
        /\ UNCHANGED <<nopts, coreFirst, coreLast, target, util, weightStr,
                       weightOpt>>
    BY <1>2 DEF Pad
  <2>2. DefPriority = SpecPriority(weightStr, count)
    BY <1>1, <1>2 DEF Pad, SpecPriority
  <2>3. CASE count \in Slots
    <3>1. prio' = [prio EXCEPT ![count] = DefPriority] /\ overrun' = overrun
      BY <2>1, <2>3 DEF Store
    <3>2. TypeOK'
      BY <1>1, <2>1, <2>3, <3>1, PriorityAssumption DEF IInv, TypeOK
    <3>3. (weightOpt # NoWeight => AsSpecifiedBelow(count))'
      BY <1>1, <2>1, <2>2, <2>3, <3>1 DEF IInv, AsSpecifiedBelow, TypeOK
    <3> QED
      BY <1>1, <2>1, <3>2, <3>3 DEF IInv, Parsed
  <2>4. CASE count \notin Slots
    <3>1. prio' = prio /\ overrun' = TRUE
      BY <2>1, <2>4 DEF Store
    <3>2. (0..count) \cap Slots = (0..count-1) \cap Slots
      BY <1>1, <2>4
    <3> QED
      BY <1>1, <2>1, <3>1, <3>2 DEF IInv, AsSpecifiedBelow, TypeOK, Parsed
  <2> QED
    BY <2>3, <2>4
<1>3. CASE ~(count < ActiveThreads)
  <2>1. phase' = "ddr" /\ UNCHANGED <<prio, count, overrun, nopts, coreFirst,
                                      coreLast, target, util, weightStr,
                                      weightOpt>>
    BY <1>3 DEF Pad
  <2>2. (weightOpt # NoWeight => AsSpecifiedBelow(ActiveThreads))'
    BY <1>1, <1>3, <2>1 DEF IInv, AsSpecifiedBelow, ActiveThreads, Pad
  <2> QED
    BY <2>1, <2>2 DEF IInv, TypeOK, Parsed, Pad
<1> QED
  BY <1>2, <1>3

\* The steps after parse_weights leave core_priority, the range and
\* weight_string alone.
LEMMA LaterIInv == IInv /\ (Ddr \/ DdrInit \/ Create) => IInv'
<1> SUFFICES ASSUME IInv, Ddr \/ DdrInit \/ Create PROVE IInv'
  OBVIOUS
<1> USE DEF IInv, TypeOK, Parsed, AsSpecifiedBelow, ActiveThreads
<1>1. CASE Ddr
  <2>1. CASE target = DDR_BW_NOT_SET
    BY <1>1, <2>1 DEF Ddr
  <2>2. CASE target # DDR_BW_NOT_SET
    BY <1>1, <2>2 DEF Ddr
  <2> QED
    BY <2>1, <2>2
<1>2. CASE DdrInit
  BY <1>2 DEF DdrInit
<1>3. CASE Create
  BY <1>3 DEF Create
<1> QED
  BY <1>1, <1>2, <1>3

LEMMA StepIInv == IInv /\ [Next]_vars => IInv'
<1> SUFFICES ASSUME IInv, [Next]_vars PROVE IInv'
  OBVIOUS
<1>1. CASE UNCHANGED vars
  BY <1>1 DEF vars, IInv, TypeOK, Parsed, AsSpecifiedBelow, ActiveThreads
<1> QED
  BY <1>1, OptionsIInv, DetectIInv, WeightsIInv, ParseTokenIInv, PadIInv,
     LaterIInv DEF Next

\* core_priority holds only priorities in MIN_PRIORITY..MAX_PRIORITY
\* (parse_weights' range check, and DEFAULT_PRIORITY in range), and the
\* option count stays within its bound.
THEOREM TypeCorrect == Spec => []TypeOK
<1>1. IInv => TypeOK
  BY DEF IInv
<1> QED
  BY <1>1, InitIInv, StepIInv, PTL DEF Spec

\* For every MAX_THREADS, priority bounds and --weight argument: when the
\* threads start, parse_weights has given each active core of
\* core_priority the spec's priority of the last --weight argument.
THEOREM WeightsCorrect == Spec => []WeightsAsSpecified
<1>1. IInv => WeightsAsSpecified
  BY DEF IInv, WeightsAsSpecified, AsSpecifiedBelow, Parsed
<1> QED
  BY <1>1, InitIInv, StepIInv, PTL DEF Spec
=============================================================================
