------------------------------ MODULE MCConfig ------------------------------
(***************************************************************************)
(* Small command lines for Config: MAX_THREADS = 3, at most two options.   *)
(***************************************************************************)
EXTENDS Config

\* --core 0 and --core 0-2.
MCCoreArgs == {[first |-> 0, last |-> NoDash], [first |-> 0, last |-> 2]}

\* --core 0-3 (one core past MAX_THREADS) and the reversed --core 2-1.
MCCoreArgsEdge == {[first |-> 0, last |-> 3], [first |-> 2, last |-> 1]}

\* --weight 10,99 / 10,20,99,x / 10,99,120 / x / "".
MCWeightArgs == {<<10, 99>>, <<10, 20, 99, Bad>>, <<10, 99, 120>>, <<Bad>>,
                 <<>>}

\* --ddrbw-auto 1.3 and 0 (strtof of a non-number).
MCUtilArgs == {<<13, 10>>, <<0, 1>>}

\* The stack bytes of weight_string: zero, or a leftover "99".
MCGarbage == {<<>>, <<99>>}

\* An all-zero weight_string.
MCGarbageZero == {<<>>}

\* E-cores 0-2, or none.
MCECores == {<<0, 2>>, <<-1, -1>>}
\* DMI bandwidth 10000 MB/s, or unknown (-1).
MCDmiBw == {-1, 10000}
====
