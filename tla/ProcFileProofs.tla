---------------------------- MODULE ProcFileProofs ----------------------------
(***************************************************************************)
(* Proofs about the proc-file protocol (ProcFile): for every set of        *)
(* writers and readers, every response size and every bound on the writes, *)
(* whenever dpf_mutex is free proc_buffer holds the outcome of the last    *)
(* write that held it, and no heap block is left live besides it.          *)
(***************************************************************************)
EXTENDS ProcFile, TLAPS

\* Where a writer is before its msg_data is allocated.
BeforeAlloc == {"lock", "free", "clear", "fetch"}

\* The types of the variables TypeOK leaves open.
TypeInv ==
  /\ TypeOK
  /\ wid \in [Writers -> 0..writes]
  /\ wret \in [Writers -> {"ok", "err"}]
  /\ last \in [id : 0..writes, ok : BOOLEAN]


\* The writes in progress have distinct ids among those begun.
IdsInv ==
  /\ \A w \in Writers : wpc[w] # "idle" => wid[w] \in 1..writes
  /\ \A u, w \in Writers :
       (u # w /\ wpc[u] # "idle" /\ wpc[w] # "idle") => wid[u] # wid[w]

\* The blocks reserved for a write are unallocated until that write's
\* kmalloc, so kmalloc never hands out a block in use.
FreshInv ==
  /\ \A k \in writes+1..MaxWrites :
       heap[2 * k] = "unalloc" /\ heap[2 * k + 1] = "unalloc"
  /\ \A w \in Writers : wpc[w] \in BeforeAlloc =>
       heap[MsgBlock(w)] = "unalloc" /\ heap[RespBlock(w)] = "unalloc"
  /\ \A w \in Writers : wpc[w] = "handle" => heap[RespBlock(w)] = "unalloc"

\* msg_data is set only after its kmalloc and is live until freed.
MsgInv ==
  \A w \in Writers : msg[w] # NULL =>
    /\ wpc[w] \in {"handle", "size", "unlock"}
    /\ msg[w] = MsgBlock(w)
    /\ heap[msg[w]] = "live"

\* A live block is the published response or the owner's msg_data.
HeapInv ==
  /\ procBuf = NULL => procSize = 0
  /\ procBuf # NULL => heap[procBuf] # "unalloc"
  /\ \A b \in Blocks : heap[b] = "live" =>
       b = procBuf \/ (mutex # NoOwner /\ b = msg[mutex])

\* What proc_buffer is at each stage of the owner's write.
StageInv ==
  /\ \A w \in Writers : wpc[w] = "free" => procBuf # NULL
  /\ \A w \in Writers : wpc[w] = "clear" =>
       procBuf # NULL /\ heap[procBuf] = "freed"
  /\ \A w \in Writers : wpc[w] \in {"fetch", "handle"} => procBuf = NULL
  /\ \A w \in Writers : wpc[w] = "size" =>
       /\ procBuf = RespBlock(w) /\ heap[procBuf] = "live"
       /\ bresp[procBuf] = wid[w] /\ wret[w] = "ok"
  /\ \A w \in Writers : wpc[w] = "unlock" =>
       IF wret[w] = "ok"
         THEN /\ procBuf = RespBlock(w) /\ heap[procBuf] = "live"
              /\ bresp[procBuf] = wid[w] /\ procSize = bsize[procBuf]
         ELSE procBuf = NULL

\* The inductive invariant: ResponseOfLastWrite with what makes it
\* inductive.
IInv ==
  /\ TypeInv /\ MutexInv /\ IdsInv /\ FreshInv /\ MsgInv /\ HeapInv
  /\ StageInv /\ ResponseOfLastWrite

USE WritersAssumption, SizeAssumption, MaxWritesAssumption

\* The places of a writer in dpf_proc_write.
WriterPCs == {"idle", "lock", "free", "clear", "fetch", "handle", "size",
              "unlock"}

\* A writer moving on in dpf_proc_write changes only its own place.
LEMMA WpcStep ==
  ASSUME NEW pc0 \in [Writers -> WriterPCs], NEW pc1, NEW w \in Writers,
         NEW c \in WriterPCs, pc1 = [pc0 EXCEPT ![w] = c]
  PROVE  /\ pc1 \in [Writers -> WriterPCs]
         /\ pc1[w] = c
         /\ \A u \in Writers \ {w} : pc1[u] = pc0[u]
OBVIOUS

\* Only the mutex owner is in the locked part of dpf_proc_write.
LEMMA OwnerOnly ==
  ASSUME MutexInv, NEW w \in Writers, wpc[w] \in Holding
  PROVE  mutex = w /\ \A u \in Writers \ {w} : wpc[u] \notin Holding
BY DEF MutexInv

\* A writer outside the locked part has no msg_data.
LEMMA NoMsgOutside ==
  ASSUME MsgInv, NEW u \in Writers, wpc[u] \notin Holding
  PROVE  msg[u] = NULL
BY DEF MsgInv, Holding

LEMMA InitIInv == Init => IInv
BY DEF Init, IInv, TypeInv, MutexInv, IdsInv, FreshInv, MsgInv, HeapInv,
       StageInv, TypeOK, ResponseOfLastWrite, Holding, BeforeAlloc,
       MsgBlock, RespBlock, Blocks, NULL

\* A write() call gets the next id; the blocks of that id are still
\* unallocated.
LEMMA WriteBeginIInv ==
  ASSUME IInv, NEW w \in Writers, WriteBegin(w) PROVE IInv'
<1>1. /\ wpc[w] = "idle" /\ writes < MaxWrites /\ writes' = writes + 1
      /\ wid' = [wid EXCEPT ![w] = writes + 1]
      /\ UNCHANGED <<heap, bsize, bresp, procBuf, procSize, mutex, msg, wret,
                     last, lastOk, rpc>>
  BY DEF WriteBegin, readerVars
<1>2. PICK bl \in BOOLEAN : wpc' = [wpc EXCEPT ![w] = IF bl THEN "idle"
                                                           ELSE "lock"]
  BY DEF WriteBegin
<1>3. /\ wpc' \in [Writers -> WriterPCs]
      /\ wpc'[w] \in {"idle", "lock"}
      /\ \A u \in Writers \ {w} : wpc'[u] = wpc[u]
  BY <1>2, WpcStep DEF IInv, TypeInv, TypeOK, WriterPCs
<1>4. /\ writes \in Nat /\ writes' \in 0..MaxWrites
      /\ wid' \in [Writers -> 0..writes']
      /\ wid'[w] = writes'
      /\ \A u \in Writers \ {w} : wid'[u] = wid[u] /\ wid[u] \in 0..writes
  BY <1>1 DEF IInv, TypeInv, TypeOK
<1>5. msg[w] = NULL /\ mutex # w
  BY <1>1 DEF IInv, MsgInv, MutexInv, Holding
<1>6. TypeInv'
  <2>1. last' \in [id : 0..writes', ok : BOOLEAN]
    BY <1>1, <1>4 DEF IInv, TypeInv
  <2> QED
    BY <1>1, <1>3, <1>4, <2>1 DEF IInv, TypeInv, TypeOK, WriterPCs
<1>7. MutexInv'
  BY <1>1, <1>3, <1>5 DEF IInv, MutexInv, Holding
<1>8. IdsInv'
  BY <1>1, <1>3, <1>4 DEF IInv, IdsInv
<1>9. FreshInv'
  <2>1. \A k \in writes'+1..MaxWrites :
          heap'[2 * k] = "unalloc" /\ heap'[2 * k + 1] = "unalloc"
    BY <1>1, <1>4 DEF IInv, FreshInv
  <2>2. heap[2 * wid'[w]] = "unalloc" /\ heap[2 * wid'[w] + 1] = "unalloc"
    <3>1. writes + 1 \in writes+1..MaxWrites
      BY <1>1, <1>4
    <3>2. heap[2 * (writes + 1)] = "unalloc"
          /\ heap[2 * (writes + 1) + 1] = "unalloc"
      BY <3>1 DEF IInv, FreshInv
    <3> QED
      BY <3>2, <1>1, <1>4
  <2>3. \A u \in Writers : wpc'[u] \in BeforeAlloc =>
          heap'[MsgBlock(u)'] = "unalloc" /\ heap'[RespBlock(u)'] = "unalloc"
    BY <1>1, <1>3, <1>4, <2>2 DEF IInv, FreshInv, MsgBlock, RespBlock
  <2>4. \A u \in Writers : wpc'[u] = "handle" =>
          heap'[RespBlock(u)'] = "unalloc"
    BY <1>1, <1>3, <1>4 DEF IInv, FreshInv, RespBlock
  <2> QED
    BY <2>1, <2>3, <2>4 DEF FreshInv
<1>10. MsgInv'
  BY <1>1, <1>3, <1>4, <1>5 DEF IInv, MsgInv, MsgBlock
<1>11. HeapInv'
  BY <1>1 DEF IInv, HeapInv
<1>12. StageInv'
  BY <1>1, <1>3, <1>4 DEF IInv, StageInv, RespBlock
<1>13. ResponseOfLastWrite'
  BY <1>1 DEF IInv, ResponseOfLastWrite
<1> QED
  BY <1>6, <1>7, <1>8, <1>9, <1>10, <1>11, <1>12, <1>13 DEF IInv

\* mutex_lock (line 354): the writer becomes the owner; it frees the old
\* response next if there is one.
LEMMA LockIInv ==
  ASSUME IInv, NEW w \in Writers, Lock(w) PROVE IInv'
<1>1. /\ wpc[w] = "lock" /\ mutex = NoOwner /\ mutex' = w
      /\ wpc' = [wpc EXCEPT ![w] = IF procBuf # NULL THEN "free" ELSE "fetch"]
      /\ UNCHANGED <<heap, bsize, bresp, procBuf, procSize, writes, wid, msg,
                     wret, last, lastOk, rpc>>
  BY DEF Lock, readerVars
<1>pc. /\ wpc' \in [Writers -> WriterPCs]
       /\ wpc'[w] = IF procBuf # NULL THEN "free" ELSE "fetch"
       /\ \A u \in Writers \ {w} : wpc'[u] = wpc[u]
  BY <1>1, WpcStep DEF IInv, TypeInv, TypeOK, WriterPCs
<1>2. \A u \in Writers : wpc[u] \notin Holding
  BY <1>1, <1>pc, WritersAssumption DEF IInv, MutexInv
<1>3. TypeInv'
  BY <1>1, <1>pc DEF IInv, TypeInv, TypeOK, WriterPCs
<1>4. MutexInv'
  BY <1>1, <1>pc, <1>2 DEF MutexInv, Holding
<1>5. IdsInv'
  BY <1>1, <1>pc DEF IInv, IdsInv
<1>6. FreshInv'
  BY <1>1, <1>pc DEF IInv, FreshInv, BeforeAlloc, MsgBlock, RespBlock
<1>7. MsgInv'
  BY <1>1, <1>pc DEF IInv, MsgInv, MsgBlock
<1>8. HeapInv'
  BY <1>1, <1>pc DEF IInv, HeapInv
<1>9. StageInv'
  BY <1>1, <1>pc DEF IInv, StageInv, RespBlock
<1>10. ResponseOfLastWrite'
  BY <1>1, <1>pc, WritersAssumption DEF ResponseOfLastWrite
<1> QED
  BY <1>3, <1>4, <1>5, <1>6, <1>7, <1>8, <1>9, <1>10 DEF IInv

\* kfree(proc_buffer) at line 357: the block freed is allocated, so no
\* block reserved for a later kmalloc changes.
LEMMA FreeResponseIInv ==
  ASSUME IInv, NEW w \in Writers, FreeResponse(w) PROVE IInv'
<1>1. /\ wpc[w] = "free"
      /\ heap' = [heap EXCEPT ![procBuf] = "freed"]
      /\ wpc' = [wpc EXCEPT ![w] = "clear"]
      /\ UNCHANGED <<bsize, bresp, procBuf, procSize, mutex, writes, wid, msg,
                     wret, last, lastOk, rpc>>
  BY DEF FreeResponse, readerVars
<1>pc. /\ wpc' \in [Writers -> WriterPCs] /\ wpc'[w] = "clear"
       /\ \A u \in Writers \ {w} : wpc'[u] = wpc[u]
  BY <1>1, WpcStep DEF IInv, TypeInv, TypeOK, WriterPCs
<1>2. mutex = w /\ \A u \in Writers \ {w} : wpc[u] \notin Holding
  BY <1>1, <1>pc, OwnerOnly DEF IInv, Holding
<1>3. \A u \in Writers : msg[u] = NULL
  BY <1>1, <1>pc, <1>2, NoMsgOutside DEF IInv, MsgInv
<1>4. procBuf \in Blocks /\ heap[procBuf] # "unalloc"
  BY <1>1, <1>pc DEF IInv, StageInv, HeapInv, TypeInv, TypeOK, NULL
<1>5. TypeInv'
  BY <1>1, <1>pc, <1>4 DEF IInv, TypeInv, TypeOK, WriterPCs
<1>6. (MutexInv /\ IdsInv)'
  BY <1>1, <1>pc DEF IInv, MutexInv, IdsInv, Holding
<1>7. FreshInv'
  BY <1>1, <1>pc, <1>4 DEF IInv, FreshInv, BeforeAlloc, MsgBlock, RespBlock
<1>8. MsgInv'
  BY <1>1, <1>pc, <1>3 DEF MsgInv
<1>9. HeapInv'
  BY <1>1, <1>pc, <1>2, <1>3, <1>4 DEF IInv, HeapInv, TypeInv, TypeOK, NULL, Blocks
<1>10. StageInv'
  BY <1>1, <1>pc, <1>2, <1>4 DEF IInv, StageInv, Holding, TypeInv, TypeOK
<1>11. ResponseOfLastWrite'
  BY <1>1, <1>pc, <1>2, WritersAssumption DEF ResponseOfLastWrite
<1> QED
  BY <1>5, <1>6, <1>7, <1>8, <1>9, <1>10, <1>11 DEF IInv

\* proc_buffer = NULL and proc_buffer_size = 0 (lines 358-359): the
\* buffer they dropped was already freed, so nothing live is lost.
LEMMA ClearResponseIInv ==
  ASSUME IInv, NEW w \in Writers, ClearResponse(w) PROVE IInv'
<1>1. /\ wpc[w] = "clear" /\ procBuf' = NULL /\ procSize' = 0
      /\ wpc' = [wpc EXCEPT ![w] = "fetch"]
      /\ UNCHANGED <<heap, bsize, bresp, mutex, writes, wid, msg, wret, last,
                     lastOk, rpc>>
  BY DEF ClearResponse, readerVars
<1>pc. /\ wpc' \in [Writers -> WriterPCs] /\ wpc'[w] = "fetch"
       /\ \A u \in Writers \ {w} : wpc'[u] = wpc[u]
  BY <1>1, WpcStep DEF IInv, TypeInv, TypeOK, WriterPCs
<1>2. mutex = w /\ \A u \in Writers \ {w} : wpc[u] \notin Holding
  BY <1>1, <1>pc, OwnerOnly DEF IInv, Holding
<1>3. \A u \in Writers : msg[u] = NULL
  BY <1>1, <1>pc, <1>2, NoMsgOutside DEF IInv, MsgInv
<1>4. heap[procBuf] = "freed"
  BY <1>1, <1>pc DEF IInv, StageInv
<1>5. TypeInv'
  BY <1>1, <1>pc DEF IInv, TypeInv, TypeOK, WriterPCs, NULL
<1>6. (MutexInv /\ IdsInv)'
  BY <1>1, <1>pc DEF IInv, MutexInv, IdsInv, Holding
<1>7. FreshInv'
  BY <1>1, <1>pc DEF IInv, FreshInv, BeforeAlloc, MsgBlock, RespBlock
<1>8. MsgInv'
  BY <1>1, <1>pc, <1>3 DEF MsgInv
<1>9. HeapInv'
  BY <1>1, <1>pc, <1>2, <1>3, <1>4 DEF IInv, HeapInv, TypeInv, TypeOK, NULL, Blocks
<1>10. StageInv'
  BY <1>1, <1>pc, <1>2 DEF IInv, StageInv, Holding
<1>11. ResponseOfLastWrite'
  BY <1>1, <1>pc, <1>2, WritersAssumption DEF ResponseOfLastWrite
<1> QED
  BY <1>5, <1>6, <1>7, <1>8, <1>9, <1>10, <1>11 DEF IInv

\* Lines 362-377: the msg_data block is the one reserved for this write,
\* so kmalloc touches no block in use; every path leaves proc_buffer NULL.
LEMMA FetchIInv ==
  ASSUME IInv, NEW w \in Writers, Fetch(w) PROVE IInv'
<1>1. /\ wpc[w] = "fetch"
      /\ UNCHANGED <<bresp, procBuf, procSize, mutex, writes, wid, last,
                     lastOk, rpc>>
  BY DEF Fetch, readerVars
<1>2. mutex = w /\ \A u \in Writers \ {w} : wpc[u] \notin Holding
  BY <1>1, OwnerOnly DEF IInv, Holding
<1>3. \A u \in Writers : msg[u] = NULL
  <2>1. msg[w] = NULL
    BY <1>1 DEF IInv, MsgInv
  <2>2. \A u \in Writers \ {w} : msg[u] = NULL
    BY <1>2, NoMsgOutside DEF IInv
  <2> QED
    BY <2>1, <2>2
<1>4. procBuf = NULL /\ \A b \in Blocks : heap[b] # "live"
  BY <1>1, <1>2, <1>3 DEF IInv, StageInv, HeapInv, NULL, Blocks
<1>5. /\ wid[w] \in 1..writes /\ writes \in 0..MaxWrites
      /\ MsgBlock(w) \in Blocks /\ RespBlock(w) \in Blocks
      /\ MsgBlock(w) # RespBlock(w)
  <2>1. wid[w] \in 1..writes /\ writes \in 0..MaxWrites
    BY <1>1 DEF IInv, IdsInv, TypeInv, TypeOK
  <2> QED
    BY <2>1 DEF MsgBlock, RespBlock, Blocks
<1>6. heap[MsgBlock(w)] = "unalloc" /\ heap[RespBlock(w)] = "unalloc"
  BY <1>1 DEF IInv, FreshInv, BeforeAlloc
<1>7. ASSUME NEW u \in Writers \ {w}, wpc[u] # "idle"
      PROVE  /\ wid[u] \in 1..writes
             /\ MsgBlock(u) # MsgBlock(w) /\ RespBlock(u) # MsgBlock(w)
  BY <1>1, <1>5, <1>7 DEF IInv, IdsInv, MsgBlock, RespBlock
<1>8. \A k \in writes+1..MaxWrites :
        2 * k \in Blocks /\ 2 * k + 1 \in Blocks
        /\ 2 * k # MsgBlock(w) /\ 2 * k + 1 # MsgBlock(w)
  BY <1>5 DEF MsgBlock, Blocks
<1>9. /\ heap' \in [Blocks -> {"unalloc", "live", "freed"}]
      /\ \A b \in Blocks \ {MsgBlock(w)} : heap'[b] = heap[b]
      /\ bsize' \in [Blocks -> Nat]
  BY <1>5 DEF Fetch, IInv, TypeInv, TypeOK
<1>pc. /\ wpc' \in [Writers -> WriterPCs]
       /\ wpc'[w] \in {"unlock", "handle"}
       /\ \A u \in Writers \ {w} : wpc'[u] = wpc[u]
  <2>1. \E c \in {"unlock", "handle"} : wpc' = [wpc EXCEPT ![w] = c]
    BY DEF Fetch
  <2> QED
    BY <2>1, WpcStep DEF IInv, TypeInv, TypeOK, WriterPCs
<1>10. /\ wret' \in [Writers -> {"ok", "err"}]
       /\ msg' \in [Writers -> {NULL} \cup Blocks]
       /\ \A u \in Writers \ {w} : msg'[u] = NULL
  BY <1>3, <1>5 DEF Fetch, IInv, TypeInv, TypeOK
<1>11. TypeInv'
  BY <1>1, <1>9, <1>10, <1>pc DEF IInv, TypeInv, TypeOK, WriterPCs
<1>12. MutexInv'
  BY <1>1, <1>2, <1>pc DEF MutexInv, Holding
<1>13. IdsInv'
  BY <1>1, <1>pc DEF IInv, IdsInv
<1>14. FreshInv'
  <2>1. \A k \in writes'+1..MaxWrites :
          heap'[2 * k] = "unalloc" /\ heap'[2 * k + 1] = "unalloc"
    BY <1>1, <1>8, <1>9 DEF IInv, FreshInv
  <2>2. ASSUME NEW u \in Writers, wpc'[u] \in BeforeAlloc
        PROVE  heap'[MsgBlock(u)'] = "unalloc" /\ heap'[RespBlock(u)'] = "unalloc"
    <3>1. u # w /\ wpc[u] \in BeforeAlloc
      BY <2>2, <1>pc DEF BeforeAlloc
    <3>2. MsgBlock(u) \in Blocks /\ RespBlock(u) \in Blocks
          /\ MsgBlock(u) # MsgBlock(w) /\ RespBlock(u) # MsgBlock(w)
      BY <3>1, <1>5, <1>7 DEF BeforeAlloc, MsgBlock, RespBlock, Blocks
    <3>3. MsgBlock(u)' = MsgBlock(u) /\ RespBlock(u)' = RespBlock(u)
      BY <1>1 DEF MsgBlock, RespBlock
    <3> QED
      BY <3>1, <3>2, <3>3, <1>9 DEF IInv, FreshInv
  <2>3. ASSUME NEW u \in Writers, wpc'[u] = "handle"
        PROVE  heap'[RespBlock(u)'] = "unalloc"
    <3>1. RespBlock(u)' = RespBlock(u)
      BY <1>1 DEF RespBlock
    <3>2. CASE u = w
      BY <3>1, <3>2, <1>5, <1>6, <1>9
    <3>3. CASE u # w
      <4>1. wpc[u] = "handle"
        BY <2>3, <3>3, <1>pc
      <4>2. RespBlock(u) \in Blocks /\ RespBlock(u) # MsgBlock(w)
        BY <4>1, <3>3, <1>5, <1>7 DEF RespBlock, Blocks
      <4> QED
        BY <4>1, <4>2, <3>1, <1>9 DEF IInv, FreshInv
    <3> QED
      BY <3>2, <3>3
  <2> QED
    BY <2>1, <2>2, <2>3 DEF FreshInv
<1>15. ResponseOfLastWrite'
  BY <1>1, <1>2, WritersAssumption DEF ResponseOfLastWrite
<1>16. (MsgInv /\ HeapInv /\ StageInv)'
  <2>1. CASE /\ wret' = [wret EXCEPT ![w] = "err"]
             /\ wpc' = [wpc EXCEPT ![w] = "unlock"]
             /\ msg' = msg
             /\ \A b \in Blocks : heap'[b] # "live"
    <3>1. MsgInv'
      BY <2>1, <1>3 DEF MsgInv
    <3>2. HeapInv'
      BY <2>1, <1>1, <1>4 DEF IInv, HeapInv
    <3>3. StageInv'
      <4>1. wret'[w] = "err"
        BY <2>1 DEF IInv, TypeInv
      <4> QED
        BY <4>1, <2>1, <1>1, <1>2, <1>4, <1>pc DEF StageInv, Holding
    <3> QED
      BY <3>1, <3>2, <3>3
  <2>2. CASE /\ heap'[MsgBlock(w)] = "live"
             /\ msg' = [msg EXCEPT ![w] = MsgBlock(w)]
             /\ wpc' = [wpc EXCEPT ![w] = "handle"]
    <3>1. MsgInv'
      BY <2>2, <1>1, <1>3, <1>pc DEF MsgInv, MsgBlock, IInv, TypeInv, TypeOK
    <3>2. HeapInv'
      <4>1. msg'[mutex'] = MsgBlock(w) /\ mutex' # NoOwner
        BY <2>2, <1>1, <1>2, WritersAssumption DEF IInv, TypeInv, TypeOK
      <4> QED
        BY <4>1, <1>1, <1>4, <1>9 DEF IInv, HeapInv
    <3>3. StageInv'
      BY <2>2, <1>1, <1>2, <1>4, <1>pc DEF StageInv, Holding
    <3> QED
      BY <3>1, <3>2, <3>3
  <2>3. \/ /\ wret' = [wret EXCEPT ![w] = "err"]
           /\ wpc' = [wpc EXCEPT ![w] = "unlock"]
           /\ msg' = msg
           /\ \A b \in Blocks : heap'[b] # "live"
        \/ /\ heap'[MsgBlock(w)] = "live"
           /\ msg' = [msg EXCEPT ![w] = MsgBlock(w)]
           /\ wpc' = [wpc EXCEPT ![w] = "handle"]
    BY <1>4, <1>5, <1>9 DEF Fetch, IInv, TypeInv, TypeOK
  <2> QED
    BY <2>1, <2>2, <2>3
<1> QED
  BY <1>11, <1>12, <1>13, <1>14, <1>15, <1>16 DEF IInv

\* Lines 379-404: a handler that fails leaves proc_buffer NULL; one that
\* succeeds publishes the response block reserved for this write, which
\* is neither msg_data nor a block of another write.
LEMMA HandleIInv ==
  ASSUME IInv, NEW w \in Writers, Handle(w) PROVE IInv'
<1>1. /\ wpc[w] = "handle"
      /\ UNCHANGED <<procSize, mutex, writes, wid, msg, last, lastOk, rpc>>
  BY DEF Handle, readerVars
<1>2. mutex = w /\ \A u \in Writers \ {w} : wpc[u] \notin Holding
  BY <1>1, OwnerOnly DEF IInv, Holding
<1>3. \A u \in Writers \ {w} : msg[u] = NULL
  BY <1>2, NoMsgOutside DEF IInv
<1>4. procBuf = NULL /\ procSize = 0
  BY <1>1, <1>2 DEF IInv, StageInv, HeapInv
<1>5. /\ wid[w] \in 1..writes /\ writes \in 0..MaxWrites
      /\ RespBlock(w) \in Blocks /\ MsgBlock(w) # RespBlock(w)
      /\ heap[RespBlock(w)] = "unalloc"
  <2>1. wid[w] \in 1..writes /\ writes \in 0..MaxWrites
    BY <1>1 DEF IInv, IdsInv, TypeInv, TypeOK
  <2>2. heap[RespBlock(w)] = "unalloc"
    BY <1>1 DEF IInv, FreshInv
  <2> QED
    BY <2>1, <2>2 DEF MsgBlock, RespBlock, Blocks
<1>6. msg[w] # NULL => msg[w] = MsgBlock(w) /\ heap[msg[w]] = "live"
  BY DEF IInv, MsgInv
<1>pc. /\ wpc' \in [Writers -> WriterPCs]
       /\ wpc'[w] \in {"unlock", "size"}
       /\ \A u \in Writers \ {w} : wpc'[u] = wpc[u]
  <2>1. \E c \in {"unlock", "size"} : wpc' = [wpc EXCEPT ![w] = c]
    BY DEF Handle
  <2> QED
    BY <2>1, WpcStep DEF IInv, TypeInv, TypeOK, WriterPCs
<1>7. MutexInv' /\ IdsInv' /\ ResponseOfLastWrite'
  BY <1>1, <1>2, <1>pc, WritersAssumption
  DEF IInv, MutexInv, IdsInv, Holding, ResponseOfLastWrite
<1>8. CASE /\ wret' = [wret EXCEPT ![w] = "err"]
           /\ wpc' = [wpc EXCEPT ![w] = "unlock"]
           /\ UNCHANGED <<heap, bsize, bresp, procBuf>>
  <2>1. TypeInv'
    BY <1>8, <1>1, <1>pc DEF IInv, TypeInv, TypeOK, WriterPCs
  <2>2. FreshInv'
    BY <1>8, <1>1, <1>pc DEF IInv, FreshInv, BeforeAlloc, MsgBlock, RespBlock
  <2>3. MsgInv'
    BY <1>8, <1>1, <1>pc DEF IInv, MsgInv, MsgBlock
  <2>4. HeapInv'
    BY <1>8, <1>1 DEF IInv, HeapInv
  <2>5. StageInv'
    <3>1. wret'[w] = "err"
      BY <1>8 DEF IInv, TypeInv
    <3> QED
      BY <3>1, <1>8, <1>1, <1>2, <1>4 DEF StageInv, Holding
  <2> QED
    BY <1>7, <2>1, <2>2, <2>3, <2>4, <2>5 DEF IInv
<1>9. ASSUME NEW t \in Handled, NEW s \in RespSize[t],
             heap' = [b \in Blocks |->
                        IF b = RespBlock(w) THEN "live"
                        ELSE IF b = procBuf THEN "freed" ELSE heap[b]],
             bsize' = [bsize EXCEPT ![RespBlock(w)] = s],
             bresp' = [bresp EXCEPT ![RespBlock(w)] = wid[w]],
             procBuf' = RespBlock(w),
             wret' = [wret EXCEPT ![w] = "ok"],
             wpc' = [wpc EXCEPT ![w] = "size"]
      PROVE  IInv'
  <2>1. /\ heap' \in [Blocks -> {"unalloc", "live", "freed"}]
        /\ heap'[RespBlock(w)] = "live"
        /\ \A b \in Blocks \ {RespBlock(w)} : heap'[b] = heap[b]
    BY <1>9, <1>4, <1>5 DEF IInv, TypeInv, TypeOK, NULL, Blocks
  <2>2. RespBlock(w)' = RespBlock(w) /\ MsgBlock(w)' = MsgBlock(w)
    BY <1>1 DEF RespBlock, MsgBlock
  <2>3. TypeInv'
    <3>1. s \in Nat
      BY SizeAssumption
    <3>2. /\ bsize' \in [Blocks -> Nat]
          /\ bresp' \in [Blocks -> 0..MaxWrites]
          /\ wret' \in [Writers -> {"ok", "err"}]
      BY <3>1, <1>9, <1>5 DEF IInv, TypeInv, TypeOK
    <3> QED
      BY <3>2, <2>1, <1>9, <1>1, <1>5, <1>pc DEF IInv, TypeInv, TypeOK,
         WriterPCs
  <2>4. FreshInv'
    <3>1. \A k \in writes'+1..MaxWrites :
            heap'[2 * k] = "unalloc" /\ heap'[2 * k + 1] = "unalloc"
      <4>1. \A k \in writes+1..MaxWrites :
              /\ 2 * k \in Blocks /\ 2 * k + 1 \in Blocks
              /\ 2 * k # RespBlock(w) /\ 2 * k + 1 # RespBlock(w)
        BY <1>5 DEF RespBlock, Blocks
      <4> QED
        BY <4>1, <2>1, <1>1 DEF IInv, FreshInv
    <3>2. ASSUME NEW u \in Writers, wpc'[u] \in BeforeAlloc
          PROVE  heap'[MsgBlock(u)'] = "unalloc"
                 /\ heap'[RespBlock(u)'] = "unalloc"
      <4>1. u # w /\ wpc[u] \in BeforeAlloc
        BY <3>2, <1>pc DEF BeforeAlloc
      <4>2. wid[u] \in 1..writes /\ wid[u] # wid[w]
        BY <4>1, <1>1 DEF IInv, IdsInv, BeforeAlloc
      <4>3. /\ MsgBlock(u) \in Blocks /\ RespBlock(u) \in Blocks
            /\ MsgBlock(u) # RespBlock(w) /\ RespBlock(u) # RespBlock(w)
            /\ MsgBlock(u)' = MsgBlock(u) /\ RespBlock(u)' = RespBlock(u)
        BY <4>2, <1>1, <1>5 DEF MsgBlock, RespBlock, Blocks
      <4> QED
        BY <4>1, <4>3, <2>1 DEF IInv, FreshInv
    <3>3. \A u \in Writers : wpc'[u] # "handle"
      BY <1>2, <1>9, <1>pc DEF Holding
    <3> QED
      BY <3>1, <3>2, <3>3 DEF FreshInv
  <2>5. MsgInv'
    <3>1. msg[w] # NULL => wpc'[w] = "size" /\ heap'[msg[w]] = "live"
      BY <1>5, <1>6, <1>9, <2>1, <1>pc DEF MsgBlock, Blocks
    <3> QED
      BY <3>1, <1>1, <1>3, <2>2 DEF MsgInv, IInv, TypeInv, TypeOK
  <2>6. HeapInv'
    <3>1. \A b \in Blocks : heap'[b] = "live" =>
            b = procBuf' \/ (mutex' # NoOwner /\ b = msg'[mutex'])
      BY <2>1, <1>1, <1>4, <1>9 DEF IInv, HeapInv, NULL, Blocks
    <3> QED
      BY <3>1, <2>1, <1>5, <1>9 DEF HeapInv, NULL, Blocks
  <2>7. StageInv'
    <3>1. /\ procBuf' = RespBlock(w)' /\ heap'[procBuf'] = "live"
          /\ bresp'[procBuf'] = wid'[w] /\ wret'[w] = "ok"
      BY <1>1, <1>5, <1>9, <2>1, <2>2 DEF IInv, TypeInv, TypeOK
    <3>2. wpc'[w] = "size"
      BY <1>9, <1>pc
    <3> QED
      BY <3>1, <3>2, <1>2, <1>pc DEF StageInv, Holding
  <2> QED
    BY <1>7, <2>3, <2>4, <2>5, <2>6, <2>7 DEF IInv
<1> QED
  BY <1>8, <1>9 DEF Handle

\* The handler's proc_buffer_size store: the size published is the one
\* proc_buffer was allocated with.
LEMMA SetSizeIInv ==
  ASSUME IInv, NEW w \in Writers, SetSize(w) PROVE IInv'
<1>1. /\ wpc[w] = "size" /\ procSize' = bsize[procBuf]
      /\ wpc' = [wpc EXCEPT ![w] = "unlock"]
      /\ UNCHANGED <<heap, bsize, bresp, procBuf, mutex, writes, wid, msg,
                     wret, last, lastOk, rpc>>
  BY DEF SetSize, readerVars
<1>pc. /\ wpc' \in [Writers -> WriterPCs] /\ wpc'[w] = "unlock"
       /\ \A u \in Writers \ {w} : wpc'[u] = wpc[u]
  BY <1>1, WpcStep DEF IInv, TypeInv, TypeOK, WriterPCs
<1>2. mutex = w /\ \A u \in Writers \ {w} : wpc[u] \notin Holding
  BY <1>1, OwnerOnly DEF IInv, Holding
<1>3. /\ procBuf = RespBlock(w) /\ heap[procBuf] = "live"
      /\ bresp[procBuf] = wid[w] /\ wret[w] = "ok"
  BY <1>1 DEF IInv, StageInv
<1>4. procBuf \in Blocks /\ procSize' \in Nat
  <2>1. wid[w] \in 1..writes /\ writes \in 0..MaxWrites
    BY <1>1 DEF IInv, IdsInv, TypeInv, TypeOK
  <2>2. procBuf \in Blocks
    BY <2>1, <1>3 DEF RespBlock, Blocks
  <2> QED
    BY <2>2, <1>1 DEF IInv, TypeInv, TypeOK
<1>5. TypeInv'
  BY <1>1, <1>4, <1>pc DEF IInv, TypeInv, TypeOK, WriterPCs
<1>6. (MutexInv /\ IdsInv /\ FreshInv /\ MsgInv)'
  BY <1>1, <1>pc DEF IInv, MutexInv, IdsInv, FreshInv, MsgInv, Holding,
     BeforeAlloc, MsgBlock, RespBlock
<1>7. HeapInv'
  BY <1>1, <1>4 DEF IInv, HeapInv, NULL, Blocks
<1>8. StageInv'
  BY <1>1, <1>2, <1>3, <1>pc DEF StageInv, Holding, RespBlock
<1>9. ResponseOfLastWrite'
  BY <1>1, <1>2, WritersAssumption DEF ResponseOfLastWrite
<1> QED
  BY <1>5, <1>6, <1>7, <1>8, <1>9 DEF IInv

\* Lines 406-409: kfree(msg_data) frees only the writer's own message, so
\* the published response stays live; after mutex_unlock the last write
\* is this one, and proc_buffer holds its outcome.
LEMMA UnlockIInv ==
  ASSUME IInv, NEW w \in Writers, Unlock(w) PROVE IInv'
<1>1. /\ wpc[w] = "unlock"
      /\ heap' = IF msg[w] # NULL THEN [heap EXCEPT ![msg[w]] = "freed"]
                                  ELSE heap
      /\ msg' = [msg EXCEPT ![w] = NULL]
      /\ mutex' = NoOwner
      /\ last' = [id |-> wid[w], ok |-> wret[w] = "ok"]
      /\ wpc' = [wpc EXCEPT ![w] = "idle"]
      /\ UNCHANGED <<bsize, bresp, procBuf, procSize, writes, wid, wret, rpc>>
  BY DEF Unlock, readerVars
<1>pc. /\ wpc' \in [Writers -> WriterPCs] /\ wpc'[w] = "idle"
       /\ \A u \in Writers \ {w} : wpc'[u] = wpc[u]
  BY <1>1, WpcStep DEF IInv, TypeInv, TypeOK, WriterPCs
<1>2. mutex = w /\ \A u \in Writers \ {w} : wpc[u] \notin Holding
  BY <1>1, OwnerOnly DEF IInv, Holding
<1>3. \A u \in Writers \ {w} : msg[u] = NULL
  BY <1>2, NoMsgOutside DEF IInv
<1>4. /\ wid[w] \in 1..writes /\ writes \in 0..MaxWrites
      /\ msg[w] # NULL => msg[w] = MsgBlock(w) /\ heap[msg[w]] = "live"
                          /\ msg[w] \in Blocks
  BY <1>1 DEF IInv, IdsInv, MsgInv, TypeInv, TypeOK, NULL
<1>5. /\ heap' \in [Blocks -> {"unalloc", "live", "freed"}]
      /\ \A b \in Blocks :
           heap'[b] = IF msg[w] # NULL /\ b = msg[w] THEN "freed" ELSE heap[b]
  BY <1>1, <1>4 DEF IInv, TypeInv, TypeOK
<1>6. \A b \in Blocks : heap[b] = "unalloc" => heap'[b] = "unalloc"
  BY <1>4, <1>5
<1>7. \A u \in Writers : wpc'[u] \notin Holding
  BY <1>2, <1>pc DEF Holding
<1>8. TypeInv'
  <2>1. /\ msg' \in [Writers -> {NULL} \cup Blocks]
        /\ last' \in [id : 0..writes', ok : BOOLEAN]
    BY <1>1, <1>4 DEF IInv, TypeInv, TypeOK
  <2> QED
    BY <2>1, <1>1, <1>5, <1>pc, WritersAssumption DEF IInv, TypeInv, TypeOK,
       WriterPCs
<1>9. MutexInv'
  BY <1>1, <1>7, WritersAssumption DEF MutexInv
<1>10. IdsInv'
  BY <1>1, <1>pc DEF IInv, IdsInv
<1>11. FreshInv'
  <2>1. \A k \in writes'+1..MaxWrites :
          heap'[2 * k] = "unalloc" /\ heap'[2 * k + 1] = "unalloc"
    <3>1. \A k \in writes+1..MaxWrites : 2 * k \in Blocks /\ 2 * k + 1 \in Blocks
      BY <1>4 DEF Blocks
    <3>2. ASSUME NEW k \in writes'+1..MaxWrites
          PROVE  heap'[2 * k] = "unalloc" /\ heap'[2 * k + 1] = "unalloc"
      <4>1. k \in writes+1..MaxWrites
        BY <1>1
      <4>2. heap[2 * k] = "unalloc" /\ heap[2 * k + 1] = "unalloc"
        BY <4>1 DEF IInv, FreshInv
      <4> QED
        BY <4>1, <4>2, <3>1, <1>6
    <3> QED
      BY <3>2
  <2>2. ASSUME NEW u \in Writers, wpc'[u] \in BeforeAlloc
        PROVE  heap'[MsgBlock(u)'] = "unalloc"
               /\ heap'[RespBlock(u)'] = "unalloc"
    <3>1. u # w /\ wpc[u] \in BeforeAlloc
      BY <2>2, <1>pc DEF BeforeAlloc
    <3>2. wid[u] \in 1..writes
      BY <3>1 DEF IInv, IdsInv, BeforeAlloc
    <3>3. /\ MsgBlock(u) \in Blocks /\ RespBlock(u) \in Blocks
          /\ MsgBlock(u)' = MsgBlock(u) /\ RespBlock(u)' = RespBlock(u)
      BY <3>2, <1>1, <1>4 DEF MsgBlock, RespBlock, Blocks
    <3> QED
      BY <3>1, <3>3, <1>6 DEF IInv, FreshInv
  <2>3. \A u \in Writers : wpc'[u] # "handle"
    BY <1>7 DEF Holding
  <2> QED
    BY <2>1, <2>2, <2>3 DEF FreshInv
<1>12. MsgInv'
  BY <1>1, <1>3 DEF MsgInv, IInv, TypeInv, TypeOK
<1>13. ASSUME NEW b \in Blocks, heap'[b] = "live" PROVE b = procBuf
  <2>1. heap[b] = "live" /\ ~(msg[w] # NULL /\ b = msg[w])
    BY <1>5, <1>13
  <2>2. b = procBuf \/ b = msg[w]
    BY <2>1, <1>2 DEF IInv, HeapInv
  <2>3. b # NULL
    BY DEF Blocks, NULL
  <2> QED
    BY <2>1, <2>2, <2>3
<1>14. HeapInv'
  <2>1. ASSUME procBuf # NULL PROVE heap'[procBuf] # "unalloc"
    <3>1. procBuf \in Blocks /\ heap[procBuf] # "unalloc"
      BY <2>1 DEF IInv, HeapInv, TypeInv, TypeOK
    <3>2. heap'[procBuf] \in {"freed", heap[procBuf]}
      BY <3>1, <1>5
    <3> QED
      BY <3>1, <3>2
  <2>2. procBuf' = NULL => procSize' = 0
    BY <1>1 DEF IInv, HeapInv
  <2>3. \A b \in Blocks : heap'[b] = "live" => b = procBuf'
    BY <1>1, <1>13
  <2> QED
    BY <2>1, <2>2, <2>3, <1>1 DEF HeapInv
<1>15. StageInv'
  BY <1>7 DEF StageInv, Holding
<1>16. ResponseOfLastWrite'
  <2>1. last'.id # 0 /\ last'.id = wid[w] /\ (last'.ok <=> wret[w] = "ok")
    <3>1. last'.id = wid[w] /\ last'.ok = (wret[w] = "ok")
      BY <1>1
    <3>2. wid[w] # 0
      BY <1>4
    <3> QED
      BY <3>1, <3>2, Zenon
  <2>2. CASE wret[w] = "ok"
    <3>1. /\ procBuf = RespBlock(w) /\ heap[procBuf] = "live"
          /\ bresp[procBuf] = wid[w] /\ procSize = bsize[procBuf]
      BY <2>2, <1>1 DEF IInv, StageInv
    <3>2. procBuf \in Blocks /\ procBuf # NULL
          /\ ~(msg[w] # NULL /\ procBuf = msg[w])
      <4>1. wid[w] \in 1..MaxWrites
        BY <1>4
      <4>2. procBuf \in Blocks /\ procBuf # NULL
        BY <3>1, <4>1 DEF RespBlock, Blocks, NULL
      <4>3. ~(msg[w] # NULL /\ procBuf = msg[w])
        BY <3>1, <4>1, <1>4 DEF MsgBlock, RespBlock
      <4> QED
        BY <4>2, <4>3
    <3>3. heap'[procBuf] = "live"
      BY <3>1, <3>2, <1>5
    <3> QED
      BY <3>1, <3>2, <3>3, <2>1, <2>2, <1>1 DEF ResponseOfLastWrite
  <2>3. CASE wret[w] # "ok"
    <3>1. procBuf = NULL /\ procSize = 0
      BY <2>3, <1>1 DEF IInv, StageInv, HeapInv
    <3> QED
      BY <3>1, <2>1, <2>3, <1>1 DEF ResponseOfLastWrite
  <2> QED
    BY <2>2, <2>3
<1> QED
  BY <1>8, <1>9, <1>10, <1>11, <1>12, <1>14, <1>15, <1>16 DEF IInv

\* The readers change no state of the writers and the heap.
LEMMA ReaderIInv ==
  ASSUME IInv, NEW r \in Readers, ReadCheck(r) \/ ReadCopy(r) \/ ReadDone(r)
  PROVE IInv'
<1>1. UNCHANGED <<heap, bsize, bresp, procBuf, procSize, mutex, writes, wpc,
                  wid, msg, wret, last, lastOk>>
  BY DEF ReadCheck, ReadCopy, ReadDone, writerVars
<1>2. rpc' \in [Readers -> {"idle", "checked", "copy"}]
  BY DEF ReadCheck, ReadCopy, ReadDone, IInv, TypeInv, TypeOK
<1>3. TypeInv'
  BY <1>1, <1>2 DEF IInv, TypeInv, TypeOK
<1>4. (MutexInv /\ IdsInv /\ FreshInv /\ MsgInv)'
  BY <1>1 DEF IInv, MutexInv, IdsInv, FreshInv, MsgInv, MsgBlock, RespBlock
<1>5. (HeapInv /\ StageInv /\ ResponseOfLastWrite)'
  BY <1>1 DEF IInv, HeapInv, StageInv, ResponseOfLastWrite, RespBlock
<1> QED
  BY <1>3, <1>4, <1>5 DEF IInv

\* A step that changes no variable keeps every part of IInv.
LEMMA StutterIInv ==
  ASSUME IInv, UNCHANGED vars PROVE IInv'
<1>1. UNCHANGED <<heap, bsize, bresp, procBuf, procSize, mutex, writes, wpc,
                  wid, msg, wret, last, lastOk, rpc>>
  BY DEF vars
<1>2. (TypeInv /\ MutexInv /\ IdsInv)'
  BY <1>1 DEF IInv, TypeInv, TypeOK, MutexInv, IdsInv
<1>3. (FreshInv /\ MsgInv)'
  BY <1>1 DEF IInv, FreshInv, MsgInv, MsgBlock, RespBlock
<1>4. (HeapInv /\ StageInv /\ ResponseOfLastWrite)'
  BY <1>1 DEF IInv, HeapInv, StageInv, ResponseOfLastWrite, RespBlock
<1> QED
  BY <1>2, <1>3, <1>4 DEF IInv

\* Every step of dpf_proc_write, of proc_read, or no step, keeps IInv.
LEMMA StepIInv == IInv /\ [Next]_vars => IInv'
<1> SUFFICES ASSUME IInv, [Next]_vars PROVE IInv'
  OBVIOUS
<1>1. CASE \E w \in Writers :
             \/ WriteBegin(w) \/ Lock(w) \/ FreeResponse(w)
             \/ ClearResponse(w) \/ Fetch(w) \/ Handle(w) \/ SetSize(w)
             \/ Unlock(w)
  BY <1>1, WriteBeginIInv, LockIInv, FreeResponseIInv, ClearResponseIInv,
     FetchIInv, HandleIInv, SetSizeIInv, UnlockIInv
<1>2. CASE \E r \in Readers : ReadCheck(r) \/ ReadCopy(r) \/ ReadDone(r)
  BY <1>2, ReaderIInv
<1>3. CASE UNCHANGED vars
  BY <1>3, StutterIInv
<1> QED
  BY <1>1, <1>2, <1>3 DEF Next

\* IInv holds in every reachable state of the proc file.
THEOREM IInvHolds == Spec => []IInv
BY InitIInv, StepIInv, PTL DEF Spec

\* dpf_proc_write and proc_read keep every variable in its type: the heap
\* blocks, proc_buffer, its size, dpf_mutex and the writers' places.
THEOREM TypeCorrect == Spec => []TypeOK
<1>1. IInv => TypeOK
  BY DEF IInv, TypeInv
<1> QED
  BY <1>1, IInvHolds, PTL

\* Whenever dpf_mutex is free, proc_buffer and proc_buffer_size are the
\* outcome of the last dpf_proc_write that held the mutex: its live
\* response with the size it was allocated with if the handler succeeded,
\* NULL and 0 if the write failed after taking the mutex.
THEOREM ResponseCorrect == Spec => []ResponseOfLastWrite
<1>1. IInv => ResponseOfLastWrite
  BY DEF IInv
<1> QED
  BY <1>1, IInvHolds, PTL

\* No kernel memory leaks: with dpf_mutex free, msg_data and every
\* replaced proc_buffer have been kfree'd on every path of
\* dpf_proc_write, and the only live block is proc_buffer.
THEOREM NoLeakHolds == Spec => []NoLeak
<1>1. IInv => NoLeak
  BY DEF IInv, HeapInv, NoLeak
<1> QED
  BY <1>1, IInvHolds, PTL


\* Every path of dpf_proc_write, the early returns of lines 363, 369 and
\* 375 included, releases dpf_mutex exactly when it leaves lines 356-409,
\* for every number of writers and readers.
THEOREM MutexCorrect == Spec => []MutexInv
BY IInvHolds, PTL DEF IInv

=============================================================================
