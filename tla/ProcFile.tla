------------------------------ MODULE ProcFile ------------------------------
(***************************************************************************)
(* The request/response pseudo-file of the kernel module                   *)
(* (src/kernelmod/kernel_dpf.c, /proc/dpf_monitor).                        *)
(*                                                                         *)
(* A user process writes a request: dpf_proc_write rejects a write of the  *)
(* wrong length, takes dpf_mutex, frees the previous response, copies the  *)
(* message into a kmalloc'd buffer and dispatches it to a handler, which   *)
(* allocates the response and publishes it in proc_buffer and then         *)
(* proc_buffer_size.  proc_read checks and copies proc_buffer WITHOUT the  *)
(* mutex.  The kernel heap is a finite set of blocks, each unallocated,    *)
(* live or freed (freed blocks are not reused, so a use after free stays   *)
(* visible).  A response is identified by the number of the write that     *)
(* produced it; its length is one of the sizes its type can have.          *)
(***************************************************************************)
EXTENDS Integers, FiniteSets

CONSTANTS
  Writers,     \* user processes writing requests
  Readers,     \* user processes reading the file
  RespSize,    \* RespSize[t]: the lengths a response of type t may have
  InitSize,    \* PROC_BUFFER_SIZE, the block dpf_module_init allocates
  ReadCounts,  \* the buffer lengths a reader may pass to read()
  MaxWrites,   \* bound on the number of write() calls
  NoOwner      \* the mutex is free

\* The message types dpf_proc_write dispatches (line 379); any other type
\* is -EINVAL, which the model folds into the handlers' failure.
Handled == {"init", "core_range", "core_weight", "tuning", "ddrbw_set",
            "pmu_read", "msr_read"}

ASSUME WritersAssumption == Writers # {} /\ NoOwner \notin Writers
ASSUME SizeAssumption == /\ RespSize \in [Handled -> SUBSET (Nat \ {0})]
                         /\ \A t \in Handled : RespSize[t] # {}
                         /\ InitSize \in Nat
                         /\ ReadCounts \subseteq Nat
ASSUME MaxWritesAssumption == MaxWrites \in Nat

\* Each write allocates at most a message and a response; block 1 is the
\* buffer dpf_module_init allocates, and write k's blocks are 2k and 2k+1.
NULL == 0
Blocks == 1..(1 + 2 * MaxWrites)

VARIABLES
  heap,      \* heap[b]: "unalloc", "live" or "freed"
  bsize,     \* bsize[b]: the length block b was allocated with
  bresp,     \* bresp[b]: the write whose response block b holds (0: none)
  procBuf,   \* proc_buffer
  procSize,  \* proc_buffer_size
  mutex,     \* dpf_mutex: its owner or NoOwner
  writes,    \* number of write() calls made
  wpc,       \* wpc[w]: where writer w is in dpf_proc_write
  wid,       \* wid[w]: the number of w's current write
  msg,       \* msg[w]: the msg_data block of w (NULL before kmalloc)
  wret,      \* wret[w]: "ok" or "err", what w's write will return
  last,      \* the write that last held the mutex and its result
  lastOk,    \* the write that last succeeded (0: none)
  rpc,       \* rpc[r]: "idle", "checked" or "copy" in proc_read
  rcount,    \* rcount[r]: the count argument of r's read
  rptr,      \* rptr[r]: the buffer r checked, then the one it copies from
  rsize      \* rsize[r]: the size r checked, then the size it copies

vars == <<heap, bsize, bresp, procBuf, procSize, mutex, writes, wpc, wid,
          msg, wret, last, lastOk, rpc, rcount, rptr, rsize>>

writerVars == <<wpc, wid, msg, wret>>
readerVars == <<rpc, rcount, rptr, rsize>>

\* kmalloc returns a block never handed out before.  Write ids are never
\* reused, so writer w's msg_data (line 367) and its handler's response
\* (e.g. line 298) get the blocks reserved for its write.
MsgBlock(w) == 2 * wid[w]
RespBlock(w) == 2 * wid[w] + 1

\* After dpf_module_init: proc_buffer is a fresh block of PROC_BUFFER_SIZE
\* bytes with proc_buffer_size still 0 (lines 27, 467).
Init ==
  /\ heap = [b \in Blocks |-> IF b = 1 THEN "live" ELSE "unalloc"]
  /\ bsize = [b \in Blocks |-> IF b = 1 THEN InitSize ELSE 0]
  /\ bresp = [b \in Blocks |-> 0]
  /\ procBuf = 1
  /\ procSize = 0
  /\ mutex = NoOwner
  /\ writes = 0
  /\ wpc = [w \in Writers |-> "idle"]
  /\ wid = [w \in Writers |-> 0]
  /\ msg = [w \in Writers |-> NULL]
  /\ wret = [w \in Writers |-> "ok"]
  /\ last = [id |-> 0, ok |-> TRUE]
  /\ lastOk = 0
  /\ rpc = [r \in Readers |-> "idle"]
  /\ rcount = [r \in Readers |-> 0]
  /\ rptr = [r \in Readers |-> NULL]
  /\ rsize = [r \in Readers |-> 0]

(***************************************************************************)
(* dpf_proc_write, lines 344-410.                                          *)
(***************************************************************************)

\* Line 351: a write shorter than the header or longer than MAX_MSG_SIZE
\* returns -EINVAL without the mutex; any other goes on to mutex_lock.
WriteBegin(w) ==
  /\ wpc[w] = "idle"
  /\ writes < MaxWrites
  /\ writes' = writes + 1
  /\ wid' = [wid EXCEPT ![w] = writes + 1]
  /\ \E badLength \in BOOLEAN :
       wpc' = [wpc EXCEPT ![w] = IF badLength THEN "idle" ELSE "lock"]
  /\ UNCHANGED <<heap, bsize, bresp, procBuf, procSize, mutex, msg, wret,
                 last, lastOk, readerVars>>

\* Lines 354-356: take the mutex; the previous response, if any, goes.
Lock(w) ==
  /\ wpc[w] = "lock"
  /\ mutex = NoOwner
  /\ mutex' = w
  /\ wpc' = [wpc EXCEPT ![w] = IF procBuf # NULL THEN "free" ELSE "fetch"]
  /\ UNCHANGED <<heap, bsize, bresp, procBuf, procSize, writes, wid, msg,
                 wret, last, lastOk, readerVars>>

\* Line 357: kfree(proc_buffer), while proc_buffer still points at it.
FreeResponse(w) ==
  /\ wpc[w] = "free"
  /\ heap' = [heap EXCEPT ![procBuf] = "freed"]
  /\ wpc' = [wpc EXCEPT ![w] = "clear"]
  /\ UNCHANGED <<bsize, bresp, procBuf, procSize, mutex, writes, wid, msg,
                 wret, last, lastOk, readerVars>>

\* Lines 358-359.
ClearResponse(w) ==
  /\ wpc[w] = "clear"
  /\ procBuf' = NULL
  /\ procSize' = 0
  /\ wpc' = [wpc EXCEPT ![w] = "fetch"]
  /\ UNCHANGED <<heap, bsize, bresp, mutex, writes, wid, msg, wret, last,
                 lastOk, readerVars>>

\* Mutant: a fault while copying the message leaks msg_data.
FetchLeaks(w) ==
  /\ wpc[w] = "fetch"
  /\ heap' = [heap EXCEPT ![MsgBlock(w)] = "live"]
  /\ bsize' = [bsize EXCEPT ![MsgBlock(w)] = 1]
  /\ wret' = [wret EXCEPT ![w] = "err"]
  /\ wpc' = [wpc EXCEPT ![w] = "unlock"]
  /\ UNCHANGED <<msg, bresp, procBuf, procSize, mutex, writes, wid, last,
                 lastOk, readerVars>>

\* Lines 362-377: copy the header, kmalloc msg_data, copy the message.  A
\* fault on the header or a failed kmalloc returns at once; a fault on the
\* message frees msg_data first.
Fetch(w) ==
  /\ wpc[w] = "fetch"
  /\ \/ /\ wret' = [wret EXCEPT ![w] = "err"]
        /\ wpc' = [wpc EXCEPT ![w] = "unlock"]
        /\ UNCHANGED <<heap, bsize, msg>>
     \/ /\ heap' = [heap EXCEPT ![MsgBlock(w)] = "freed"]
        /\ bsize' = [bsize EXCEPT ![MsgBlock(w)] = 1]
        /\ wret' = [wret EXCEPT ![w] = "err"]
        /\ wpc' = [wpc EXCEPT ![w] = "unlock"]
        /\ UNCHANGED msg
     \/ /\ heap' = [heap EXCEPT ![MsgBlock(w)] = "live"]
        /\ bsize' = [bsize EXCEPT ![MsgBlock(w)] = 1]
        /\ msg' = [msg EXCEPT ![w] = MsgBlock(w)]
        /\ wpc' = [wpc EXCEPT ![w] = "handle"]
        /\ UNCHANGED wret
  /\ UNCHANGED <<bresp, procBuf, procSize, mutex, writes, wid, last, lastOk,
                 readerVars>>

\* Lines 379-404 and the handlers (lines 59-323).  A handler fails with
\* -ENOMEM when kmalloc fails and, for pmu_read and msr_read, with -EINVAL
\* on an invalid or disabled core; an unknown type is -EINVAL.  A handler
\* that succeeds frees proc_buffer if set, allocates its response and
\* stores it in proc_buffer; proc_buffer_size is the next store.
Handle(w) ==
  /\ wpc[w] = "handle"
  /\ \/ /\ wret' = [wret EXCEPT ![w] = "err"]
        /\ wpc' = [wpc EXCEPT ![w] = "unlock"]
        /\ UNCHANGED <<heap, bsize, bresp, procBuf>>
     \/ \E t \in Handled : \E s \in RespSize[t] :
          /\ heap' = [b \in Blocks |->
                        IF b = RespBlock(w) THEN "live"
                        ELSE IF b = procBuf THEN "freed" ELSE heap[b]]
          /\ bsize' = [bsize EXCEPT ![RespBlock(w)] = s]
          /\ bresp' = [bresp EXCEPT ![RespBlock(w)] = wid[w]]
          /\ procBuf' = RespBlock(w)
          /\ wret' = [wret EXCEPT ![w] = "ok"]
          /\ wpc' = [wpc EXCEPT ![w] = "size"]
  /\ UNCHANGED <<procSize, mutex, writes, wid, msg, last, lastOk, readerVars>>

\* Mutant: the handler publishes the buffer but never its size.
SetSizeMissing(w) ==
  /\ wpc[w] = "size"
  /\ wpc' = [wpc EXCEPT ![w] = "unlock"]
  /\ UNCHANGED <<heap, bsize, bresp, procBuf, procSize, mutex, writes, wid,
                 msg, wret, last, lastOk, readerVars>>

\* The handler's proc_buffer_size = sizeof(...) (e.g. line 318).
SetSize(w) ==
  /\ wpc[w] = "size"
  /\ procSize' = bsize[procBuf]
  /\ wpc' = [wpc EXCEPT ![w] = "unlock"]
  /\ UNCHANGED <<heap, bsize, bresp, procBuf, mutex, writes, wid, msg, wret,
                 last, lastOk, readerVars>>

\* Mutant: an early error return (lines 363, 369, 375) forgets
\* mutex_unlock.
UnlockErrorKeepsMutex(w) ==
  /\ wpc[w] = "unlock"
  /\ heap' = IF msg[w] # NULL THEN [heap EXCEPT ![msg[w]] = "freed"] ELSE heap
  /\ msg' = [msg EXCEPT ![w] = NULL]
  /\ mutex' = IF wret[w] = "ok" THEN NoOwner ELSE mutex
  /\ last' = [id |-> wid[w], ok |-> wret[w] = "ok"]
  /\ lastOk' = IF wret[w] = "ok" THEN wid[w] ELSE lastOk
  /\ wpc' = [wpc EXCEPT ![w] = "idle"]
  /\ UNCHANGED <<bsize, bresp, procBuf, procSize, writes, wid, wret,
                 readerVars>>

\* Lines 406-409 (and the unlock of the early returns, 363, 369, 375):
\* free msg_data, release the mutex, return count or the error.
Unlock(w) ==
  /\ wpc[w] = "unlock"
  /\ heap' = IF msg[w] # NULL THEN [heap EXCEPT ![msg[w]] = "freed"] ELSE heap
  /\ msg' = [msg EXCEPT ![w] = NULL]
  /\ mutex' = NoOwner
  /\ last' = [id |-> wid[w], ok |-> wret[w] = "ok"]
  /\ lastOk' = IF wret[w] = "ok" THEN wid[w] ELSE lastOk
  /\ wpc' = [wpc EXCEPT ![w] = "idle"]
  /\ UNCHANGED <<bsize, bresp, procBuf, procSize, writes, wid, wret,
                 readerVars>>

(***************************************************************************)
(* proc_read, lines 326-342, with no lock.  Each read is of a fresh open   *)
(* (pos is 0).   The check reads proc_buffer and proc_buffer_size; the      *)
(* arguments of copy_to_user are loaded again, and since the loads race    *)
(* with the writer the compiler may reuse the checked values or reload     *)
(* either one.                                                             *)
(***************************************************************************)

\* Line 329: nothing to read, or the user's buffer is too short: return 0.
ReadCheck(r) ==
  /\ rpc[r] = "idle"
  /\ \E c \in ReadCounts :
       /\ rcount' = [rcount EXCEPT ![r] = c]
       /\ IF procBuf = NULL \/ c < procSize
            THEN UNCHANGED <<rpc, rptr, rsize>>
            ELSE /\ rpc' = [rpc EXCEPT ![r] = "checked"]
                 /\ rptr' = [rptr EXCEPT ![r] = procBuf]
                 /\ rsize' = [rsize EXCEPT ![r] = procSize]
  /\ UNCHANGED <<heap, bsize, bresp, procBuf, procSize, mutex, writes,
                 writerVars, last, lastOk>>

\* Line 335: copy_to_user(buffer, proc_buffer, proc_buffer_size) begins.
ReadCopy(r) ==
  /\ rpc[r] = "checked"
  /\ \E p \in {rptr[r], procBuf}, s \in {rsize[r], procSize} :
       /\ rptr' = [rptr EXCEPT ![r] = p]
       /\ rsize' = [rsize EXCEPT ![r] = s]
  /\ rpc' = [rpc EXCEPT ![r] = "copy"]
  /\ UNCHANGED <<heap, bsize, bresp, procBuf, procSize, mutex, writes,
                 writerVars, last, lastOk, rcount>>

\* Lines 336-341: the copy ends and the read returns.
ReadDone(r) ==
  /\ rpc[r] = "copy"
  /\ rpc' = [rpc EXCEPT ![r] = "idle"]
  /\ UNCHANGED <<heap, bsize, bresp, procBuf, procSize, mutex, writes,
                 writerVars, last, lastOk, rcount, rptr, rsize>>

Next ==
  \/ \E w \in Writers :
       \/ WriteBegin(w) \/ Lock(w) \/ FreeResponse(w) \/ ClearResponse(w)
       \/ Fetch(w) \/ Handle(w) \/ SetSize(w) \/ Unlock(w)
  \/ \E r \in Readers : ReadCheck(r) \/ ReadCopy(r) \/ ReadDone(r)

Spec == Init /\ [][Next]_vars

(***************************************************************************)
(* Properties.                                                             *)
(***************************************************************************)

TypeOK ==
  /\ heap \in [Blocks -> {"unalloc", "live", "freed"}]
  /\ bsize \in [Blocks -> Nat]
  /\ bresp \in [Blocks -> 0..MaxWrites]
  /\ procBuf \in {NULL} \cup Blocks
  /\ procSize \in Nat
  /\ mutex \in Writers \cup {NoOwner}
  /\ writes \in 0..MaxWrites
  /\ wpc \in [Writers -> {"idle", "lock", "free", "clear", "fetch", "handle",
                          "size", "unlock"}]
  /\ msg \in [Writers -> {NULL} \cup Blocks]
  /\ rpc \in [Readers -> {"idle", "checked", "copy"}]

\* Where a writer is while it holds dpf_mutex (lines 356-409).
Holding == {"free", "clear", "fetch", "handle", "size", "unlock"}

\* dpf_mutex is owned by exactly the writer between its mutex_lock (line
\* 354) and its return: every early return (lines 363, 369, 375) and the
\* normal end (line 407) unlock, and no write returns holding it, which
\* would block every later write.
MutexInv == \A w \in Writers : wpc[w] \in Holding <=> mutex = w

\* Whenever no write holds dpf_mutex, proc_buffer is exactly the outcome of
\* the write that last held it: that write's response, complete with its
\* size, if it succeeded; nothing if it failed; the initial empty buffer if
\* no write has reached the mutex.
ResponseOfLastWrite ==
  mutex = NoOwner =>
    IF last.id = 0 THEN procBuf = 1 /\ procSize = 0
    ELSE IF last.ok
         THEN /\ procBuf # NULL
              /\ heap[procBuf] = "live"
              /\ bresp[procBuf] = last.id
              /\ procSize = bsize[procBuf]
         ELSE procBuf = NULL /\ procSize = 0

\* No block leaks: once dpf_proc_write has released the mutex, the only
\* live block is the published response (msg_data and every replaced
\* response were freed on every path).
NoLeak ==
  mutex = NoOwner => \A b \in Blocks : heap[b] = "live" => b = procBuf

\* The spec: the file yields the response of the last successfully
\* processed request, whatever requests failed after it.
LastSuccessKept ==
  (mutex = NoOwner /\ lastOk # 0) =>
    procBuf # NULL /\ bresp[procBuf] = lastOk

\* proc_read copies only from a live buffer, no more bytes than that buffer
\* holds and no more than the caller's buffer takes (a copy of no bytes
\* touches neither).
ReaderSafe ==
  \A r \in Readers : (rpc[r] = "copy" /\ rsize[r] > 0) =>
    /\ rptr[r] # NULL
    /\ heap[rptr[r]] = "live"
    /\ rsize[r] <= bsize[rptr[r]]
    /\ rsize[r] <= rcount[r]

=============================================================================
