--------------------------- MODULE HarnessServerMgr -------------------------
(***************************************************************************)
(* The server-side manager: src/ps/test_harness_mgr_server.cpp.            *)
(*                                                                         *)
(* One session thread executes the client's requests one at a time.  It    *)
(* spawns a PL thread for each transaction it admits; the PL threads wait  *)
(* for their transaction to reach the front of a deque, drive the device   *)
(* through FastXM, and are joined when the client asks for the results.    *)
(* The client is the environment here: any request may arrive whenever     *)
(* the session thread is idle, and the connection may break whenever it    *)
(* is receiving or sending.  HarnessPipeline puts the real client there.   *)
(***************************************************************************)
EXTENDS FastXM, FiniteSets, FiniteSetsExt

CONSTANTS
  MemUse,               (* bytes of buffers each transaction carries       *)
  Declared,             (* sizes a client may announce for a transaction   *)
  TimeOuts,             (* time limits (ms) a client may send, 0 is none   *)
  MemorySizeMax,        (* memorySizeMax                                   *)
  NoTrans               (* no transaction                                  *)

ASSUME MemUseAssumption == MemUse \in [Trans -> Nat]
ASSUME DeclaredAssumption == Declared \subseteq Nat
ASSUME TimeOutsAssumption == TimeOuts \subseteq Nat
ASSUME MemorySizeMaxAssumption == MemorySizeMax \in Nat
ASSUME NoTransAssumption == NoTrans \notin Trans

VARIABLES
  transactions,         (* the deque of transactions                       *)
  ids,                  (* keys of id2trans; never erased                  *)
  freed,                (* transactions that were deleted                  *)
  status,               (* test_harness_transactions::status               *)
  timeOut,              (* test_harness_transactions::mTimeOut             *)
  memorySize,           (* memorySize                                      *)
  plMtx,                (* owner of pl_mtx                                 *)
  pc,                   (* where the PL thread of a transaction is         *)
  session,              (* what the session thread is doing                *)
  incoming,             (* the transaction the session thread receives     *)
  announced,            (* the size announced for it                       *)
  delivered             (* history: the results sent, in order             *)

mgrVars == <<transactions, ids, freed, status, timeOut, memorySize>>
sessionVars == <<session, incoming, announced, delivered>>
vars == <<fastVars, mgrVars, plMtx, pc, sessionVars>>

Statuses == {"CREATED", "READY", "RUNNING", "TIMEOUT", "DONE"}

(* Lines of runPL; none is a thread not spawned, joined one that pl_threads *)
(* no longer holds.                                                        *)
Waiting == {"queued", "locking"}
Driving == {"start", "poll", "slice", "fetch", "markDone", "limit", "fetchLast"}
PCs == {"none", "exited", "joined"} \cup Waiting \cup Driving

(* In the destructor: over fastObj.reset() and the deletions, and past     *)
(* transactions.clear().                                                   *)
Destructor == {"deleting", "cleared"}

SessionStates ==
  {"idle", "receiving", "filling", "joining", "failed", "closed", "terminated"}
    \cup Destructor

(* The keys of the map pl_threads.                                         *)
pl_threads == {t \in Trans : pc[t] \notin {"none", "joined"}}

Results == [trans : Trans, status : Statuses, data : BufferContents]

TypeOK ==
  /\ FastTypeOK
  /\ transactions \in Seq(Trans)
  /\ ids \subseteq Trans
  /\ freed \subseteq Trans
  /\ status \in [Trans -> Statuses]
  /\ timeOut \in [Trans -> Nat]
  /\ memorySize \in Int
  /\ plMtx \in Trans \cup {NoTrans}
  /\ pc \in [Trans -> PCs]
  /\ session \in SessionStates
  /\ incoming \in Trans \cup {NoTrans}
  /\ announced \in Nat
  /\ delivered \in Seq(Results)

Init ==
  /\ FastInit
  /\ transactions = << >>
  /\ ids = {}
  /\ freed = {}
  /\ status = [t \in Trans |-> "CREATED"]
  /\ timeOut = [t \in Trans |-> 0]
  /\ memorySize = 0
  /\ plMtx = NoTrans
  /\ pc = [t \in Trans |-> "none"]
  /\ session = "idle"
  /\ incoming = NoTrans
  /\ announced = 0
  /\ delivered = << >>

-----------------------------------------------------------------------------
(* The session thread.                                                     *)

(* An exception leaves the request loop; the manager stays as it is until  *)
(* the session object is destroyed.                                        *)
Throw ==
  /\ session' = "failed"
  /\ UNCHANGED <<incoming, announced, delivered>>

(* runTestHarness up to its first answer: room for the announced size or   *)
(* an immediate refusal.                                                   *)
RefuseRun(size) ==
  /\ session = "idle"
  /\ memorySize + size > MemorySizeMax
  /\ UNCHANGED vars

AdmitRun(size) ==
  /\ session = "idle"
  /\ memorySize + size <= MemorySizeMax
  /\ session' = "receiving"
  /\ announced' = size
  /\ UNCHANGED <<fastVars, mgrVars, plMtx, pc, incoming, delivered>>

(* An unknown mode or an identifier already in id2trans.                   *)
RejectTransaction(t, validMode) ==
  /\ session = "receiving"
  /\ ~validMode \/ t \in ids
  /\ Throw
  /\ UNCHANGED <<fastVars, mgrVars, plMtx, pc>>

(* The transaction object enters the deque and the map before its data     *)
(* has arrived.                                                            *)
CreateTransaction(t) ==
  /\ session = "receiving"
  /\ t \notin ids
  /\ session' = "filling"
  /\ incoming' = t
  /\ transactions' = Append(transactions, t)
  /\ ids' = ids \cup {t}
  /\ status' = [status EXCEPT ![t] = "CREATED"]
  /\ timeOut' = [timeOut EXCEPT ![t] = 0]
  /\ UNCHANGED <<fastVars, freed, memorySize, plMtx, pc, announced, delivered>>

(* All vectors received: the size must be the one announced; then it is    *)
(* accounted for and the PL thread spawned.                                *)
SpawnPL ==
  /\ session = "filling"
  /\ status' = [status EXCEPT ![incoming] = "READY"]
  /\ IF MemUse[incoming] # announced
     THEN /\ Throw
          /\ UNCHANGED <<memorySize, pc>>
     ELSE /\ memorySize' = memorySize + MemUse[incoming]
          /\ pc' = [pc EXCEPT ![incoming] = "queued"]
          /\ session' = "idle"
          /\ incoming' = NoTrans
          /\ announced' = 0
          /\ UNCHANGED delivered
  /\ UNCHANGED <<fastVars, transactions, ids, freed, timeOut, plMtx>>

(* queryTransactionStatus changes nothing; an unknown identifier throws.   *)
QueryTransactionStatus(t) ==
  /\ session = "idle"
  /\ t \notin ids
  /\ Throw
  /\ UNCHANGED <<fastVars, mgrVars, plMtx, pc>>

(* waitForTestHarness up to the join: three checks, then the time limit is *)
(* handed to the PL thread.                                                *)
WaitRefused(t) ==
  \/ pl_threads = {}
  \/ Head(transactions) \notin pl_threads
  \/ Cardinality(pl_threads) # Len(transactions)
  \/ t # Head(transactions)

WaitForTestHarnessRequest(t, ms) ==
  /\ session = "idle"
  /\ IF WaitRefused(t)
     THEN /\ Throw
          /\ UNCHANGED timeOut
     ELSE /\ timeOut' = [timeOut EXCEPT ![t] = ms]
          /\ session' = "joining"
          /\ UNCHANGED <<incoming, announced, delivered>>
  /\ UNCHANGED <<fastVars, transactions, ids, freed, status, memorySize,
                 plMtx, pc>>

(* The rest of waitForTestHarness for the front transaction t, once its    *)
(* thread is at one of the places in after: send status, output and        *)
(* performance data, leave the thread as erased says, pop the deque, give  *)
(* back release bytes and delete the object.                               *)
Deliver(t, after, erased, release) ==
  /\ session = "joining"
  /\ pc[t] \in after
  /\ delivered' = Append(delivered, [trans |-> t, status |-> status[t],
                                     data |-> hostBuf[t]])
  /\ pc' = [pc EXCEPT ![t] = erased]
  /\ transactions' = Tail(transactions)
  /\ memorySize' = memorySize - release
  /\ freed' = freed \cup {t}
  /\ session' = "idle"
  /\ UNCHANGED <<fastVars, ids, status, timeOut, plMtx, incoming, announced>>

(* Variants: no join, memory not given back, thread not erased.            *)
DeliverResult_NoJoin ==
  LET t == Head(transactions) IN Deliver(t, PCs, pc[t], MemUse[t])
DeliverResult_NoRelease ==
  LET t == Head(transactions) IN Deliver(t, {"exited"}, "joined", 0)
DeliverResult_NoErase ==
  LET t == Head(transactions) IN Deliver(t, {"exited"}, "exited", MemUse[t])

(* The join returns when the thread has left runPL; the thread is erased.  *)
DeliverResult ==
  LET t == Head(transactions) IN Deliver(t, {"exited"}, "joined", MemUse[t])

(* The connection breaks while the session thread receives a request, its  *)
(* data, or sends results.                                                 *)
SocketFailure ==
  /\ \/ session \in {"idle", "receiving", "filling"}
     \/ /\ session = "joining"
        /\ pc[Head(transactions)] = "exited"
  /\ Throw
  /\ UNCHANGED <<fastVars, mgrVars, plMtx, pc>>

(* The destructor, reached by a "destroy" request or after an exception.   *)
(* It joins nobody: PL threads go on while it takes fastObj, the           *)
(* transactions and the deque away.  First fastObj.reset().                *)
DestroyMgr ==
  /\ session \in {"idle", "failed"}
  /\ ResetTestHarness
  /\ session' = "deleting"
  /\ UNCHANGED <<mgrVars, plMtx, pc, incoming, announced, delivered>>

(* delete trans, from the front to the back.                               *)
DeleteQueued ==
  /\ session = "deleting"
  /\ \E i \in DOMAIN transactions :
       /\ transactions[i] \notin freed
       /\ \A j \in 1 .. i - 1 : transactions[j] \in freed
       /\ freed' = freed \cup {transactions[i]}
  /\ UNCHANGED <<fastVars, transactions, ids, status, timeOut, memorySize, plMtx,
                 pc, sessionVars>>

(* transactions.clear(); what becomes of the received files is left out.   *)
ClearDeque ==
  /\ session = "deleting"
  /\ Range(transactions) \subseteq freed
  /\ transactions' = << >>
  /\ session' = "cleared"
  /\ UNCHANGED <<fastVars, ids, freed, status, timeOut, memorySize, plMtx, pc,
                 incoming, announced, delivered>>

(* The members go: a PL thread still in pl_threads is a joinable           *)
(* std::thread being destroyed, which terminates the process.              *)
DestroyThreads ==
  /\ session = "cleared"
  /\ session' = IF pl_threads = {} THEN "closed" ELSE "terminated"
  /\ UNCHANGED <<fastVars, mgrVars, plMtx, pc, incoming, announced, delivered>>

DestructorStep == DeleteQueued \/ ClearDeque \/ DestroyThreads

-----------------------------------------------------------------------------
(* The PL thread of transaction t: runPL.                                  *)

(* When the destructor has returned no PL thread is running: either there  *)
(* was none or the process is gone.                                        *)
ProcessUp == session \notin {"closed", "terminated"}

(* The manager is whole until its destructor begins.                       *)
MgrUp == session \notin {"closed", "terminated"} \cup Destructor

(* What the line a thread is at touches is still there: the front of the   *)
(* deque, the transaction, fastObj.                                        *)
Intact(t) ==
  /\ pc[t] = "queued" => session # "cleared"
  /\ pc[t] \in {"start", "poll", "markDone", "limit"} => t \notin freed
  /\ pc[t] \in {"start", "slice", "fetch", "limit", "fetchLast"} => MgrUp

Go(t, from, to) ==
  /\ ProcessUp
  /\ Intact(t)
  /\ pc[t] = from
  /\ pc' = [pc EXCEPT ![t] = to]
  /\ UNCHANGED <<sessionVars, transactions, ids, freed, timeOut, memorySize>>

(* Variant: no spin on the front of the deque.                             *)
ReachFront_NoSpin(t) ==
  /\ Go(t, "queued", "locking")
  /\ UNCHANGED <<fastVars, status, plMtx>>

(* The spin on transactions.front(), polled every 10 ms.                   *)
ReachFront(t) ==
  /\ Go(t, "queued", "locking")
  /\ Head(transactions) = t
  /\ UNCHANGED <<fastVars, status, plMtx>>

LockPL(t) ==
  /\ Go(t, "locking", "start")
  /\ plMtx = NoTrans
  /\ plMtx' = t
  /\ UNCHANGED <<fastVars, status>>

StartPL(t) ==
  /\ Go(t, "start", "poll")
  /\ RunPL(t)
  /\ status' = [status EXCEPT ![t] = "RUNNING"]
  /\ UNCHANGED plMtx

(* while(getTimeOut() == 0): wait in slices of mMonitorTimeout.            *)
NextSlice(t) ==
  /\ timeOut[t] = 0
  /\ Go(t, "poll", "slice")
  /\ UNCHANGED <<fastVars, status, plMtx>>

(* Variant: a slice that times out is taken for the time limit.            *)
SliceEnds_NoLoop(t) ==
  /\ Go(t, "slice", IF WaitForTestHarness THEN "fetch" ELSE "limit")
  /\ UNCHANGED <<fastVars, status, plMtx>>

SliceEnds(t) ==
  /\ Go(t, "slice", IF WaitForTestHarness THEN "fetch" ELSE "poll")
  /\ UNCHANGED <<fastVars, status, plMtx>>

FetchAfterSlice(t) ==
  /\ Go(t, "fetch", "markDone")
  /\ FetchRes
  /\ UNCHANGED <<status, plMtx>>

(* Variant: the early return leaves the mutex locked.                      *)
MarkDone_KeepsLock(t) ==
  /\ Go(t, "markDone", "exited")
  /\ status' = [status EXCEPT ![t] = "DONE"]
  /\ UNCHANGED <<fastVars, plMtx>>

MarkDone(t) ==
  /\ Go(t, "markDone", "exited")
  /\ status' = [status EXCEPT ![t] = "DONE"]
  /\ plMtx' = NoTrans
  /\ UNCHANGED fastVars

(* A time limit has been set: one last wait, whose outcome is the status.  *)
LastWait(t) ==
  /\ timeOut[t] # 0
  /\ Go(t, "poll", "limit")
  /\ UNCHANGED <<fastVars, status, plMtx>>

LimitEnds(t) ==
  /\ Go(t, "limit", "fetchLast")
  /\ status' = [status EXCEPT ![t] = IF WaitForTestHarness THEN "DONE"
                                     ELSE "TIMEOUT"]
  /\ UNCHANGED <<fastVars, plMtx>>

(* Variants: results not fetched after the last wait; mutex left locked.   *)
FetchAfterLimit_NoFetch(t) ==
  /\ Go(t, "fetchLast", "exited")
  /\ plMtx' = NoTrans
  /\ UNCHANGED <<fastVars, status>>

FetchAfterLimit_KeepsLock(t) ==
  /\ Go(t, "fetchLast", "exited")
  /\ FetchRes
  /\ UNCHANGED <<status, plMtx>>

FetchAfterLimit(t) ==
  /\ Go(t, "fetchLast", "exited")
  /\ FetchRes
  /\ plMtx' = NoTrans
  /\ UNCHANGED status

(* The lines of runPL that may come after one another.                     *)
Follows(from, to) ==
  \/ from = "queued" /\ to = "locking"
  \/ from = "start" /\ to = "poll"
  \/ from = "poll" /\ to \in {"slice", "limit"}
  \/ from = "slice" /\ to \in {"fetch", "poll"}
  \/ from = "fetch" /\ to = "markDone"
  \/ from = "limit" /\ to = "fetchLast"
  \/ from \in {"markDone", "fetchLast"} /\ to = "exited"

(* A line that uses what the destructor has taken away is undefined: the   *)
(* process crashes, or the thread goes on somehow.                         *)
Stray(t) ==
  /\ ProcessUp
  /\ ~Intact(t)
  /\ \/ /\ session' = "terminated"
        /\ UNCHANGED <<pc, plMtx>>
     \/ /\ \E to \in PCs : Follows(pc[t], to) /\ pc' = [pc EXCEPT ![t] = to]
        /\ plMtx' = IF pc'[t] = "exited" THEN NoTrans ELSE plMtx
        /\ UNCHANGED session
  /\ UNCHANGED <<fastVars, mgrVars, incoming, announced, delivered>>

PLThread(t) ==
  \/ ReachFront(t) \/ LockPL(t) \/ StartPL(t)
  \/ NextSlice(t) \/ SliceEnds(t) \/ FetchAfterSlice(t) \/ MarkDone(t)
  \/ LastWait(t) \/ LimitEnds(t) \/ FetchAfterLimit(t) \/ Stray(t)

Device ==
  /\ ProcessUp
  /\ KernelComplete
  /\ UNCHANGED <<mgrVars, plMtx, pc, sessionVars>>
-----------------------------------------------------------------------------
RunTestHarness ==
  \/ \E size \in Declared : RefuseRun(size) \/ AdmitRun(size)
  \/ \E t \in Trans : CreateTransaction(t)
  \/ \E t \in Trans, validMode \in BOOLEAN : RejectTransaction(t, validMode)
  \/ SpawnPL

WaitForTestHarnessHandler ==
  \/ \E t \in Trans, ms \in TimeOuts : WaitForTestHarnessRequest(t, ms)
  \/ DeliverResult

Query == \E t \in Trans : QueryTransactionStatus(t)

PLThreads == \E t \in Trans : PLThread(t)

Next ==
  \/ RunTestHarness
  \/ WaitForTestHarnessHandler
  \/ Query
  \/ SocketFailure
  \/ DestroyMgr \/ DestructorStep
  \/ PLThreads
  \/ Device

Spec == Init /\ [][Next]_vars

(* The operating system schedules the PL threads and the joining session   *)
(* thread; a timed wait always returns.  Nothing makes a client send, and  *)
(* nothing makes the device complete.                                      *)
SchedulerFairness ==
  /\ \A t \in Trans : WF_vars(PLThread(t))
  /\ WF_vars(DeliverResult)

FairSpec == Spec /\ SchedulerFairness

(* The same when the AIE graph keeps up, so that every run completes.      *)
ResponsiveSpec == FairSpec /\ WF_vars(Device)
-----------------------------------------------------------------------------
(* Properties.                                                             *)

(* The device belongs to one PL thread at a time, the one of the oldest    *)
(* transaction, which also holds pl_mtx: the spin on transactions.front(), *)
(* the lock and the pop after the join keep the others out, for as long as *)
(* there is a manager.                                                     *)
DriverIsFront ==
  MgrUp =>
    \A t \in Trans : pc[t] \in Driving =>
      transactions # << >> /\ t = Head(transactions) /\ plMtx = t

(* fetchRes writes through the remembered pointers of every run since the  *)
(* last fetch: they are only ever those of the transaction being driven,   *)
(* never those of a transaction that was deleted, also in the destructor,  *)
(* where fastObj goes before the transactions.                             *)
FetchWritesOwnBuffers ==
  \A b \in Range(bos) : pc[b] \in Driving /\ b \notin freed

(* A PL thread dereferences its transaction up to its last line.           *)
(* waitForTestHarness deletes a transaction only after the join, so that   *)
(* no thread outlives its own there.  The destructor (mgr_server.cpp:297)  *)
(* deletes what is queued without a join: it is the one place where a      *)
(* thread may be left without its transaction, and then it never closes    *)
(* the session in an orderly way.                                          *)
NoUseAfterDelete ==
  \A t \in Trans :
    pc[t] \in Waiting \cup Driving /\ t \in freed =>
      session \in Destructor \cup {"terminated"}

(* memorySize is the memory of the transactions that have a PL thread, so  *)
(* it never wraps below zero and returns to zero when all are answered.    *)
MemoryAccounting ==
  MgrUp => memorySize = MapThenSumSet(LAMBDA t : MemUse[t], pl_threads)

(* The room checked when a request is admitted is still there when its     *)
(* data has arrived and is accounted for.                                  *)
MemoryBounded == memorySize <= MemorySizeMax

(* Whenever a request can be served, transactions and pl_threads agree, so *)
(* the "thread of the current transaction is missing" error is unreachable.*)
ThreadPerTransaction ==
  session \in {"idle", "receiving", "joining"} =>
    /\ Range(transactions) = pl_threads
    /\ Len(transactions) = Cardinality(pl_threads)

(* Only a time limit lets the PL thread leave its polling loop without a   *)
(* result: assert(getTimeOut() != 0), and TIMEOUT is only ever the answer  *)
(* to a wait that set a limit.                                             *)
TimeOutNeedsLimit ==
  MgrUp => \A t \in Trans :
    (pc[t] \in {"limit", "fetchLast"} \/ status[t] = "TIMEOUT") => timeOut[t] # 0

(* A wait with a time limit is answered whatever the device does.          *)
LimitedWaitReturns ==
  \A t \in Trans :
    (session = "joining" /\ t = Head(transactions) /\ timeOut[t] # 0)
      ~> session # "joining"

(* A wait without a limit is answered if the device completes its runs.    *)
UnlimitedWaitReturns ==
  WF_vars(Device) => (session = "joining" ~> session # "joining")

(* The server implements the queue its clients rely on; its destructor     *)
(* gives up what is still in it.                                           *)
StageOf(t) ==
  IF t \notin ids THEN "new"
  ELSE IF ~MgrUp THEN "dropped"
  ELSE IF pc[t] \in {"none", "start"} \cup Waiting THEN "queued"
  ELSE IF pc[t] \in Driving THEN "running"
  ELSE "ended"

Queue == INSTANCE TransactionQueue WITH
           Jobs <- Trans,
           queue <- IF MgrUp THEN transactions ELSE << >>,
           stage <- [t \in Trans |-> StageOf(t)],
           answers <- delivered

ImplementsQueue == Queue!QueueSpec
=============================================================================
