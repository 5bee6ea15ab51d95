------------------------ MODULE HarnessPipeline_proofs ----------------------
(***************************************************************************)
(* Proofs about the client manager composed with the server manager, for   *)
(* any number of transactions, sizes, limits and watchdog intervals.       *)
(*                                                                         *)
(* The invariants come in layers, each on top of those before it: the      *)
(* server's own (IInv, AccountInv, ResultInv and OrderlyInv), the types,   *)
(* who waits for which answer (ExchangeInv), how far each transaction is   *)
(* on both sides (ProgressInv), what the client has stored (StoreInv), and *)
(* the memory and interval the client relies on (RoomInv, IntervalInv).    *)
(***************************************************************************)
EXTENDS HarnessPipeline, HarnessServerMgr_proofs

USE DEF Destructor

-----------------------------------------------------------------------------
(* The server, once more.                                                  *)

(* A transaction whose end can be seen, or whose thread has ended, is at   *)
(* the front, and none is lost between the deque and its deletion.         *)
OrderlyInv ==
  MgrUp =>
    /\ \A t \in Trans : pc[t] = "exited" => t = Head(transactions)
    /\ \A t \in Range(transactions) :
         status[t] \in {"DONE", "TIMEOUT"} => t = Head(transactions)
    /\ ids \subseteq Range(transactions) \cup freed

ServerInv == IInv /\ AccountInv /\ ResultInv /\ OrderlyInv
-----------------------------------------------------------------------------
(* Types, and the locals of the call in progress.                          *)

CallInv ==
  /\ PipeTypeOK
  /\ trans_id \in 0 .. Cardinality(Trans)
  /\ user \in {"run", "accept"} => trans_id \in Trans
  /\ user = "join" => pending # << >>
  /\ user = "closed" => pending = << >>

-----------------------------------------------------------------------------
(* Exchanges: a request that asks is the last one on its way, whoever sent *)
(* it holds req_mtx and waits at the place where its answer is read.       *)

Asking == {"runTestHarness", "queryTransactionStatus", "waitForTestHarness",
           "getTimeOut", "waitForGraph"}

AskedBy(r) ==
  /\ r.op = "runTestHarness" =>
       reqMtx = User /\ user = "accept" /\ r.arg = MemUse[trans_id]
  /\ r.op = "queryTransactionStatus" =>
       r.trans \in Trans /\ reqMtx = r.trans /\ waiter[r.trans] = "answer"
  /\ r.op = "waitForTestHarness" =>
       r.trans \in Trans /\ reqMtx = r.trans /\ waiter[r.trans] = "status"
  /\ r.op = "getTimeOut" => reqMtx = User /\ user = "gotTimeOut"
  /\ r.op = "waitForGraph" => reqMtx = User /\ user = "gotGraph"

RequestsInv ==
  \A i \in DOMAIN requests :
    LET r == requests[i] IN
    /\ r.op \in Asking =>
         /\ i = Len(requests) /\ replies = << >> /\ session # "joining"
         /\ AskedBy(r)
    /\ r.op = "data" =>
         /\ i = 1 /\ session = "receiving"
         /\ r.trans \in Trans /\ MemUse[r.trans] = announced
    /\ r.op = "destroy" =>
         i = Len(requests) /\ MgrUp /\ user \in {"closed", "terminated"}

AnsweredTo(r) ==
  /\ r.op = "runTestHarness" =>
       /\ reqMtx = User /\ user = "accept"
       /\ r.accepted => session = "receiving" /\ announced = MemUse[trans_id]
  /\ r.op = "queryTransactionStatus" =>
       reqMtx = r.trans /\ waiter[r.trans] = "answer"
  /\ r.op = "waitForTestHarness" =>
       /\ reqMtx = r.results.trans
       /\ waiter[r.results.trans] \in {"status", "data"}
  /\ r.op = "getTimeOut" => reqMtx = User /\ user = "gotTimeOut"
  /\ r.op = "waitForGraph" => reqMtx = User /\ user = "gotGraph"

RepliesInv ==
  replies # << >> =>
    /\ Len(replies) = 1 /\ requests = << >> /\ session # "joining"
    /\ AnsweredTo(Head(replies))

(* The owner of req_mtx and where it is; what the server does meanwhile.   *)
OwnerInv ==
  /\ \A t \in Trans : waiter[t] \in {"answer", "status", "data"} <=> reqMtx = t
  /\ user \in {"accept", "gotTimeOut", "gotGraph"} <=> reqMtx = User
  /\ session = "joining" =>
       /\ transactions # << >>
       /\ reqMtx = Head(transactions) /\ waiter[Head(transactions)] = "status"
       /\ requests = << >> /\ replies = << >>
  /\ session = "receiving" =>
       \/ replies # << >> /\ Answer.op = "runTestHarness" /\ Answer.accepted
       \/ requests # << >> /\ Head(requests).op = "data"
  /\ session = "filling" => MemUse[incoming] = announced
  /\ ~MgrUp => user \in {"closed", "terminated"} /\ requests = << >>
  /\ user \in {"closed", "terminated"} => reqMtx = NoTrans

ExchangeInv == RequestsInv /\ RepliesInv /\ OwnerInv

-----------------------------------------------------------------------------
(* Progress: identifiers grow, the server knows what was submitted, and a  *)
(* waiter asks for results only when its transaction is the oldest.        *)

Increasing(s) == \A i, j \in DOMAIN s : i < j => s[i] < s[j]

InTransit(t) == \E i \in DOMAIN requests :
                  requests[i].op = "data" /\ requests[i].trans = t

Submitted(t) == waiter[t] # "none"

KnownInv ==
  /\ \A t \in Trans : Submitted(t) => t <= trans_id
  /\ user \in {"run", "accept"} => ~Submitted(trans_id)
  /\ \A t \in Range(pending) : t \in Trans /\ Submitted(t)
  /\ \A t \in Trans : Submitted(t) /\ t \notin Range(pending) => waiter[t] = "exited"
  /\ \A t \in ids : Submitted(t)
  /\ \A t \in Trans : Submitted(t) => t \in ids \/ InTransit(t)
  /\ \A t \in Trans : InTransit(t) => Submitted(t) /\ \A u \in ids : u < t
  /\ Increasing(pending)
  /\ Increasing(transactions)

First(t) == t \notin freed /\ \A u \in Range(transactions) : t <= u

TurnInv ==
  /\ \A t \in Trans :
       waiter[t] \in {"data", "outputs", "exited"} => t \in freed
  /\ MgrUp =>
       /\ \A t \in freed : waiter[t] \in {"status", "data", "outputs", "exited"}
       /\ \A t \in Trans : waiter[t] = "wait" => First(t)
       /\ \A i \in DOMAIN requests :
            requests[i].op = "waitForTestHarness" => First(requests[i].trans)
       /\ replies # << >> /\ Answer.op = "queryTransactionStatus" =>
            (Answer.status \in {"DONE", "TIMEOUT"} => First(Answer.trans))
  /\ \A t \in Trans : clientLimit[t] # 0 =>
       waiter[t] = "exited" \/ (pending # << >> /\ t = Head(pending))

ProgressInv == KnownInv /\ TurnInv /\ NoServerFault /\ CleanClose

-----------------------------------------------------------------------------
(* What the client has seen and stored of a run.                           *)

EndSeen(t) ==
  /\ status[t] \in {"DONE", "TIMEOUT"}
  /\ hostBuf[t] \in {"partial", "complete"}
  /\ status[t] = "DONE" => hostBuf[t] = "complete"

StoreInv ==
  /\ \A t \in Trans :
       /\ ~Submitted(t) => clientStatus[t] \in {"CREATED", "READY"}
       /\ waiter[t] \in {"lockQuery", "check", "query", "answer", "wait", "status"} =>
            clientStatus[t] = "RUNNING"
       /\ waiter[t] \in {"data", "outputs", "exited"} =>
            EndSeen(t) /\ clientStatus[t] = status[t]
       /\ waiter[t] \in {"outputs", "exited"} => clientData[t] = hostBuf[t]
       /\ output[t] = IF waiter[t] = "exited" THEN hostBuf[t] ELSE "initial"
  /\ replies # << >> /\ Answer.op = "waitForTestHarness" =>
       LET t == Answer.results.trans IN
       /\ t \in freed /\ EndSeen(t)
       /\ Answer.results.status = status[t] /\ Answer.results.data = hostBuf[t]

-----------------------------------------------------------------------------
(* The room the client counted on, and the interval it has to restore.     *)

Unfinished == {t \in Range(pending) : waiter[t] # "exited"}

RoomInv ==
  /\ user \in {"run", "accept"} /\ ~call.warned =>
       \A S \in SUBSET Trans :
         S = Unfinished => MemUse[trans_id] + Total(S) <= MemorySizeMax
  /\ replies # << >> /\ Answer.op = "runTestHarness" /\ ~Answer.accepted =>
       call.warned
  /\ RefusedOnlyIfWarned

(* Once everything sent has been read, the interval will be v.             *)
IsSet(i) == i \in DOMAIN requests /\ requests[i].op = "setTimeOut"

SettlesAt(v) ==
  /\ \A i \in DOMAIN requests :
       (IsSet(i) /\ \A j \in DOMAIN requests : IsSet(j) => j <= i)
         => requests[i].arg = v
  /\ (\A i \in DOMAIN requests : ~IsSet(i)) => interval = v

IntervalInv ==
  /\ user \in {"idle", "run", "accept", "getTimeOut", "gotTimeOut"} =>
       SettlesAt(WatchdogInterval)
  /\ user = "extend" => WatchdogInterval # 0
  /\ user \in {"extend", "loop", "join", "graph", "gotGraph", "restore"} =>
       /\ call.server_timeout = WatchdogInterval
       /\ WatchdogInterval = 0 => SettlesAt(WatchdogInterval)
  /\ replies # << >> /\ Answer.op = "getTimeOut" =>
       Answer.seconds = WatchdogInterval

PipeInv ==
  /\ ServerInv /\ CallInv /\ ExchangeInv /\ ProgressInv
  /\ StoreInv /\ RoomInv /\ IntervalInv
-----------------------------------------------------------------------------
(* Facts about the connection and the constants.                           *)

LEMMA Numbers ==
  /\ Cardinality(Trans) \in Nat
  /\ Trans = 1 .. Cardinality(Trans)
  /\ Trans \subseteq Nat \ {0}
  /\ IsFiniteSet(Trans)
BY IdentifierAssumption, FS_CardinalityType

LEMMA PushFacts ==
  ASSUME NEW S, NEW s \in Seq(S), NEW x \in S
  PROVE  /\ Append(s, x) \in Seq(S)
         /\ Append(s, x) # << >>
         /\ Len(s) \in Nat /\ DOMAIN s = 1 .. Len(s)
         /\ Len(Append(s, x)) = Len(s) + 1
         /\ DOMAIN Append(s, x) = 1 .. Len(s) + 1
         /\ \A i \in DOMAIN Append(s, x) : i \in DOMAIN s \/ i = Len(s) + 1
         /\ \A i \in DOMAIN s : Append(s, x)[i] = s[i]
         /\ Append(s, x)[Len(s) + 1] = x
<1>1. Len(s) \in Nat /\ DOMAIN s = 1 .. Len(s)
  BY LenProperties
<1>2. \A i \in 1 .. Len(s) + 1 : i \in 1 .. Len(s) \/ i = Len(s) + 1
  BY <1>1
<1> QED BY <1>1, <1>2, AppendProperties, LenProperties

LEMMA PopFacts ==
  ASSUME NEW S, NEW s \in Seq(S), s # << >>
  PROVE  /\ Tail(s) \in Seq(S)
         /\ Head(s) \in S
         /\ Head(s) = s[1] /\ 1 \in DOMAIN s
         /\ Len(s) \in Nat \ {0} /\ DOMAIN s = 1 .. Len(s)
         /\ Len(Tail(s)) = Len(s) - 1
         /\ DOMAIN Tail(s) = 1 .. Len(s) - 1
         /\ \A i \in DOMAIN Tail(s) : i + 1 \in DOMAIN s /\ Tail(s)[i] = s[i + 1]
         /\ Len(s) = 1 => Tail(s) = << >>
<1>1. /\ Head(s) \in S
      /\ Tail(s) \in Seq(S)
      /\ Len(Tail(s)) = Len(s) - 1
      /\ \A i \in 1 .. Len(Tail(s)) : Tail(s)[i] = s[i + 1]
  BY HeadTailProperties
<1>2. Len(s) \in Nat \ {0} /\ DOMAIN s = 1 .. Len(s) /\ Head(s) = s[1]
  BY LenProperties, EmptySeq
<1>3. DOMAIN Tail(s) = 1 .. Len(s) - 1
  BY <1>1, LenProperties
<1>4. Len(s) = 1 => Tail(s) = << >>
  <2>1. ASSUME Len(s) = 1 PROVE Len(Tail(s)) = 0
    BY <1>1, <2>1
  <2> QED BY <1>1, <2>1, EmptySeq
<1> QED BY <1>1, <1>2, <1>3, <1>4

-----------------------------------------------------------------------------
(* The server serves this client as it would any other.                    *)

LEMMA OrderlyInit == Init => OrderlyInv
BY EmptyFacts DEF Init, OrderlyInv

LEMMA OrderlyStep ==
  ASSUME IInv, OrderlyInv, [AnyNext]_vars
  PROVE  OrderlyInv'
<1> USE DEF OrderlyInv, MgrUp
<1>gone. ASSUME NEW t \in Trans, PLThread(t), ~MgrUp
         PROVE  OrderlyInv'
  <2>1. session' \in Destructor \cup {"terminated"}
    BY <1>gone, WindowSteps
  <2> QED BY <2>1
<1>1. ASSUME NEW t \in Trans, PLThread(t), MgrUp
      PROVE  OrderlyInv'
  <2>1. /\ pc[t] \in Waiting \cup Driving
        /\ UNCHANGED <<transactions, ids, freed, session>>
        /\ \E to \in PCs : pc' = [pc EXCEPT ![t] = to]
        /\ (pc'[t] = "exited" \/ status' # status) => pc[t] \in Driving
        /\ status' = status \/ \E st \in Statuses : status' = [status EXCEPT ![t] = st]
    BY <1>1, NoneStray DEF PLThread, ReachFront, LockPL, StartPL, NextSlice, SliceEnds,
       FetchAfterSlice, MarkDone, LastWait, LimitEnds, FetchAfterLimit, Go, sessionVars,
       IInv, TypeOK, Waiting, Driving, PCs, Statuses
  <2>2. pc[t] \in Driving => t = Head(transactions)
    BY <1>1 DEF IInv, FrontInv
  <2>3. Range(transactions) \subseteq Trans
    BY RangeOfSeq DEF IInv, TypeOK
  <2> QED BY <2>1, <2>2, <2>3 DEF IInv, TypeOK
<1>2. ASSUME NEW t \in Trans, CreateTransaction(t)
      PROVE  OrderlyInv'
  <2>1. /\ MgrUp /\ t \notin Range(transactions) /\ t \notin ids
        /\ transactions \in Seq(Trans) /\ status \in [Trans -> Statuses]
        /\ ids' = ids \cup {t} /\ transactions' = Append(transactions, t)
        /\ status' = [status EXCEPT ![t] = "CREATED"]
        /\ UNCHANGED <<pc, freed>>
    BY <1>2 DEF CreateTransaction, IInv, DequeInv, TypeOK
  <2>2. /\ Range(transactions') = Range(transactions) \cup {t}
        /\ transactions # << >> => Head(transactions') = Head(transactions)
    BY <2>1, AppendFacts
  <2>3. \A u \in Range(transactions) : u \in Trans
    BY <2>1, RangeOfSeq
  <2>4. \A u \in Trans : pc[u] = "exited" => u \in Range(transactions)
    BY <2>1 DEF IInv, DequeInv, Alive
  <2>5. \A u \in Range(transactions) : Head(transactions') = Head(transactions)
    BY <2>2, EmptyFacts
  <2> QED BY <2>1, <2>2, <2>3, <2>4, <2>5
<1>3. CASE SpawnPL
  <2>1. /\ MgrUp /\ incoming \in Trans
        /\ UNCHANGED <<transactions, ids, freed>>
        /\ pc' = pc \/ pc' = [pc EXCEPT ![incoming] = "queued"]
        /\ status' = [status EXCEPT ![incoming] = "READY"]
    BY <1>3, RangeOfSeq DEF SpawnPL, IInv, RequestInv, TypeOK
  <2>2. Range(transactions) \subseteq Trans
    BY RangeOfSeq DEF IInv, TypeOK
  <2> QED BY <2>1, <2>2 DEF IInv, TypeOK
<1>4. CASE DeliverResult
  <2> DEFINE h == Head(transactions)
  <2>1. /\ MgrUp /\ transactions # << >> /\ h \in Trans
        /\ transactions' = Tail(transactions)
        /\ freed' = freed \cup {h} /\ pc' = [pc EXCEPT ![h] = "joined"]
        /\ UNCHANGED <<ids, status>>
        /\ transactions \in Seq(Trans) /\ IsInjective(transactions)
    BY <1>4, TailFacts DEF DeliverResult, Deliver, IInv, TypeOK, RequestInv, DequeInv
  <2>2. /\ Range(transactions) = {h} \cup Range(Tail(transactions))
        /\ h \notin Range(Tail(transactions))
    BY <2>1, TailFacts
  <2> HIDE DEF h
  <2>3. (\A t \in Trans : pc[t] = "exited" => t = h) /\
        (\A t \in Range(transactions) : status[t] \in {"DONE", "TIMEOUT"} => t = h)
    BY <2>1 DEF h
  <2> QED BY <2>1, <2>2, <2>3 DEF IInv, TypeOK
<1>5. ASSUME UNCHANGED <<transactions, ids, freed, status, pc>>, MgrUp' => MgrUp
      PROVE  OrderlyInv'
  BY <1>5
<1>6. ASSUME NEW size \in Nat, RefuseRun(size) \/ AdmitRun(size)
      PROVE  OrderlyInv'
  BY <1>5, <1>6 DEF RefuseRun, AdmitRun, vars, mgrVars, sessionVars
<1>7. ASSUME NEW t \in Trans, NEW validMode \in BOOLEAN, RejectTransaction(t, validMode)
      PROVE  OrderlyInv'
  BY <1>5, <1>7 DEF RejectTransaction, Throw, mgrVars
<1>8. ASSUME NEW t \in Trans, NEW ms \in Nat, WaitForTestHarnessRequest(t, ms)
      PROVE  OrderlyInv'
  BY <1>5, <1>8 DEF WaitForTestHarnessRequest, Throw
<1>9. CASE Query \/ SocketFailure \/ Device
  BY <1>5, <1>9 DEF Query, QueryTransactionStatus, SocketFailure, Device, Throw,
     mgrVars, sessionVars
<1>10. CASE DestroyMgr \/ DestructorStep
  <2>1. session' \in Destructor \cup {"closed", "terminated"}
    BY <1>10 DEF DestroyMgr, DestructorStep, DeleteQueued, ClearDeque, DestroyThreads,
                 sessionVars
  <2> QED BY <2>1
<1>11. CASE UNCHANGED vars
  BY <1>5, <1>11 DEF vars, mgrVars, sessionVars
<1> HIDE DEF OrderlyInv
<1> QED BY <1>gone, <1>1, <1>2, <1>3, <1>4, <1>6, <1>7, <1>8, <1>9, <1>10, <1>11
        DEF AnyNext, AnyRunTestHarness, AnyWaitForTestHarness, PLThreads

LEMMA ServerStep ==
  ASSUME ServerInv, [AnyNext]_vars
  PROVE  ServerInv'
BY StepInv, AccountStep, ResultStep, OrderlyStep DEF ServerInv

(* What was delivered stays as it was.                                     *)
LEMMA FreedStable ==
  ASSUME IInv, [AnyNext]_vars, NEW t \in freed
  PROVE  t \in freed' /\ status'[t] = status[t] /\ hostBuf'[t] = hostBuf[t]
<1>1. t \in Trans
  BY DEF IInv, TypeOK
<1>2. ASSUME NEW u \in Trans, PLThread(u)
      PROVE  t \in freed' /\ status'[t] = status[t] /\ hostBuf'[t] = hostBuf[t]
  <2>gone. CASE ~MgrUp
    <3>1. UNCHANGED <<freed, hostBuf>>
      BY <2>gone, WindowSteps, <1>2
    <3>2. u # t => status'[t] = status[t]
      BY <1>1, <1>2 DEF PLThread, ReachFront, LockPL, StartPL, NextSlice, SliceEnds,
         FetchAfterSlice, MarkDone, LastWait, LimitEnds, FetchAfterLimit, Stray, mgrVars,
         IInv, TypeOK
    <3>3. u = t => status' = status
      BY <2>gone, <1>2 DEF PLThread, ReachFront, LockPL, StartPL, NextSlice, SliceEnds,
         FetchAfterSlice, MarkDone, LastWait, LimitEnds, FetchAfterLimit, Stray, mgrVars,
         Go, Intact
    <3> QED BY <3>1, <3>2, <3>3
  <2> SUFFICES ASSUME MgrUp
               PROVE  t \in freed' /\ status'[t] = status[t] /\ hostBuf'[t] = hostBuf[t]
    BY <2>gone
  <2>1. /\ pc[u] \in Alive /\ freed' = freed
        /\ status' = status \/ \E st : status' = [status EXCEPT ![u] = st]
        /\ UNCHANGED hostBuf \/ FetchRes
    BY <1>2, NoneStray DEF PLThread, ReachFront, LockPL, StartPL, NextSlice, SliceEnds,
       FetchAfterSlice, MarkDone, LastWait, LimitEnds, FetchAfterLimit, Go, sessionVars,
       Alive, Waiting, Driving, fastVars, RunPL
  <2>2. u \in Range(transactions) /\ t \notin Range(transactions)
    BY <2>1 DEF IInv, DequeInv
  <2>3. t \notin Range(bos)
    BY <1>1, <2>1, <2>2 DEF IInv, BuffersInv, DequeInv, Alive
  <2> QED BY <1>1, <2>1, <2>2, <2>3 DEF FetchRes, IInv, TypeOK
<1>3. ASSUME NEW u \in Trans, CreateTransaction(u)
      PROVE  t \in freed' /\ status'[t] = status[t] /\ hostBuf'[t] = hostBuf[t]
  BY <1>1, <1>3 DEF CreateTransaction, fastVars, IInv, DequeInv, MgrUp, TypeOK
<1>4. CASE SpawnPL
  <2>1. incoming \in Range(transactions) /\ incoming # t
    BY <1>4 DEF SpawnPL, IInv, RequestInv, DequeInv, MgrUp
  <2> QED BY <1>1, <1>4, <2>1 DEF SpawnPL, fastVars, IInv, TypeOK
<1>5. ASSUME NEW size \in Nat, RefuseRun(size) \/ AdmitRun(size)
      PROVE  UNCHANGED <<freed, status, hostBuf>>
  BY <1>5 DEF RefuseRun, AdmitRun, vars, mgrVars, fastVars
<1>6. ASSUME NEW u \in Trans, NEW validMode \in BOOLEAN, RejectTransaction(u, validMode)
      PROVE  UNCHANGED <<freed, status, hostBuf>>
  BY <1>6 DEF RejectTransaction, mgrVars, fastVars
<1>7. ASSUME NEW u \in Trans, NEW ms \in Nat, WaitForTestHarnessRequest(u, ms)
      PROVE  UNCHANGED <<freed, status, hostBuf>>
  BY <1>7 DEF WaitForTestHarnessRequest, fastVars
<1>8. CASE Query \/ SocketFailure \/ Device
  BY <1>8 DEF Query, QueryTransactionStatus, SocketFailure, Device, KernelComplete,
     mgrVars, fastVars
<1>9. CASE DeliverResult
  BY <1>9 DEF DeliverResult, Deliver, fastVars
<1>10. CASE DestroyMgr \/ DestructorStep
  BY <1>10 DEF DestroyMgr, ResetTestHarness, DestructorStep, DeleteQueued, ClearDeque,
               DestroyThreads, mgrVars, fastVars
<1>11. CASE UNCHANGED vars
  BY <1>11 DEF vars, mgrVars, fastVars
<1> QED BY <1>2, <1>3, <1>4, <1>5, <1>6, <1>7, <1>8, <1>9, <1>10, <1>11
        DEF AnyNext, AnyRunTestHarness, AnyWaitForTestHarness, PLThreads

(* The steps of the pipeline that take part in the server are its steps.   *)
LEMMA RequestFacts ==
  ASSUME CallInv, ExchangeInv, requests # << >>
  PROVE  LET r == Head(requests) IN
         /\ r.op \in Asking \cup {"data", "setTimeOut", "destroy"}
         /\ r.arg \in Nat
         /\ r.op \in {"data", "queryTransactionStatus", "waitForTestHarness"} =>
              r.trans \in Trans
<1>1. requests \in Seq(Requests)
  BY DEF CallInv, PipeTypeOK
<1>2. Head(requests) \in Requests /\ Head(requests) = requests[1] /\ 1 \in DOMAIN requests
  BY <1>1, PopFacts
<1> QED BY <1>2 DEF Requests, Asking, ExchangeInv, RequestsInv, AskedBy

LEMMA SessionIsServer ==
  ASSUME CallInv, ExchangeInv, SessionThread
  PROVE  [AnyNext]_vars
<1> DEFINE r == Head(requests)
<1>1. requests # << >> => r.arg \in Nat
      /\ (r.op \in {"data", "queryTransactionStatus", "waitForTestHarness"} => r.trans \in Trans)
  BY RequestFacts
<1> HIDE DEF r
<1>2. CASE ServeRun
  BY <1>1, <1>2 DEF ServeRun, Serve, AnyNext, AnyRunTestHarness, r
<1>3. CASE ServeData
  BY <1>1, <1>3 DEF ServeData, Serve, AnyNext, AnyRunTestHarness, r
<1>4. CASE ServeSpawn
  BY <1>4 DEF ServeSpawn, AnyNext, AnyRunTestHarness
<1>5. CASE ServeQuery
  BY <1>1, <1>5 DEF ServeQuery, Serve, AnyNext, Query, r
<1>6. CASE ServeWait
  BY <1>1, <1>6 DEF ServeWait, Serve, AnyNext, AnyWaitForTestHarness, r
<1>7. CASE ServeResult
  BY <1>7 DEF ServeResult, AnyNext, AnyWaitForTestHarness
<1>8. CASE ServeGetTimeOut \/ ServeSetTimeOut \/ ServeWaitForGraph
  BY <1>8 DEF ServeGetTimeOut, ServeSetTimeOut, ServeWaitForGraph
<1>9. CASE ServeDestroy \/ ServeDestructor
  BY <1>9 DEF ServeDestroy, ServeDestructor, AnyNext
<1> QED BY <1>2, <1>3, <1>4, <1>5, <1>6, <1>7, <1>8, <1>9 DEF SessionThread

LEMMA ClientLeavesServer ==
  ASSUME \/ NewCall \/ UserLock \/ UserStep
         \/ \E t \in Trans : WaiterStep(t) \/ WaiterLock(t)
  PROVE  UNCHANGED <<vars, interval>>
<1>1. CASE NewCall
  BY <1>1 DEF NewCall, RunTestHarnessCall, RejectedLocally, WaitForRes, Destroy, Step
<1>2. CASE UserLock
  BY <1>2 DEF UserLock, SendRun, SendGetTimeOut, ExtendTimeOut, SendWaitForGraph,
     RestoreTimeOut, Step
<1>3. CASE UserStep
  BY <1>3 DEF UserStep, RunRefused, RunAccepted, GotTimeOut, LimitOldest, JoinOldest,
     EndLoop, GotGraph, Step
<1>4. ASSUME NEW t \in Trans, WaiterStep(t) \/ WaiterLock(t)
      PROVE  UNCHANGED <<vars, interval>>
  BY <1>4 DEF WaiterStep, WaiterLock, CheckLimit, ReceiveAnswer, ReceiveStatus,
     ReceiveData, HandleOutputs, LockQuery, SendQuery, SendWait, Wait
<1> QED BY <1>1, <1>2, <1>3, <1>4

LEMMA PipeIsServer ==
  ASSUME CallInv, ExchangeInv, [PipeNext]_pipeVars
  PROVE  [AnyNext]_vars
<1>1. ASSUME NEW t \in Trans, ServerPLThread(t)
      PROVE  AnyNext
  BY <1>1 DEF ServerPLThread, AnyNext, PLThreads
<1>2. CASE ServerDevice
  BY <1>2 DEF ServerDevice, AnyNext
<1>3. CASE UNCHANGED pipeVars
  BY <1>3 DEF pipeVars
<1> QED BY <1>1, <1>2, <1>3, SessionIsServer, ClientLeavesServer DEF PipeNext

(* PL threads and the device leave the client and the session alone, but   *)
(* that a PL thread may bring the process down in the destructor.          *)
Background ==
  /\ UNCHANGED <<clientVars, wireVars, interval, ids, freed, transactions,
                 incoming, announced, delivered>>
  /\ session' = session \/ (session \in Destructor /\ session' = "terminated")

LEMMA BackgroundEffects ==
  ASSUME IInv,
         \/ \E t \in Trans : ServerPLThread(t)
         \/ ServerDevice \/ UNCHANGED pipeVars
  PROVE  Background
<1> USE DEF Background
<1>1. ASSUME NEW t \in Trans, ServerPLThread(t)
      PROVE  Background
  <2>1. PLThread(t) /\ UNCHANGED <<clientVars, wireVars, interval>>
    BY <1>1 DEF ServerPLThread
  <2>2. CASE ~MgrUp
    BY <2>1, <2>2, WindowSteps
  <2>3. CASE MgrUp
    BY <2>1, <2>3, NoneStray
       DEF PLThread, ReachFront, LockPL, StartPL, NextSlice, SliceEnds, FetchAfterSlice,
           MarkDone, LastWait, LimitEnds, FetchAfterLimit, Go, sessionVars
  <2> QED BY <2>2, <2>3
<1>2. CASE ServerDevice
  BY <1>2 DEF ServerDevice, Device, mgrVars, sessionVars
<1>3. CASE UNCHANGED pipeVars
  BY <1>3 DEF pipeVars, vars, mgrVars, sessionVars
<1> QED BY <1>1, <1>2, <1>3

-----------------------------------------------------------------------------
(* Who the next answer is for.                                             *)

LEMMA OwnerTypes ==
  /\ User \notin Trans /\ NoTrans \notin Trans /\ User # NoTrans
BY UserAssumption, NoTransAssumption

(* Nothing is on its way when nobody holds req_mtx.                        *)
LEMMA QuietFacts ==
  ASSUME ServerInv, CallInv, ExchangeInv, reqMtx = NoTrans
  PROVE  /\ replies = << >> /\ session # "joining"
         /\ \A i \in DOMAIN requests : requests[i].op \notin Asking
         /\ \A t \in Trans : waiter[t] \notin {"answer", "status", "data"}
         /\ user \notin {"accept", "gotTimeOut", "gotGraph"}
<1> USE OwnerTypes
<1>1. /\ \A t \in Trans : waiter[t] \notin {"answer", "status", "data"}
      /\ user \notin {"accept", "gotTimeOut", "gotGraph"}
  BY DEF ExchangeInv, OwnerInv
<1>2. \A i \in DOMAIN requests : requests[i].op \notin Asking
  BY DEF ExchangeInv, RequestsInv, AskedBy, Asking
<1>3. session # "joining"
  <2>1. transactions # << >> => Head(transactions) \in Trans
    BY TailFacts DEF ServerInv, IInv, TypeOK
  <2> QED BY <2>1 DEF ExchangeInv, OwnerInv
<1>4. ASSUME replies # << >>
      PROVE  FALSE
  <2>1. replies \in Seq(Replies)
    BY DEF CallInv, PipeTypeOK
  <2>2. Head(replies) \in Replies
    BY <2>1, <1>4, PopFacts
  <2> QED BY <2>2, <1>4 DEF ExchangeInv, RepliesInv, AnsweredTo, Replies, Results
<1> QED BY <1>1, <1>2, <1>3, <1>4

LEMMA AnswerFacts ==
  ASSUME CallInv, ExchangeInv, replies # << >>
  PROVE  /\ Answer \in Replies /\ AnsweredTo(Answer)
         /\ Tail(replies) = << >> /\ requests = << >> /\ session # "joining"
         /\ Answer.op = "runTestHarness" => Answer.accepted \in BOOLEAN
         /\ Answer.op = "queryTransactionStatus" =>
              Answer.trans \in Trans /\ Answer.status \in Statuses
         /\ Answer.op = "waitForTestHarness" => Answer.results \in Results
         /\ Answer.op = "getTimeOut" => Answer.seconds \in Nat
         /\ \A t \in Trans : waiter[t] = "answer" =>
              Answer.op = "queryTransactionStatus" /\ Answer.trans = t
         /\ \A t \in Trans : waiter[t] \in {"status", "data"} =>
              Answer.op = "waitForTestHarness" /\ Answer.results.trans = t
         /\ user = "accept" => Answer.op = "runTestHarness"
         /\ user = "gotTimeOut" => Answer.op = "getTimeOut"
         /\ user = "gotGraph" => Answer.op = "waitForGraph"
<1> USE OwnerTypes
<1>1. replies \in Seq(Replies)
  BY DEF CallInv, PipeTypeOK
<1>2. Answer \in Replies /\ AnsweredTo(Answer) /\ Tail(replies) = << >>
      /\ requests = << >> /\ session # "joining"
  BY <1>1, PopFacts DEF Answer, ExchangeInv, RepliesInv
<1>3. \A t \in Trans : waiter[t] \in {"answer", "status", "data"} => reqMtx = t
  BY DEF ExchangeInv, OwnerInv
<1>4. user \in {"accept", "gotTimeOut", "gotGraph"} => reqMtx = User
  BY DEF ExchangeInv, OwnerInv
<1>5. /\ Answer.op = "runTestHarness" => Answer.accepted \in BOOLEAN
      /\ Answer.op = "queryTransactionStatus" =>
           Answer.trans \in Trans /\ Answer.status \in Statuses
      /\ Answer.op = "waitForTestHarness" => Answer.results \in Results
      /\ Answer.op = "getTimeOut" => Answer.seconds \in Nat
      /\ Answer.op \in {"runTestHarness", "queryTransactionStatus",
                        "waitForTestHarness", "getTimeOut", "waitForGraph"}
      /\ Answer.op = "waitForTestHarness" => Answer.results.trans \in Trans
  BY <1>2 DEF Replies, Results
<1> HIDE DEF Answer
<1>6. /\ \A t \in Trans : waiter[t] = "answer" =>
           Answer.op = "queryTransactionStatus" /\ Answer.trans = t
      /\ \A t \in Trans : waiter[t] \in {"status", "data"} =>
           Answer.op = "waitForTestHarness" /\ Answer.results.trans = t
  BY <1>2, <1>3, <1>5 DEF AnsweredTo
<1>7. /\ user = "accept" => Answer.op = "runTestHarness"
      /\ user = "gotTimeOut" => Answer.op = "getTimeOut"
      /\ user = "gotGraph" => Answer.op = "waitForGraph"
  BY <1>2, <1>4, <1>5 DEF AnsweredTo
<1> QED BY <1>2, <1>5, <1>6, <1>7

(* Serving a request that asks leaves one answer and nothing else.         *)
LEMMA AskedFacts ==
  ASSUME CallInv, ExchangeInv, requests # << >>, Head(requests).op \in Asking
  PROVE  /\ Tail(requests) = << >> /\ replies = << >>
         /\ session # "joining" /\ AskedBy(Head(requests))
<1>1. requests \in Seq(Requests)
  BY DEF CallInv, PipeTypeOK
<1>2. /\ Head(requests) = requests[1] /\ 1 \in DOMAIN requests
      /\ Len(requests) = 1 => Tail(requests) = << >>
  BY <1>1, PopFacts
<1> QED BY <1>2 DEF ExchangeInv, RequestsInv

LEMMA FirstFacts ==
  ASSUME NEW S, NEW r \in S
  PROVE  /\ Append(<< >>, r) # << >> /\ Len(Append(<< >>, r)) = 1
         /\ Head(Append(<< >>, r)) = r
         /\ DOMAIN Append(<< >>, r) = {1} /\ Append(<< >>, r)[1] = r
OBVIOUS
-----------------------------------------------------------------------------
(* The client's types, step by step.                                       *)

LEMMA ReplyTypes ==
  /\ \A b \in BOOLEAN : [op |-> "runTestHarness", accepted |-> b] \in Replies
  /\ \A t \in Trans, st \in Statuses :
       [op |-> "queryTransactionStatus", trans |-> t, status |-> st] \in Replies
  /\ \A r \in Results : [op |-> "waitForTestHarness", results |-> r] \in Replies
  /\ \A n \in Nat : [op |-> "getTimeOut", seconds |-> n] \in Replies
  /\ [op |-> "waitForGraph"] \in Replies
BY DEF Replies

WireTypeOK == requests \in Seq(Requests) /\ replies \in Seq(Replies) /\ interval \in Nat

LEMMA SessionTypes ==
  ASSUME ServerInv, CallInv, ExchangeInv, SessionThread
  PROVE  WireTypeOK'
<1> USE DEF WireTypeOK
<1>1. requests \in Seq(Requests) /\ replies \in Seq(Replies) /\ interval \in Nat
  BY DEF CallInv, PipeTypeOK
<1>2. requests # << >> => /\ Tail(requests) \in Seq(Requests)
                          /\ Head(requests).arg \in Nat
                          /\ Head(requests) \in Requests
  BY <1>1, PopFacts, RequestFacts
<1>3. \A r \in Replies : Append(replies, r) \in Seq(Replies)
  BY <1>1, PushFacts
<1>4. ids \subseteq Trans /\ status \in [Trans -> Statuses]
  BY DEF ServerInv, IInv, TypeOK
<1>5. CASE ServeRun
  BY <1>1, <1>2, <1>3, <1>5, ReplyTypes DEF ServeRun, Serve, Reply
<1>6. CASE ServeData
  BY <1>1, <1>2, <1>6 DEF ServeData, Serve
<1>7. CASE ServeSpawn
  BY <1>1, <1>7 DEF ServeSpawn, wireVars
<1>8. CASE ServeQuery
  BY <1>1, <1>2, <1>3, <1>4, <1>8, ReplyTypes DEF ServeQuery, Serve, Reply
<1>9. CASE ServeWait
  BY <1>1, <1>2, <1>9 DEF ServeWait, Serve
<1>10. CASE ServeResult
  <2>1. delivered' \in Seq(Results) /\ delivered' # << >>
    <3>1. TypeOK'
      BY SessionIsServer, StepInv DEF ServerInv, IInv
    <3>2. delivered' = Append(delivered, delivered'[Len(delivered) + 1]) 
          /\ delivered \in Seq(Results)
      BY <1>10 DEF ServeResult, DeliverResult, Deliver, ServerInv, IInv, TypeOK
    <3> QED BY <3>1, <3>2, PushFacts DEF TypeOK
  <2>2. Last(delivered') \in Results
    BY <2>1, LenProperties, ElementOfSeq, EmptySeq DEF Last
  <2> QED BY <1>1, <1>3, <1>10, <2>2, ReplyTypes DEF ServeResult, Reply
<1>11. CASE ServeGetTimeOut
  BY <1>1, <1>2, <1>3, <1>11, ReplyTypes DEF ServeGetTimeOut, Serve, Reply
<1>12. CASE ServeSetTimeOut
  BY <1>1, <1>2, <1>12 DEF ServeSetTimeOut, Serve
<1>13. CASE ServeWaitForGraph
  BY <1>1, <1>2, <1>3, <1>13, ReplyTypes DEF ServeWaitForGraph, Serve, Reply
<1>14. CASE ServeDestroy
  BY <1>1, <1>2, <1>14 DEF ServeDestroy, Serve
<1>15. CASE ServeDestructor
  BY <1>1, <1>15 DEF ServeDestructor, wireVars
<1> QED BY <1>5, <1>6, <1>7, <1>8, <1>9, <1>10, <1>11, <1>12, <1>13, <1>14, <1>15
        DEF SessionThread

LEMMA WaiterTypes ==
  ASSUME CallInv, ExchangeInv, NEW t \in Trans, WaiterStep(t) \/ WaiterLock(t)
  PROVE  PipeTypeOK'
<1> USE DEF PipeTypeOK, Wait, userVars, transVars, mtxVars, wireVars, WaiterPCs, Threads
<1>0. PipeTypeOK
  BY DEF CallInv
<1>1. \A op \in {"queryTransactionStatus", "waitForTestHarness"}, n \in Nat :
        [op |-> op, trans |-> t, arg |-> n] \in Requests
  BY DEF Requests
<1>2. \A r \in Requests : Append(requests, r) \in Seq(Requests)
  BY <1>0, PushFacts
<1>3. replies # << >> => Tail(replies) \in Seq(Replies)
  BY <1>0, PopFacts
<1>4. CASE LockQuery(t) \/ CheckLimit(t) \/ HandleOutputs(t)
  BY <1>0, <1>4 DEF LockQuery, CheckLimit, HandleOutputs
<1>5. CASE SendQuery(t) \/ SendWait(t)
  BY <1>0, <1>1, <1>2, <1>5 DEF SendQuery, SendWait, Send
<1>6. CASE ReceiveAnswer(t)
  BY <1>0, <1>3, <1>6 DEF ReceiveAnswer, Receive
<1>7. CASE ReceiveStatus(t)
  <2>1. Answer.results.status \in Statuses
    BY <1>7, AnswerFacts DEF ReceiveStatus, Results
  <2> QED BY <1>0, <1>7, <2>1 DEF ReceiveStatus
<1>8. CASE ReceiveData(t)
  <2>1. Answer.results.data \in BufferContents
    BY <1>8, AnswerFacts DEF ReceiveData, Receive, Results
  <2> QED BY <1>0, <1>3, <1>8, <2>1 DEF ReceiveData, Receive
<1> QED BY <1>4, <1>5, <1>6, <1>7, <1>8 DEF WaiterStep, WaiterLock

LEMMA SecondsType == \A n \in Nat : Seconds(n) \in Nat
BY DEF Seconds

LEMMA CallTypes ==
  /\ \A b \in BOOLEAN : [NoCall EXCEPT !.warned = b] \in Call
  /\ [NoCall EXCEPT !.outcome = "invalid"] \in Call
  /\ \A c \in Call : [c EXCEPT !.left = @ - 1] \in Call
<1>1. NoCall \in Call
  BY DEF NoCall, Call, Outcomes
<1>2. ASSUME NEW c \in Call
      PROVE  /\ \A b \in BOOLEAN : [c EXCEPT !.warned = b] \in Call
             /\ [c EXCEPT !.outcome = "invalid"] \in Call
             /\ [c EXCEPT !.left = @ - 1] \in Call
  <2>1. c.left - 1 \in Int
    BY DEF Call
  <2> QED BY <2>1 DEF Call, Outcomes
<1> QED BY <1>1, <1>2

(* The application's thread, together with the locals of its call.         *)
LEMMA UserTypes ==
  ASSUME ServerInv, CallInv, ExchangeInv, ProgressInv, NewCall \/ UserLock \/ UserStep
  PROVE  CallInv'
<1> USE DEF CallInv, PipeTypeOK, Step, transVars, mtxVars, wireVars, Threads, UserPCs, NoCall
<1>0. /\ Trans \subseteq Nat \ {0} /\ Trans = 1 .. Cardinality(Trans)
      /\ Cardinality(Trans) \in Nat /\ User \in Threads /\ NoTrans \in Threads
  BY Numbers
<1>1. ASSUME NEW op \in {"runTestHarness", "getTimeOut", "setTimeOut",
                         "waitForGraph", "destroy"}, NEW n \in Nat
      PROVE  Append(requests, [op |-> op, trans |-> NoTrans, arg |-> n]) \in Seq(Requests)
  <2>1. [op |-> op, trans |-> NoTrans, arg |-> n] \in Requests
    BY DEF Requests
  <2> QED BY <2>1, PushFacts
<1>2. replies # << >> => Tail(replies) \in Seq(Replies)
  BY PopFacts
<1>3. pending # << >> => Tail(pending) \in Seq(Trans) /\ Head(pending) \in Trans
  BY PopFacts
<1>4. CASE RunTestHarnessCall \/ RejectedLocally
  <2>1. trans_id' = trans_id + 1 /\ trans_id' \in Trans /\ call' \in Call
        /\ \E st \in Statuses : clientStatus' = [clientStatus EXCEPT ![trans_id'] = st]
    <3> HIDE DEF PipeTypeOK, NoCall, CallInv
    <3>1. CASE RunTestHarnessCall
      <4>1. trans_id' = trans_id + 1 /\ trans_id' \in Trans
            /\ clientStatus' = [clientStatus EXCEPT ![trans_id'] = "READY"]
        BY <3>1 DEF RunTestHarnessCall
      <4>2. call' \in Call
        <5> DEFINE b == MemUse[trans_id + 1] + PendingUsage > MemorySizeMax
        <5>1. b \in BOOLEAN
          OBVIOUS
        <5>2. call' = [NoCall EXCEPT !.warned = b]
          BY <3>1, Zenon DEF RunTestHarnessCall
        <5> HIDE DEF b
        <5> QED BY <5>1, <5>2, CallTypes
      <4> QED BY <4>1, <4>2 DEF Statuses
    <3>2. CASE RejectedLocally
      BY <3>2, CallTypes DEF RejectedLocally, Statuses
    <3> QED BY <1>4, <3>1, <3>2
  <2>2. UNCHANGED <<clientLimit, clientData, output, mtxVars, pending, waiter, wireVars, interval>>
        /\ user' \in {"run", "idle"}
    BY <1>4 DEF RunTestHarnessCall, RejectedLocally
  <2>3. clientStatus' \in [Trans -> Statuses] /\ trans_id' \in Nat
        /\ trans_id' \in 0 .. Cardinality(Trans)
    BY <1>0, <2>1
  <2> QED BY <2>1, <2>2, <2>3
<1>5. ASSUME NEW number \in 0 .. Cardinality(Trans), NEW ms \in TimeOuts,
             WaitForRes(number, ms)
      PROVE  CallInv'
  <2>1. ms \in Nat /\ number \in Nat /\ number \in Int
    BY <1>0, TimeOutsAssumption
  <2>2. call' \in Call
    BY <1>5, <2>1 DEF WaitForRes, Call, Outcomes
  <2> QED BY <1>5, <2>2 DEF WaitForRes
<1>6. CASE SendRun
  <2>1. MemUse[trans_id] \in Nat
    BY <1>6, MemUseAssumption DEF SendRun
  <2> QED BY <1>0, <1>1, <1>6, <2>1 DEF SendRun, Ask, Send
<1>7. CASE SendGetTimeOut
  BY <1>0, <1>1, <1>7 DEF SendGetTimeOut, Ask, Send
<1>8. CASE ExtendTimeOut
  <2>1. Seconds(call.ms) + call.server_timeout \in Nat
    <3>1. call.ms \in Nat /\ call.server_timeout \in Nat
      BY DEF Call
    <3>2. Seconds(call.ms) \in Nat
      BY <3>1, SecondsType
    <3> QED BY <3>1, <3>2
  <2> QED BY <1>1, <1>8, <2>1 DEF ExtendTimeOut, Tell, Send
<1>9. CASE SendWaitForGraph
  <2>1. call.ms \in Nat
    BY DEF Call
  <2> QED BY <1>0, <1>1, <1>9, <2>1 DEF SendWaitForGraph, Ask, Send
<1>10. CASE RestoreTimeOut
  <2>1. call.server_timeout \in Nat
    BY DEF Call
  <2>2. call' \in Call
    BY <1>10 DEF RestoreTimeOut, Return, Call, Outcomes
  <2> QED BY <1>1, <1>10, <2>1, <2>2 DEF RestoreTimeOut, Tell, Send
<1>11. CASE Destroy
  BY <1>1, <1>11 DEF Destroy, Tell, Send
<1>12. CASE RunRefused
  <2>1. call' \in Call
    BY <1>12 DEF RunRefused, Return, Call, Outcomes
  <2> QED BY <1>0, <1>2, <1>12, <2>1 DEF RunRefused, Answered, Receive
<1>13. CASE RunAccepted
  <2>1. call' \in Call
    BY <1>13 DEF RunAccepted, Return, Call, Outcomes
  <2>2. trans_id \in Trans /\ "RUNNING" \in Statuses /\ "lockQuery" \in WaiterPCs
    BY <1>13 DEF RunAccepted, Statuses, WaiterPCs
  <2>3. [op |-> "data", trans |-> trans_id, arg |-> 0] \in Requests
    BY <2>2 DEF Requests
  <2>4. requests' \in Seq(Requests) /\ pending' \in Seq(Trans)
    BY <1>13, <2>2, <2>3, PushFacts DEF RunAccepted
  <2> QED BY <1>0, <1>2, <1>13, <2>1, <2>2, <2>4 DEF RunAccepted
<1>14. CASE GotTimeOut
  <2>1. Answer.seconds \in Nat
    BY <1>14, AnswerFacts DEF GotTimeOut, Answered, Receive
  <2>2. call' \in Call
    BY <1>14, <2>1 DEF GotTimeOut, Call
  <2> QED BY <1>0, <1>2, <1>14, <2>2 DEF GotTimeOut, Answered, Receive
<1>15. CASE LimitOldest
  <2>1. call.ms \in Nat
    BY DEF Call
  <2> QED BY <1>3, <1>15, <2>1 DEF LimitOldest, LoopOver
<1>16. CASE JoinOldest
  <2>1. call' \in Call
    BY <1>16, CallTypes DEF JoinOldest
  <2> QED BY <1>3, <1>16, <2>1 DEF JoinOldest
<1>17. CASE EndLoop
  BY <1>17 DEF EndLoop
<1>18. CASE GotGraph
  BY <1>0, <1>2, <1>18 DEF GotGraph, Answered, Receive
<1> QED BY <1>4, <1>5, <1>6, <1>7, <1>8, <1>9, <1>10, <1>11, <1>12, <1>13,
        <1>14, <1>15, <1>16, <1>17, <1>18 DEF NewCall, UserLock, UserStep

LEMMA CallStep ==
  ASSUME PipeInv, [PipeNext]_pipeVars
  PROVE  CallInv'
<1> USE DEF clientVars, transVars, mtxVars, userVars
<1>1. ASSUME UNCHANGED clientVars, WireTypeOK'
      PROVE  CallInv'
  BY <1>1 DEF PipeInv, CallInv, PipeTypeOK, WireTypeOK
<1>2. CASE SessionThread
  BY <1>1, <1>2, SessionTypes DEF PipeInv, SessionThread
<1>3. ASSUME NEW t \in Trans, WaiterStep(t) \/ WaiterLock(t)
      PROVE  CallInv'
  <2>1. PipeTypeOK'
    BY <1>3, WaiterTypes DEF PipeInv
  <2>2. UNCHANGED userVars
    BY <1>3 DEF WaiterStep, WaiterLock, CheckLimit, ReceiveAnswer, ReceiveStatus,
       ReceiveData, HandleOutputs, LockQuery, SendQuery, SendWait, Wait
  <2> QED BY <2>1, <2>2 DEF PipeInv, CallInv
<1>4. ASSUME UNCHANGED <<clientVars, wireVars, interval>>
      PROVE  CallInv'
  BY <1>1, <1>4 DEF PipeInv, CallInv, PipeTypeOK, WireTypeOK, wireVars
<1>5. ASSUME NEW t \in Trans, ServerPLThread(t)
      PROVE  CallInv'
  BY <1>4, <1>5 DEF ServerPLThread
<1>6. CASE ServerDevice
  BY <1>4, <1>6 DEF ServerDevice
<1>7. CASE UNCHANGED pipeVars
  BY <1>4, <1>7 DEF pipeVars
<1> QED BY <1>2, <1>3, <1>5, <1>6, <1>7, UserTypes DEF PipeInv, PipeNext

-----------------------------------------------------------------------------
(* Exchanges, by the way a step uses the connection.                       *)

LEMMA ExchangeSame == ExchangeInv /\ Background => ExchangeInv'
BY DEF Background, clientVars, mtxVars, userVars, wireVars, MgrUp, ExchangeInv, RequestsInv, RepliesInv, OwnerInv, AskedBy,
       AnsweredTo, Answer, MgrUp

(* The server reads a request and leaves no answer.                        *)
LEMMA ExchangeRead ==
  ASSUME CallInv, ExchangeInv, requests # << >>, requests' = Tail(requests),
         UNCHANGED <<replies, reqMtx, waiter, user, trans_id>>,
         session' # "joining", MgrUp' \/ requests' = << >>
  PROVE  RequestsInv' /\ RepliesInv'
<1>1. requests \in Seq(Requests) /\ replies = << >>
  BY DEF CallInv, PipeTypeOK, ExchangeInv, RepliesInv
<1>2. /\ Len(requests) \in Nat /\ DOMAIN requests = 1 .. Len(requests)
      /\ Len(requests') = Len(requests) - 1
      /\ DOMAIN requests' = 1 .. Len(requests) - 1
      /\ \A i \in DOMAIN requests' :
           i + 1 \in DOMAIN requests /\ requests'[i] = requests[i + 1]
  BY <1>1, PopFacts
<1>3. ASSUME NEW i \in DOMAIN requests'
      PROVE  /\ requests'[i].op \in Asking => i = Len(requests') /\ AskedBy(requests'[i])
             /\ requests'[i].op # "data"
             /\ requests'[i].op = "destroy" =>
                  i = Len(requests') /\ user \in {"closed", "terminated"}
  <2>1. i + 1 \in DOMAIN requests /\ requests'[i] = requests[i + 1] /\ i + 1 # 1
    BY <1>2
  <2>2. i + 1 = Len(requests) => i = Len(requests')
    BY <1>2
  <2> QED BY <2>1, <2>2 DEF ExchangeInv, RequestsInv
<1>4. \A r : AskedBy(r) => AskedBy(r)'
  BY DEF AskedBy
<1>5. \A i \in DOMAIN requests' : MgrUp'
  BY <1>2, EmptySeq
<1> QED BY <1>1, <1>3, <1>4, <1>5 DEF RequestsInv, RepliesInv, AskedBy

(* The server reads the request it answers, or delivers the results asked. *)
LEMMA ExchangeReply ==
  ASSUME NEW r, requests' = << >>, replies' = Append(<< >>, r), session' # "joining",
         AnsweredTo(r)'
  PROVE  RequestsInv' /\ RepliesInv'
BY FirstFacts DEF RequestsInv, RepliesInv, AnsweredTo

(* A step of the client that neither sends nor takes an answer.            *)
LEMMA ExchangeSilent ==
  ASSUME ServerInv, CallInv, ExchangeInv,
         UNCHANGED <<vars, requests, replies, reqMtx>>,
         trans_id' = trans_id \/ user = "idle",
         \A t \in Trans : waiter'[t] \in {"answer", "status", "data"} <=>
                            waiter[t] \in {"answer", "status", "data"},
         \A t \in Trans : waiter[t] \in {"answer", "status", "data"} =>
            waiter'[t] = waiter[t] \/ (waiter'[t] = "data" /\ waiter[t] = "status"
                                       /\ replies # << >>),
         user' = user \/ {user, user'} \cap {"accept", "gotTimeOut", "gotGraph",
                                             "closed", "terminated"} = {}
  PROVE  ExchangeInv'
<1> USE DEF vars, mgrVars, sessionVars
<1>1. MgrUp' = MgrUp /\ Answer' = Answer
  BY DEF MgrUp, Answer
<1>2. user = "accept" => user' = "accept" /\ trans_id' = trans_id
  OBVIOUS
<1>3. user \in {"closed", "terminated", "gotTimeOut", "gotGraph"} => user' = user
  OBVIOUS
<1>4. user' \in {"accept", "gotTimeOut", "gotGraph", "closed", "terminated"} => user' = user
  OBVIOUS
<1>5. \A r : AskedBy(r) /\ replies = << >> => AskedBy(r)'
  BY <1>2, <1>3 DEF AskedBy
<1>6. replies # << >> => AnsweredTo(Answer)'
  BY <1>1, <1>2, <1>3, AnswerFacts DEF AnsweredTo, Results
<1>7. RequestsInv'
  BY <1>1, <1>3, <1>5 DEF ExchangeInv, RequestsInv
<1>8. RepliesInv'
  BY <1>1, <1>6 DEF ExchangeInv, RepliesInv, Answer
<1>9. OwnerInv'
  <2>1. session = "joining" => waiter'[reqMtx] = "status" 
    BY TailFacts DEF ExchangeInv, OwnerInv, ServerInv, IInv, TypeOK
  <2> QED BY <1>1, <1>3, <1>4, <2>1 DEF ExchangeInv, OwnerInv
<1> QED BY <1>7, <1>8, <1>9 DEF ExchangeInv

(* A thread takes req_mtx and asks.                                        *)
LEMMA ExchangeAsk ==
  ASSUME ServerInv, CallInv, ExchangeInv, NEW r \in Requests,
         reqMtx = NoTrans, requests' = Append(requests, r),
         r.op \in Asking, AskedBy(r)', UNCHANGED <<vars, replies>>,
         user \notin {"closed", "terminated"}, user' \notin {"closed", "terminated"},
         \A t \in Trans : waiter'[t] \in {"answer", "status", "data"} <=> reqMtx' = t,
         user' \in {"accept", "gotTimeOut", "gotGraph"} <=> reqMtx' = User
  PROVE  ExchangeInv'
<1> USE DEF vars, mgrVars, sessionVars
<1>1. requests \in Seq(Requests)
  BY DEF CallInv, PipeTypeOK
<1>2. /\ Len(requests) \in Nat /\ DOMAIN requests = 1 .. Len(requests)
      /\ Len(requests') = Len(requests) + 1
      /\ DOMAIN requests' = 1 .. Len(requests) + 1
      /\ \A i \in DOMAIN requests : requests'[i] = requests[i]
      /\ requests'[Len(requests) + 1] = r
  BY <1>1, PushFacts
<1>3. /\ requests' # << >>
      /\ requests # << >> => Head(requests') = Head(requests)
  BY <1>1, AppendFacts
<1>4. /\ replies = << >> /\ session # "joining"
      /\ \A i \in DOMAIN requests : requests[i].op \notin Asking
  BY QuietFacts
<1>5. \A i \in DOMAIN requests : requests[i].op # "destroy"
  BY DEF ExchangeInv, RequestsInv
<1>6. \A i \in DOMAIN requests' : i \in DOMAIN requests \/ i = Len(requests')
  BY <1>2
<1>7. RequestsInv'
  <2> SUFFICES ASSUME NEW i \in DOMAIN requests'
               PROVE  /\ requests'[i].op \in Asking =>
                           i = Len(requests') /\ AskedBy(requests[i])'
                      /\ requests'[i].op = "data" =>
                           /\ i = 1 /\ session = "receiving"
                           /\ requests'[i].trans \in Trans
                           /\ MemUse[requests'[i].trans] = announced
                      /\ requests'[i].op # "destroy"
    BY <1>4 DEF RequestsInv, AskedBy
  <2>1. CASE i \in DOMAIN requests
    BY <2>1, <1>2, <1>4, <1>5 DEF ExchangeInv, RequestsInv
  <2>2. CASE i = Len(requests')
    BY <2>2, <1>2 DEF Asking, AskedBy
  <2> QED BY <1>6, <2>1, <2>2
<1>8. RepliesInv'
  BY <1>4 DEF RepliesInv
<1>9. OwnerInv'
  BY <1>3, <1>4 DEF ExchangeInv, OwnerInv, MgrUp
<1> QED BY <1>7, <1>8, <1>9 DEF ExchangeInv

(* The thread takes the answer and releases req_mtx.                       *)
LEMMA ExchangeTake ==
  ASSUME CallInv, ExchangeInv, replies # << >>, replies' = Tail(replies),
         reqMtx' = NoTrans, UNCHANGED <<vars, requests>>,
         Answer.op = "runTestHarness" => ~Answer.accepted,
         \A t \in Trans : waiter'[t] \notin {"answer", "status", "data"},
         user' \notin {"accept", "gotTimeOut", "gotGraph"}
  PROVE  ExchangeInv'
<1> USE DEF vars, mgrVars, sessionVars
<1>1. replies' = << >> /\ requests' = << >> /\ session # "joining" /\ AnsweredTo(Answer)
      /\ Answer \in Replies
  BY AnswerFacts
<1>2. MgrUp
  <2>1. reqMtx # NoTrans
    BY <1>1, OwnerTypes, AnswerFacts DEF AnsweredTo, Replies, Results
  <2> QED BY <2>1 DEF ExchangeInv, OwnerInv
<1>3. session # "receiving"
  BY <1>1, AnswerFacts DEF ExchangeInv, OwnerInv
<1>4. OwnerInv'
  BY <1>1, <1>2, <1>3, OwnerTypes DEF ExchangeInv, OwnerInv, MgrUp
<1> QED BY <1>1, <1>4 DEF ExchangeInv, RequestsInv, RepliesInv, Asking

(* A request without an answer.                                            *)
LEMMA ExchangeTell ==
  ASSUME ServerInv, CallInv, ExchangeInv, NEW r \in Requests,
         reqMtx = NoTrans, requests' = Append(requests, r),
         UNCHANGED <<vars, replies, reqMtx, waiter, trans_id>>,
         user \notin {"closed", "terminated"},
         user' \notin {"accept", "gotTimeOut", "gotGraph"},
         r.op = "setTimeOut" \/ (r.op = "destroy" /\ user' \in {"closed", "terminated"})
  PROVE  ExchangeInv'
<1> USE DEF vars, mgrVars, sessionVars
<1>1. requests \in Seq(Requests)
  BY DEF CallInv, PipeTypeOK
<1>2. /\ Len(requests) \in Nat /\ DOMAIN requests = 1 .. Len(requests)
      /\ Len(requests') = Len(requests) + 1
      /\ DOMAIN requests' = 1 .. Len(requests) + 1
      /\ \A i \in DOMAIN requests : requests'[i] = requests[i]
      /\ requests'[Len(requests) + 1] = r
  BY <1>1, PushFacts
<1>3. /\ requests' # << >>
      /\ requests # << >> => Head(requests') = Head(requests)
  BY <1>1, AppendFacts
<1>4. /\ replies = << >> /\ session # "joining"
      /\ \A i \in DOMAIN requests : requests[i].op \notin Asking
      /\ \A t \in Trans : waiter[t] \notin {"answer", "status", "data"}
  BY QuietFacts
<1>5. /\ \A i \in DOMAIN requests : requests[i].op # "destroy"
      /\ MgrUp
  BY DEF ExchangeInv, RequestsInv, OwnerInv
<1>6. RequestsInv'
  <2> SUFFICES ASSUME NEW i \in DOMAIN requests'
               PROVE  /\ requests'[i].op \notin Asking
                      /\ requests'[i].op = "data" =>
                           /\ i = 1 /\ session = "receiving"
                           /\ requests'[i].trans \in Trans
                           /\ MemUse[requests'[i].trans] = announced
                      /\ requests'[i].op = "destroy" =>
                           i = Len(requests') /\ user' \in {"closed", "terminated"}
    BY <1>5 DEF RequestsInv, MgrUp
  <2>1. CASE i \in DOMAIN requests
    BY <2>1, <1>2, <1>4, <1>5 DEF ExchangeInv, RequestsInv
  <2>2. CASE i = Len(requests')
    BY <2>2, <1>2 DEF Asking
  <2>3. i \in DOMAIN requests \/ i = Len(requests')
    BY <1>2
  <2> QED BY <2>1, <2>2, <2>3
<1>7. RepliesInv'
  BY <1>4 DEF RepliesInv
<1>8. OwnerInv'
  BY <1>3, <1>4, <1>5, OwnerTypes DEF ExchangeInv, OwnerInv, MgrUp
<1> QED BY <1>6, <1>7, <1>8 DEF ExchangeInv

LEMMA ExchangeSession ==
  ASSUME ServerInv, CallInv, ExchangeInv, SessionThread
  PROVE  ExchangeInv'
<1> USE DEF clientVars, transVars, mtxVars, userVars, Throw, Serve, Reply, vars,
            mgrVars, sessionVars
<1> DEFINE r == Head(requests)
<1>0. UNCHANGED <<reqMtx, waiter, user, trans_id>>
  BY DEF SessionThread
<1>1. requests # << >> => r.op \in Asking \cup {"data", "setTimeOut", "destroy"}
  BY RequestFacts
<1>2. requests # << >> /\ r.op \in Asking =>
        Tail(requests) = << >> /\ replies = << >> /\ session # "joining" /\ AskedBy(r)
  BY AskedFacts
<1>3. requests # << >> /\ r.op = "data" =>
        session = "receiving" /\ r.trans \in Trans /\ MemUse[r.trans] = announced
  <2>1. requests # << >> => r = requests[1] /\ 1 \in DOMAIN requests
    BY PopFacts DEF CallInv, PipeTypeOK
  <2> QED BY <2>1 DEF ExchangeInv, RequestsInv
<1>4. requests # << >> => replies = << >>
  BY DEF ExchangeInv, RepliesInv
<1>5. IInv'
  BY SessionIsServer, StepInv DEF ServerInv
<1> HIDE DEF r
<1>6. CASE ServeRun
  <2>1. /\ AskedBy(r) /\ r.op = "runTestHarness" /\ requests' = << >> /\ replies = << >>
        /\ session = "idle" /\ r.arg = MemUse[trans_id]
    BY <1>2, <1>6 DEF ServeRun, RefuseRun, AdmitRun, r, Asking, AskedBy
  <2>2. CASE RefuseRun(r.arg) /\ Reply([op |-> "runTestHarness", accepted |-> FALSE])
    <3>1. RequestsInv' /\ RepliesInv'
      BY <1>0, <2>1, <2>2, ExchangeReply DEF RefuseRun, AnsweredTo, AskedBy
    <3>2. OwnerInv'
      BY <1>0, <2>1, <2>2, FirstFacts DEF ExchangeInv, OwnerInv, RefuseRun, MgrUp
    <3> QED BY <3>1, <3>2 DEF ExchangeInv
  <2>3. CASE AdmitRun(r.arg) /\ Reply([op |-> "runTestHarness", accepted |-> TRUE])
    <3>1. RequestsInv' /\ RepliesInv'
      BY <1>0, <2>1, <2>3, ExchangeReply DEF AdmitRun, AnsweredTo, AskedBy
    <3>2. OwnerInv'
      BY <1>0, <2>1, <2>3, FirstFacts DEF ExchangeInv, OwnerInv, AdmitRun, MgrUp, Answer
    <3> QED BY <3>1, <3>2 DEF ExchangeInv
  <2> QED BY <1>6, <2>2, <2>3 DEF ServeRun, r
<1>7. CASE ServeData
  <2>1. /\ requests # << >> /\ requests' = Tail(requests) /\ UNCHANGED replies
        /\ r.op = "data" /\ replies = << >> /\ session = "receiving"
        /\ MemUse[r.trans] = announced /\ r.trans \in Trans
    BY <1>3, <1>4, <1>7 DEF ServeData, r
  <2>2. \/ session' = "failed"
        \/ session' = "filling" /\ incoming' = r.trans /\ announced' = announced
    BY <1>7 DEF ServeData, CreateTransaction, RejectTransaction, r
  <2>3. RequestsInv' /\ RepliesInv'
    BY <1>0, <2>1, <2>2, ExchangeRead DEF MgrUp
  <2>4. OwnerInv'
    BY <1>0, <2>1, <2>2 DEF ExchangeInv, OwnerInv, MgrUp
  <2> QED BY <2>3, <2>4 DEF ExchangeInv
<1>8. CASE ServeSpawn
  <2>1. session = "filling" /\ session' \in {"failed", "idle"}
        /\ UNCHANGED <<requests, replies>>
        /\ (session' = "failed" => announced' = announced)
    BY <1>8 DEF ServeSpawn, SpawnPL, wireVars
  <2> QED BY <1>0, <1>8, <2>1 DEF ServeSpawn, wireVars, ExchangeInv, RequestsInv, RepliesInv,
         OwnerInv, AskedBy, AnsweredTo, Answer, MgrUp
<1>9. CASE ServeQuery
  <2>1. /\ AskedBy(r) /\ r.op = "queryTransactionStatus" /\ requests' = << >>
        /\ replies = << >> /\ session = "idle"
    BY <1>2, <1>9 DEF ServeQuery, r, Asking, AskedBy
  <2>2. CASE UNCHANGED vars /\ replies' = Append(<< >>, [op |-> "queryTransactionStatus",
                trans |-> r.trans, status |-> status[r.trans]])
    <3>1. RequestsInv' /\ RepliesInv'
      BY <1>0, <2>1, <2>2, ExchangeReply DEF AnsweredTo, AskedBy
    <3>2. OwnerInv'
      BY <1>0, <2>1, <2>2, FirstFacts DEF ExchangeInv, OwnerInv, MgrUp
    <3> QED BY <3>1, <3>2 DEF ExchangeInv
  <2>3. CASE session' = "failed" /\ UNCHANGED replies
    BY <1>0, <2>1, <2>3 DEF ExchangeInv, OwnerInv, MgrUp, RequestsInv, RepliesInv
  <2> QED BY <1>9, <2>1, <2>2, <2>3 DEF ServeQuery, QueryTransactionStatus, r
<1>10. CASE ServeWait
  <2>1. /\ AskedBy(r) /\ r.op = "waitForTestHarness" /\ requests' = << >>
        /\ replies = << >> /\ replies' = << >> /\ r.trans \in Trans
    BY <1>2, <1>10 DEF ServeWait, r, Asking, AskedBy
  <2>2. \/ session' = "failed"
        \/ session' = "joining" /\ r.trans = Head(transactions)
    BY <1>10 DEF ServeWait, WaitForTestHarnessRequest, WaitRefused, r
  <2>3. UNCHANGED transactions
    BY <1>10 DEF ServeWait, WaitForTestHarnessRequest
  <2>4. session' = "joining" => transactions' # << >>
    BY <1>5 DEF IInv, RequestInv
  <2> QED BY <1>0, <2>1, <2>2, <2>3, <2>4 DEF ExchangeInv, OwnerInv, MgrUp, RequestsInv,
         RepliesInv, AskedBy
<1>11. CASE ServeResult
  <2> DEFINE x == [trans |-> Head(transactions), status |-> status[Head(transactions)],
                   data |-> hostBuf[Head(transactions)]]
  <2>1. /\ session = "joining" /\ session' = "idle" /\ UNCHANGED requests
        /\ delivered' = Append(delivered, x)
        /\ replies' = Append(replies, [op |-> "waitForTestHarness",
                                       results |-> Last(delivered')])
    BY <1>11 DEF ServeResult, DeliverResult, Deliver
  <2>2. x \in Results /\ delivered \in Seq(Results)
    <3>1. transactions # << >> /\ Head(transactions) \in Trans
      BY <2>1, TailFacts DEF ExchangeInv, OwnerInv, ServerInv, IInv, TypeOK
    <3> QED BY <3>1 DEF ServerInv, IInv, TypeOK, FastTypeOK, Results
  <2>3. Last(delivered') = x
    BY <2>1, <2>2, PushFacts DEF Last
  <2>4. /\ requests = << >> /\ replies = << >>
        /\ reqMtx = x.trans /\ waiter[x.trans] = "status"
    BY <2>1 DEF ExchangeInv, OwnerInv
  <2> HIDE DEF x
  <2>5. RequestsInv' /\ RepliesInv'
    BY <1>0, <2>1, <2>3, <2>4, ExchangeReply DEF AnsweredTo
  <2>6. OwnerInv'
    BY <1>0, <2>1, <2>4, FirstFacts DEF ExchangeInv, OwnerInv, MgrUp
  <2> QED BY <2>5, <2>6 DEF ExchangeInv
<1>12. CASE ServeGetTimeOut \/ ServeWaitForGraph
  <2>1. /\ AskedBy(r) /\ r.op \in {"getTimeOut", "waitForGraph"} /\ requests' = << >>
        /\ replies = << >> /\ UNCHANGED vars /\ session = "idle"
        /\ \/ /\ r.op = "getTimeOut"
              /\ replies' = Append(<< >>, [op |-> "getTimeOut", seconds |-> interval])
           \/ /\ r.op = "waitForGraph"
              /\ replies' = Append(<< >>, [op |-> "waitForGraph"])
    BY <1>2, <1>12 DEF ServeGetTimeOut, ServeWaitForGraph, r, Asking, AskedBy
  <2>2. RequestsInv' /\ RepliesInv'
    BY <1>0, <2>1, ExchangeReply DEF AnsweredTo, AskedBy
  <2>3. OwnerInv'
    BY <1>0, <2>1, FirstFacts DEF ExchangeInv, OwnerInv, MgrUp
  <2> QED BY <2>2, <2>3 DEF ExchangeInv
<1>13. CASE ServeSetTimeOut
  <2>1. /\ requests # << >> /\ requests' = Tail(requests) /\ replies = << >>
        /\ UNCHANGED <<vars, replies>> /\ session = "idle"
    BY <1>4, <1>13 DEF ServeSetTimeOut
  <2>2. RequestsInv' /\ RepliesInv'
    BY <1>0, <2>1, ExchangeRead DEF MgrUp
  <2>3. OwnerInv'
    BY <1>0, <2>1 DEF ExchangeInv, OwnerInv, MgrUp
  <2> QED BY <2>2, <2>3 DEF ExchangeInv
<1>14. CASE ServeDestroy
  <2>1. /\ requests # << >> /\ requests' = Tail(requests) /\ replies = << >>
        /\ UNCHANGED replies /\ r.op = "destroy" /\ session' = "deleting"
    BY <1>4, <1>14 DEF ServeDestroy, DestroyMgr, r
  <2>2. requests' = << >> /\ user \in {"closed", "terminated"}
    <3>1. /\ r = requests[1] /\ 1 \in DOMAIN requests
          /\ Len(requests) = 1 => Tail(requests) = << >>
      BY <2>1, PopFacts DEF r, CallInv, PipeTypeOK
    <3> QED BY <2>1, <3>1 DEF ExchangeInv, RequestsInv
  <2>3. RequestsInv' /\ RepliesInv'
    BY <1>0, <2>1, <2>2, ExchangeRead
  <2>4. OwnerInv'
    BY <1>0, <2>1, <2>2 DEF ExchangeInv, OwnerInv, MgrUp
  <2> QED BY <2>3, <2>4 DEF ExchangeInv
<1>15. CASE ServeDestructor
  <2>1. /\ session \in Destructor /\ session' \in Destructor \cup {"closed", "terminated"}
        /\ UNCHANGED <<requests, replies>>
    BY <1>15 DEF ServeDestructor, DestructorStep, DeleteQueued, ClearDeque, DestroyThreads,
                 wireVars
  <2>2. ~MgrUp /\ ~MgrUp'
    BY <2>1 DEF MgrUp
  <2>3. requests = << >> /\ user \in {"closed", "terminated"} /\ reqMtx = NoTrans
    BY <2>2 DEF ExchangeInv, OwnerInv
  <2>4. replies = << >>
    BY <1>15, <2>3, OwnerTypes, AnswerFacts DEF ExchangeInv, RepliesInv, AnsweredTo, Replies,
       Results, Answer
  <2> QED BY <1>0, <2>1, <2>2, <2>3, <2>4, EmptySeq
          DEF ExchangeInv, RequestsInv, RepliesInv, OwnerInv
<1> QED BY <1>6, <1>7, <1>8, <1>9, <1>10, <1>11, <1>12, <1>13, <1>14, <1>15 DEF SessionThread

(* A waiter only runs while its transaction is pending.                    *)
LEMMA WaiterOpen ==
  ASSUME PipeInv, NEW t \in Trans, waiter[t] \notin {"none", "exited"}, ClientUp
  PROVE  user \notin {"closed", "terminated"} /\ t \in Range(pending)
<1>1. t \in Range(pending)
  BY DEF PipeInv, ProgressInv, KnownInv, Submitted
<1> QED BY <1>1, EmptyFacts DEF PipeInv, CallInv, ClientUp

LEMMA ExchangeWaiter ==
  ASSUME PipeInv, NEW t \in Trans, WaiterStep(t) \/ WaiterLock(t)
  PROVE  ExchangeInv'
<1> USE DEF Wait, userVars, transVars, mtxVars, wireVars
<1>0. ServerInv /\ CallInv /\ ExchangeInv
  BY DEF PipeInv
<1>1. waiter \in [Trans -> WaiterPCs] /\ clientLimit \in [Trans -> Nat]
  BY <1>0 DEF CallInv, PipeTypeOK
<1>2. OwnerInv
  BY <1>0 DEF ExchangeInv
<1>3. CASE LockQuery(t) \/ CheckLimit(t) \/ HandleOutputs(t)
  BY <1>0, <1>1, <1>3, ExchangeSilent DEF LockQuery, CheckLimit, HandleOutputs
<1>4. CASE ReceiveStatus(t)
  BY <1>0, <1>1, <1>4, ExchangeSilent DEF ReceiveStatus
<1>5. CASE SendQuery(t)
  <2> DEFINE r == [op |-> "queryTransactionStatus", trans |-> t, arg |-> 0]
  <2>1. r \in Requests /\ r.op \in Asking /\ AskedBy(r)'
    BY <1>1, <1>5 DEF SendQuery, Requests, Asking, AskedBy
  <2>2. user \notin {"closed", "terminated"}
    BY <1>5, WaiterOpen DEF SendQuery
  <2>3. /\ \A u \in Trans : waiter'[u] \in {"answer", "status", "data"} <=> reqMtx' = u
        /\ user' \in {"accept", "gotTimeOut", "gotGraph"} <=> reqMtx' = User
    BY <1>1, <1>2, <1>5, OwnerTypes DEF SendQuery, OwnerInv
  <2>4. /\ reqMtx = NoTrans /\ requests' = Append(requests, r) /\ user' = user
        /\ UNCHANGED <<vars, replies>>
    BY <1>5 DEF SendQuery, Send
  <2> HIDE DEF r
  <2> QED BY <1>0, <2>1, <2>2, <2>3, <2>4, ExchangeAsk
<1>6. CASE SendWait(t)
  <2>0. PICK r \in Requests : r = [op |-> "waitForTestHarness", trans |-> t, arg |-> clientLimit[t]]
    BY <1>1 DEF Requests
  <2>1. r.op \in Asking /\ AskedBy(r)'
    BY <1>1, <1>6, <2>0 DEF SendWait, Asking, AskedBy
  <2>2. user \notin {"closed", "terminated"}
    BY <1>6, WaiterOpen DEF SendWait
  <2>3. /\ \A u \in Trans : waiter'[u] \in {"answer", "status", "data"} <=> reqMtx' = u
        /\ user' \in {"accept", "gotTimeOut", "gotGraph"} <=> reqMtx' = User
    BY <1>1, <1>2, <1>6, OwnerTypes DEF SendWait, OwnerInv
  <2>4. /\ reqMtx = NoTrans /\ requests' = Append(requests, r) /\ user' = user
        /\ UNCHANGED <<vars, replies>>
    BY <1>6, <2>0 DEF SendWait, Send
  <2> QED BY <1>0, <2>1, <2>2, <2>3, <2>4, ExchangeAsk
<1>7. ASSUME ReceiveAnswer(t) \/ ReceiveData(t)
      PROVE  ExchangeInv'
  <2>1. /\ replies # << >> /\ replies' = Tail(replies) /\ reqMtx' = NoTrans
        /\ UNCHANGED <<vars, requests, user>> /\ waiter[t] \in {"answer", "data"}
        /\ \E to \in {"wait", "check", "outputs"} : waiter' = [waiter EXCEPT ![t] = to]
    BY <1>7 DEF ReceiveAnswer, ReceiveData, Receive
  <2>2. reqMtx = t /\ Answer.op # "runTestHarness"
    BY <1>0, <1>2, <2>1, AnswerFacts DEF OwnerInv
  <2>3. \A u \in Trans : waiter'[u] \notin {"answer", "status", "data"}
    BY <1>1, <1>2, <2>1, <2>2 DEF OwnerInv
  <2>4. user' \notin {"accept", "gotTimeOut", "gotGraph"}
    BY <1>2, <2>1, <2>2, OwnerTypes DEF OwnerInv
  <2> QED BY <1>0, <2>1, <2>2, <2>3, <2>4, ExchangeTake
<1> QED BY <1>3, <1>4, <1>5, <1>6, <1>7 DEF WaiterStep, WaiterLock

LEMMA ExchangeUser ==
  ASSUME PipeInv, NewCall \/ UserLock \/ UserStep
  PROVE  ExchangeInv'
<1> USE DEF Step, transVars, mtxVars, wireVars
<1>0. ServerInv /\ CallInv /\ ExchangeInv
  BY DEF PipeInv
<1>1. waiter \in [Trans -> WaiterPCs] /\ call \in Call /\ trans_id \in Nat
  BY <1>0 DEF CallInv, PipeTypeOK
<1>2. OwnerInv
  BY <1>0 DEF ExchangeInv
<1>3. ASSUME UNCHANGED <<vars, requests, replies, reqMtx, waiter>>,
             trans_id' = trans_id \/ user = "idle",
             {user, user'} \cap {"accept", "gotTimeOut", "gotGraph",
                                 "closed", "terminated"} = {}
      PROVE  ExchangeInv'
  BY <1>0, <1>3, ExchangeSilent
<1>4. CASE RunTestHarnessCall \/ RejectedLocally
  BY <1>3, <1>4 DEF RunTestHarnessCall, RejectedLocally
<1>5. ASSUME NEW number, NEW ms, WaitForRes(number, ms)
      PROVE  ExchangeInv'
  BY <1>3, <1>5 DEF WaitForRes
<1>6. CASE LimitOldest \/ JoinOldest
  BY <1>3, <1>6 DEF LimitOldest, JoinOldest
<1>7. CASE EndLoop
  BY <1>3, <1>7 DEF EndLoop
<1>8. ASSUME NEW r \in Requests, reqMtx = NoTrans, requests' = Append(requests, r),
             r.op \in Asking, AskedBy(r)', reqMtx' = User, UNCHANGED <<vars, replies, waiter>>,
             user \in {"run", "getTimeOut", "graph"},
             user' \in {"accept", "gotTimeOut", "gotGraph"}
      PROVE  ExchangeInv'
  <2>1. \A u \in Trans : waiter'[u] \in {"answer", "status", "data"} <=> reqMtx' = u
    BY <1>2, <1>8, OwnerTypes DEF OwnerInv
  <2> QED BY <1>0, <1>8, <2>1, ExchangeAsk
<1>9. CASE SendRun
  <2>0. PICK r \in Requests : r = [op |-> "runTestHarness", trans |-> NoTrans, arg |-> MemUse[trans_id]]
    BY <1>0, <1>9, MemUseAssumption DEF SendRun, CallInv, Requests
  <2>1. r.op \in Asking /\ AskedBy(r)'
    BY <1>9, <2>0 DEF SendRun, Ask, Asking, AskedBy
  <2>2. /\ reqMtx = NoTrans /\ requests' = Append(requests, r) /\ reqMtx' = User
        /\ UNCHANGED <<vars, replies, waiter>> /\ user = "run" /\ user' = "accept"
    BY <1>9, <2>0 DEF SendRun, Ask, Send
  <2> QED BY <1>8, <2>1, <2>2
<1>10. CASE SendGetTimeOut
  <2> DEFINE r == [op |-> "getTimeOut", trans |-> NoTrans, arg |-> 0]
  <2>1. r \in Requests /\ r.op \in Asking /\ AskedBy(r)'
    BY <1>10 DEF SendGetTimeOut, Ask, Requests, Asking, AskedBy
  <2>2. /\ reqMtx = NoTrans /\ requests' = Append(requests, r) /\ reqMtx' = User
        /\ UNCHANGED <<vars, replies, waiter>> /\ user = "getTimeOut" /\ user' = "gotTimeOut"
    BY <1>10 DEF SendGetTimeOut, Ask, Send
  <2> HIDE DEF r
  <2> QED BY <1>8, <2>1, <2>2
<1>11. CASE SendWaitForGraph
  <2>0. PICK r \in Requests : r = [op |-> "waitForGraph", trans |-> NoTrans, arg |-> call.ms]
    BY <1>1 DEF Requests, Call
  <2>1. r.op \in Asking /\ AskedBy(r)'
    BY <1>11, <2>0 DEF SendWaitForGraph, Ask, Asking, AskedBy
  <2>2. /\ reqMtx = NoTrans /\ requests' = Append(requests, r) /\ reqMtx' = User
        /\ UNCHANGED <<vars, replies, waiter>> /\ user = "graph" /\ user' = "gotGraph"
    BY <1>11, <2>0 DEF SendWaitForGraph, Ask, Send
  <2> QED BY <1>8, <2>1, <2>2
<1>12. ASSUME replies # << >>, replies' = Tail(replies), reqMtx' = NoTrans,
              UNCHANGED <<vars, requests, waiter>>,
              Answer.op = "runTestHarness" => ~Answer.accepted,
              user \in {"accept", "gotTimeOut", "gotGraph"},
              user' \notin {"accept", "gotTimeOut", "gotGraph"}
       PROVE  ExchangeInv'
  <2>1. \A u \in Trans : waiter'[u] \notin {"answer", "status", "data"}
    BY <1>2, <1>12, OwnerTypes DEF OwnerInv
  <2> QED BY <1>0, <1>12, <2>1, ExchangeTake
<1>13. CASE RunRefused
  BY <1>12, <1>13 DEF RunRefused, Answered, Receive
<1>14. CASE GotTimeOut \/ GotGraph
  <2>1. Answer.op # "runTestHarness"
    BY <1>0, <1>14, AnswerFacts DEF GotTimeOut, GotGraph, Answered, Receive
  <2> QED BY <1>12, <1>14, <2>1 DEF GotTimeOut, GotGraph, Answered, Receive
<1>15. ASSUME NEW r \in Requests, reqMtx = NoTrans, requests' = Append(requests, r),
              UNCHANGED <<vars, replies, reqMtx, waiter, trans_id>>,
              user \in {"extend", "restore", "idle"},
              user' \notin {"accept", "gotTimeOut", "gotGraph"},
              r.op = "setTimeOut" \/ (r.op = "destroy" /\ user' \in {"closed", "terminated"})
       PROVE  ExchangeInv'
  BY <1>0, <1>15, ExchangeTell
<1>16. CASE ExtendTimeOut
  <2> DEFINE r == [op |-> "setTimeOut", trans |-> NoTrans,
                   arg |-> Seconds(call.ms) + call.server_timeout]
  <2>1. r \in Requests
    BY <1>1 DEF Requests, Call, Seconds
  <2>2. requests' = Append(requests, r) /\ r.op = "setTimeOut"
    BY <1>16 DEF ExtendTimeOut, Tell, Send
  <2> HIDE DEF r
  <2> QED BY <1>15, <1>16, <2>1, <2>2 DEF ExtendTimeOut, Tell, Send
<1>17. CASE RestoreTimeOut
  <2> DEFINE r == [op |-> "setTimeOut", trans |-> NoTrans, arg |-> call.server_timeout]
  <2>1. r \in Requests /\ r.op = "setTimeOut"
    BY <1>1 DEF Requests, Call
  <2>2. CASE Tell("setTimeOut", call.server_timeout)
    <3>1. requests' = Append(requests, r)
      BY <2>2 DEF Tell, Send
    <3> HIDE DEF r
    <3> QED BY <1>15, <1>17, <2>1, <2>2, <3>1 DEF RestoreTimeOut, Tell, Send
  <2>3. CASE UNCHANGED <<wireVars, mtxVars>>
    BY <1>3, <1>17, <2>3 DEF RestoreTimeOut
  <2> QED BY <1>17, <2>2, <2>3 DEF RestoreTimeOut
<1>18. CASE Destroy
  <2> DEFINE r == [op |-> "destroy", trans |-> NoTrans, arg |-> 0]
  <2>1. r \in Requests /\ r.op = "destroy"
    BY DEF Requests
  <2>2. requests' = Append(requests, r)
    BY <1>18 DEF Destroy, Tell, Send
  <2> HIDE DEF r
  <2> QED BY <1>15, <1>18, <2>1, <2>2 DEF Destroy, Tell, Send
<1>19. CASE RunAccepted
  <2> DEFINE r == [op |-> "data", trans |-> trans_id, arg |-> 0]
  <2>1. /\ trans_id \in Trans /\ replies # << >> /\ replies' = Tail(replies) /\ user = "accept"
        /\ requests' = Append(requests, r) /\ reqMtx' = NoTrans /\ user' = "idle"
        /\ waiter' = [waiter EXCEPT ![trans_id] = "lockQuery"] /\ UNCHANGED vars
        /\ Answer.accepted
    BY <1>0, <1>19 DEF RunAccepted, CallInv
  <2>2. /\ replies' = << >> /\ requests = << >> /\ AnsweredTo(Answer)
        /\ Answer.op = "runTestHarness"
    BY <1>0, <2>1, AnswerFacts
  <2>3. session = "receiving" /\ announced = MemUse[trans_id] /\ reqMtx = User
    BY <2>1, <2>2 DEF AnsweredTo
  <2>4. /\ DOMAIN requests' = {1} /\ requests'[1] = r /\ Len(requests') = 1
        /\ requests' # << >> /\ Head(requests') = r
    BY <2>1, <2>2, FirstFacts
  <2>5. UNCHANGED <<session, announced>>
    BY <2>1 DEF vars, sessionVars
  <2>6. \A u \in Trans : waiter'[u] \notin {"answer", "status", "data"}
    BY <1>1, <1>2, <2>1, <2>3, OwnerTypes DEF OwnerInv
  <2>7. RequestsInv' /\ RepliesInv'
    BY <2>1, <2>2, <2>3, <2>4, <2>5 DEF RequestsInv, RepliesInv, Asking
  <2>8. OwnerInv'
    BY <2>1, <2>2, <2>3, <2>4, <2>5, <2>6, OwnerTypes DEF OwnerInv, MgrUp
  <2> QED BY <2>7, <2>8 DEF ExchangeInv
<1> QED BY <1>4, <1>5, <1>6, <1>7, <1>9, <1>10, <1>11, <1>13, <1>14, <1>16, <1>17,
        <1>18, <1>19 DEF NewCall, UserLock, UserStep

LEMMA ExchangeStep ==
  ASSUME PipeInv, [PipeNext]_pipeVars
  PROVE  ExchangeInv'
<1>0. ServerInv /\ IInv /\ CallInv /\ ExchangeInv
  BY DEF PipeInv, ServerInv
<1>1. CASE SessionThread
  BY <1>0, <1>1, ExchangeSession
<1>2. ASSUME Background
      PROVE  ExchangeInv'
  BY <1>0, <1>2, ExchangeSame
<1> QED BY <1>0, <1>1, <1>2, BackgroundEffects, ExchangeWaiter, ExchangeUser DEF PipeNext

-----------------------------------------------------------------------------
(* Progress: the order of identifiers.                                     *)

LEMMA IncreasingFacts ==
  ASSUME NEW s \in Seq(Trans), Increasing(s)
  PROVE  /\ s # << >> => Increasing(Tail(s)) /\ \A u \in Range(s) : Head(s) <= u
         /\ \A x \in Trans : (\A u \in Range(s) : u < x) => Increasing(Append(s, x))
<1>0. Trans \subseteq Nat
  BY Numbers
<1>1. /\ Len(s) \in Nat /\ DOMAIN s = 1 .. Len(s)
      /\ \A i \in DOMAIN s : s[i] \in Trans /\ s[i] \in Range(s)
  BY LenProperties, ElementOfSeq DEF Range
<1>2. ASSUME s # << >>
      PROVE  Increasing(Tail(s)) /\ \A u \in Range(s) : Head(s) <= u
  <2>1. /\ Head(s) = s[1] /\ 1 \in DOMAIN s
        /\ DOMAIN Tail(s) = 1 .. Len(s) - 1
        /\ \A i \in DOMAIN Tail(s) : i + 1 \in DOMAIN s /\ Tail(s)[i] = s[i + 1]
    BY <1>2, PopFacts
  <2>2. ASSUME NEW i \in DOMAIN Tail(s), NEW j \in DOMAIN Tail(s), i < j
        PROVE  Tail(s)[i] < Tail(s)[j]
    <3>1. i + 1 \in DOMAIN s /\ j + 1 \in DOMAIN s /\ i + 1 < j + 1
      BY <1>1, <2>1, <2>2
    <3> QED BY <2>1, <3>1 DEF Increasing
  <2>3. ASSUME NEW i \in DOMAIN s
        PROVE  s[1] <= s[i]
    <3>1. i = 1 \/ 1 < i
      BY <1>1
    <3>2. s[1] \in Nat /\ s[i] \in Nat
      BY <1>0, <1>1, <2>1
    <3>3. 1 < i => s[1] < s[i]
      BY <2>1 DEF Increasing
    <3> QED BY <3>1, <3>2, <3>3
  <2> QED BY <2>1, <2>2, <2>3 DEF Increasing, Range
<1>3. ASSUME NEW x \in Trans, \A u \in Range(s) : u < x
      PROVE  Increasing(Append(s, x))
  <2>1. /\ DOMAIN Append(s, x) = 1 .. Len(s) + 1
        /\ \A i \in DOMAIN s : Append(s, x)[i] = s[i]
        /\ Append(s, x)[Len(s) + 1] = x
    BY PushFacts
  <2> SUFFICES ASSUME NEW i \in 1 .. Len(s) + 1, NEW j \in 1 .. Len(s) + 1, i < j
               PROVE  Append(s, x)[i] < Append(s, x)[j]
    BY <2>1 DEF Increasing
  <2>2. i \in DOMAIN s /\ (j \in DOMAIN s \/ j = Len(s) + 1)
    BY <1>1
  <2> QED BY <1>1, <1>3, <2>1, <2>2 DEF Increasing
<1> QED BY <1>2, <1>3

(* What is known and not deleted is queued, the oldest in front.           *)
LEMMA QueuedFacts ==
  ASSUME PipeInv, MgrUp, NEW t \in ids \ freed
  PROVE  /\ t \in Range(transactions) /\ transactions # << >>
         /\ Head(transactions) \in Range(transactions) /\ Head(transactions) <= t
         /\ First(t) => t = Head(transactions)
<1>1. transactions \in Seq(Trans) /\ Increasing(transactions)
  BY DEF PipeInv, ServerInv, IInv, TypeOK, ProgressInv, KnownInv
<1>2. t \in Range(transactions)
  BY DEF PipeInv, ServerInv, OrderlyInv
<1>3. transactions # << >>
  BY <1>2, EmptyFacts
<1>4. Head(transactions) \in Range(transactions) /\ Head(transactions) <= t
      /\ Head(transactions) \in Trans /\ t \in Trans
  BY <1>1, <1>2, <1>3, IncreasingFacts, TailFacts, RangeOfSeq
<1>5. First(t) => t = Head(transactions)
  BY <1>4, Numbers DEF First
<1> QED BY <1>2, <1>3, <1>4, <1>5

(* A transaction is submitted before the server knows it, and data is only *)
(* on its way for one that the server does not know yet.                   *)
LEMMA TransitFacts ==
  ASSUME PipeInv
  PROVE  /\ \A t : InTransit(t) =>
              /\ t \in Trans /\ t \notin ids /\ session = "receiving"
              /\ requests # << >> /\ Head(requests).op = "data" /\ Head(requests).trans = t
         /\ requests # << >> /\ Head(requests).op = "data" =>
              InTransit(Head(requests).trans)
         /\ \A t \in Trans : Submitted(t) /\ ~InTransit(t) => t \in ids
<1>1. requests # << >> => Head(requests) = requests[1] /\ 1 \in DOMAIN requests
  BY PopFacts DEF PipeInv, CallInv, PipeTypeOK
<1>2. ASSUME NEW t, InTransit(t)
      PROVE  /\ t \in Trans /\ session = "receiving"
             /\ requests # << >> /\ Head(requests).op = "data" /\ Head(requests).trans = t
  <2>1. PICK i \in DOMAIN requests : requests[i].op = "data" /\ requests[i].trans = t
    BY <1>2 DEF InTransit
  <2>2. i = 1 /\ session = "receiving" /\ t \in Trans
    BY <2>1 DEF PipeInv, ExchangeInv, RequestsInv
  <2>3. requests # << >>
    BY <2>1, EmptySeq
  <2> QED BY <1>1, <2>1, <2>2, <2>3
<1>3. ASSUME NEW t \in Trans, InTransit(t)
      PROVE  t \notin ids
  BY <1>3, Numbers DEF PipeInv, ProgressInv, KnownInv
<1> QED BY <1>1, <1>2, <1>3 DEF InTransit, PipeInv, ProgressInv, KnownInv

(* This client's requests are never answered with an exception.            *)
LEMMA NeverRefused ==
  ASSUME PipeInv, SessionThread
  PROVE  session' # "failed"
<1> USE DEF Serve, vars, sessionVars
<1> DEFINE r == Head(requests)
<1>0. /\ ServerInv /\ CallInv /\ ExchangeInv /\ ProgressInv /\ session # "failed"
  BY DEF PipeInv, ProgressInv, NoServerFault
<1>1. requests # << >> /\ r.op \in Asking => AskedBy(r) /\ MgrUp /\ Tail(requests) = << >>
  BY <1>0, AskedFacts DEF ExchangeInv, OwnerInv
<1>2. requests # << >> /\ r.op = "data" => r.trans \notin ids
  BY TransitFacts
<1>3. requests # << >> /\ r.op \in {"queryTransactionStatus", "waitForTestHarness"} =>
        r.trans \in ids /\ r.trans \in Trans
  <2> SUFFICES ASSUME requests # << >>, r.op \in {"queryTransactionStatus", "waitForTestHarness"}
               PROVE  r.trans \in ids /\ r.trans \in Trans
    OBVIOUS
  <2>1. r.trans \in Trans /\ Submitted(r.trans)
    BY <1>1 DEF Asking, AskedBy, Submitted
  <2>2. ~InTransit(r.trans)
    BY TransitFacts
  <2> QED BY <2>1, <2>2, TransitFacts
<1> HIDE DEF r
<1>4. CASE ServeRun
  BY <1>4 DEF ServeRun, RefuseRun, AdmitRun
<1>5. CASE ServeData
  <2>1. CreateTransaction(r.trans) \/ RejectTransaction(r.trans, TRUE)
    BY <1>5 DEF ServeData, r
  <2>2. r.trans \notin ids
    BY <1>2, <1>5 DEF ServeData, r
  <2> QED BY <2>1, <2>2 DEF CreateTransaction, RejectTransaction
<1>6. CASE ServeSpawn
  BY <1>0, <1>6 DEF ServeSpawn, SpawnPL, ExchangeInv, OwnerInv
<1>7. CASE ServeQuery
  BY <1>0, <1>3, <1>7 DEF ServeQuery, QueryTransactionStatus, r
<1>8. CASE ServeWait
  <2> DEFINE t == r.trans
  <2>1. /\ requests # << >> /\ r.op = "waitForTestHarness" /\ session = "idle"
        /\ WaitForTestHarnessRequest(t, r.arg)
    BY <1>8 DEF ServeWait, WaitForTestHarnessRequest, r
  <2>2. MgrUp /\ t \in ids /\ t \in Trans /\ waiter[t] = "status"
    BY <1>1, <1>3, <2>1 DEF Asking, AskedBy
  <2>3. First(t)
    <3>1. 1 \in DOMAIN requests /\ r = requests[1]
      BY <1>0, <2>1, PopFacts DEF CallInv, PipeTypeOK, r
    <3> QED BY <1>0, <2>1, <2>2, <3>1 DEF ProgressInv, TurnInv
  <2>4. t = Head(transactions) /\ t \in Range(transactions)
    BY <2>2, <2>3, QueuedFacts DEF First
  <2>5. Range(transactions) = pl_threads /\ Len(transactions) = Cardinality(pl_threads)
    BY <1>0, <2>1, ThreadsMatch DEF ServerInv, ThreadPerTransaction
  <2>6. ~WaitRefused(t)
    BY <2>4, <2>5 DEF WaitRefused
  <2> QED BY <2>1, <2>6 DEF WaitForTestHarnessRequest
<1>9. CASE ServeResult
  BY <1>9 DEF ServeResult, DeliverResult, Deliver
<1>10. CASE ServeGetTimeOut \/ ServeSetTimeOut \/ ServeWaitForGraph
  BY <1>0, <1>10 DEF ServeGetTimeOut, ServeSetTimeOut, ServeWaitForGraph
<1>11. CASE ServeDestroy \/ ServeDestructor
  BY <1>0, <1>11 DEF ServeDestroy, DestroyMgr, ServeDestructor, DestructorStep, DeleteQueued,
                     ClearDeque, DestroyThreads
<1> QED BY <1>4, <1>5, <1>6, <1>7, <1>8, <1>9, <1>10, <1>11 DEF SessionThread

-----------------------------------------------------------------------------
(* Progress: what is known on both sides.                                  *)

LEMMA NoneInTransit ==
  ASSUME PipeInv, requests # << >>, requests' = Tail(requests)
  PROVE  \A t : ~InTransit(t)'
<1>1. \A i \in DOMAIN requests' : i + 1 \in DOMAIN requests /\ requests'[i] = requests[i + 1]
                                  /\ i + 1 # 1
  BY PopFacts DEF PipeInv, CallInv, PipeTypeOK
<1>2. \A i \in DOMAIN requests : requests[i].op = "data" => i = 1
  BY DEF PipeInv, ExchangeInv, RequestsInv
<1> QED BY <1>1, <1>2 DEF InTransit

LEMMA SameInTransit ==
  ASSUME CallInv, \/ requests' = requests
                  \/ \E r \in Requests : r.op # "data" /\ requests' = Append(requests, r)
  PROVE  \A t : InTransit(t)' <=> InTransit(t)
<1>1. CASE requests' = requests
  BY <1>1 DEF InTransit
<1>2. ASSUME NEW r \in Requests, r.op # "data", requests' = Append(requests, r)
      PROVE  \A t : InTransit(t)' <=> InTransit(t)
  <2>1. /\ DOMAIN requests = 1 .. Len(requests) /\ Len(requests) \in Nat
        /\ DOMAIN requests' = 1 .. Len(requests) + 1
        /\ \A i \in DOMAIN requests : requests'[i] = requests[i]
        /\ requests'[Len(requests) + 1] = r
    BY <1>2, PushFacts DEF CallInv, PipeTypeOK
  <2>2. /\ \A i \in DOMAIN requests : i \in DOMAIN requests'
        /\ \A i \in DOMAIN requests' : i \in DOMAIN requests \/ i = Len(requests) + 1
    BY <2>1
  <2>3. \A i \in DOMAIN requests' : requests'[i].op = "data" => i \in DOMAIN requests
    BY <1>2, <2>1, <2>2
  <2> QED BY <2>1, <2>2, <2>3 DEF InTransit
<1> QED BY <1>1, <1>2

LEMMA KnownSame ==
  ASSUME KnownInv, UNCHANGED <<ids, transactions, pending>>,
         \A t : InTransit(t)' <=> InTransit(t),
         \A t \in Trans : Submitted(t)' <=> Submitted(t),
         \A t \in Trans : t \notin Range(pending) => waiter'[t] = waiter[t],
         trans_id' = trans_id,
         user' \in {"run", "accept"} => user \in {"run", "accept"} /\ trans_id \in Trans,
         ids \subseteq Trans
  PROVE  KnownInv'
<1>1. user' \in {"run", "accept"} => ~Submitted(trans_id)'
  BY DEF KnownInv
<1> QED BY <1>1 DEF KnownInv

(* What a step of the session thread does to the server's transactions.    *)
LEMMA SessionEffects ==
  ASSUME PipeInv, SessionThread
  PROVE  /\ UNCHANGED clientVars
         /\ \/ /\ ServeData /\ CreateTransaction(Head(requests).trans)
            \/ ServeResult
            \/ ServeDestroy
            \/ ServeDestructor
            \/ /\ ~ServeData /\ ~ServeResult /\ ~ServeDestroy /\ ~ServeDestructor
               /\ UNCHANGED <<ids, freed, transactions>> /\ MgrUp'
               /\ \/ requests' = requests /\ session' = "idle"
                  \/ /\ requests # << >> /\ requests' = Tail(requests)
                     /\ Head(requests).op # "data"
<1> USE DEF SessionThread, Serve, vars, mgrVars, sessionVars, wireVars, Throw
<1> DEFINE Rest == /\ UNCHANGED <<ids, freed, transactions>> /\ MgrUp'
                   /\ \/ requests' = requests /\ session' = "idle"
                      \/ /\ requests # << >> /\ requests' = Tail(requests)
                         /\ Head(requests).op # "data"
<1>0. session' # "failed"
  BY NeverRefused
<1>1. CASE ServeData
  BY <1>0, <1>1 DEF ServeData, CreateTransaction, RejectTransaction
<1>2. ASSUME ServeRun
      PROVE  Rest
  BY <1>2 DEF ServeRun, RefuseRun, AdmitRun, MgrUp
<1>3. ASSUME ServeSpawn
      PROVE  Rest
  BY <1>0, <1>3 DEF ServeSpawn, SpawnPL, MgrUp
<1>4. ASSUME ServeQuery
      PROVE  Rest
  BY <1>0, <1>4 DEF ServeQuery, QueryTransactionStatus, MgrUp
<1>5. ASSUME ServeWait
      PROVE  Rest
  BY <1>0, <1>5 DEF ServeWait, WaitForTestHarnessRequest, MgrUp
<1>6. ASSUME ServeGetTimeOut \/ ServeSetTimeOut \/ ServeWaitForGraph
      PROVE  Rest
  BY <1>6 DEF ServeGetTimeOut, ServeSetTimeOut, ServeWaitForGraph, MgrUp
<1>7. CASE ServeDestructor
  BY <1>7
<1> QED BY <1>1, <1>2, <1>3, <1>4, <1>5, <1>6, <1>7

LEMMA KnownSession ==
  ASSUME PipeInv, SessionThread
  PROVE  KnownInv'
<1> USE DEF clientVars, transVars, userVars, mtxVars
<1>0. /\ UNCHANGED <<waiter, trans_id, user, pending>> /\ KnownInv
      /\ ids \subseteq Trans /\ transactions \in Seq(Trans) /\ ServerInv
  BY SessionEffects DEF PipeInv, ProgressInv, ServerInv, IInv, TypeOK
<1>1. \A t : Submitted(t)' <=> Submitted(t)
  BY <1>0 DEF Submitted
<1>2. CASE ServeData /\ CreateTransaction(Head(requests).trans)
  <2> DEFINE t == Head(requests).trans
  <2>1. /\ requests # << >> /\ requests' = Tail(requests) /\ Head(requests).op = "data"
        /\ ids' = ids \cup {t} /\ transactions' = Append(transactions, t)
        /\ session = "receiving"
    BY <1>2 DEF ServeData, Serve, CreateTransaction
  <2>2. InTransit(t) /\ \A u : ~InTransit(u)'
    BY <2>1, TransitFacts, NoneInTransit
  <2>3. \A u : InTransit(u) => u = t
    BY TransitFacts
  <2>4. t \in Trans /\ Submitted(t) /\ \A u \in ids : u < t
    BY <2>2, TransitFacts, <1>0 DEF KnownInv
  <2>5. Range(transactions) \subseteq ids
    BY <1>0, <2>1 DEF ServerInv, IInv, DequeInv, MgrUp
  <2> HIDE DEF t
  <2>6. Increasing(transactions')
    BY <1>0, <2>1, <2>4, <2>5, IncreasingFacts DEF KnownInv
  <2>7. \A u \in Trans : Submitted(u)' => u \in ids'
    BY <1>0, <1>1, <2>1, <2>3 DEF KnownInv
  <2> QED BY <1>0, <1>1, <2>1, <2>2, <2>4, <2>6, <2>7 DEF KnownInv
<1>3. CASE ServeResult
  <2>1. /\ UNCHANGED <<ids, requests>> /\ transactions' = Tail(transactions)
        /\ transactions # << >>
    BY <1>0, <1>3 DEF ServeResult, DeliverResult, Deliver, ServerInv, IInv, RequestInv
  <2>2. Increasing(transactions')
    BY <1>0, <2>1, IncreasingFacts DEF KnownInv
  <2>3. \A t : InTransit(t)' <=> InTransit(t)
    BY <2>1 DEF InTransit
  <2> QED BY <1>0, <1>1, <2>1, <2>2, <2>3 DEF KnownInv
<1>4. CASE ServeDestroy
  <2>1. /\ UNCHANGED <<ids, transactions>>
        /\ requests # << >> /\ requests' = Tail(requests)
        /\ session # "receiving"
    BY <1>4 DEF ServeDestroy, DestroyMgr, Serve, mgrVars
  <2>2. \A t : ~InTransit(t)' /\ ~InTransit(t)
    BY <2>1, NoneInTransit, TransitFacts
  <2> QED BY <1>0, <1>1, <2>1, <2>2 DEF KnownInv, Increasing
<1>6. CASE ServeDestructor
  <2>1. UNCHANGED <<ids, requests>> /\ (transactions' = transactions \/ transactions' = << >>)
    BY <1>6 DEF ServeDestructor, DestructorStep, DeleteQueued, ClearDeque, DestroyThreads,
                mgrVars, wireVars
  <2>2. \A t : InTransit(t)' <=> InTransit(t)
    BY <2>1 DEF InTransit
  <2> QED BY <1>0, <1>1, <2>1, <2>2 DEF KnownInv, Increasing
<1>5. ASSUME UNCHANGED <<ids, transactions>>,
             \/ requests' = requests
             \/ requests # << >> /\ requests' = Tail(requests) /\ Head(requests).op # "data"
      PROVE  KnownInv'
  <2>1. \A t : InTransit(t)' <=> InTransit(t)
    <3>1. CASE requests' = requests
      BY <3>1 DEF InTransit
    <3>2. CASE requests # << >> /\ requests' = Tail(requests) /\ Head(requests).op # "data"
      BY <3>2, NoneInTransit, TransitFacts
    <3> QED BY <1>5, <3>1, <3>2
  <2> QED BY <1>0, <1>1, <1>5, <2>1 DEF KnownInv
<1> QED BY <1>2, <1>3, <1>4, <1>5, <1>6, SessionEffects

LEMMA WaiterEffects ==
  ASSUME PipeInv, NEW t \in Trans, WaiterStep(t) \/ WaiterLock(t)
  PROVE  /\ UNCHANGED <<vars, userVars, interval>>
         /\ waiter[t] \notin {"none", "exited"} /\ t \in Range(pending)
         /\ \E to \in WaiterPCs \ {"none"} : waiter' = [waiter EXCEPT ![t] = to]
         /\ \/ requests' = requests
            \/ \E r \in Requests : r.op # "data" /\ requests' = Append(requests, r)
<1> USE DEF Wait
<1>1. waiter[t] \notin {"none", "exited"} /\ ClientUp
  BY DEF WaiterStep, WaiterLock, CheckLimit, ReceiveAnswer, ReceiveStatus,
     ReceiveData, HandleOutputs, LockQuery, SendQuery, SendWait
<1>2. /\ UNCHANGED <<vars, userVars, interval>>
      /\ \E to \in WaiterPCs \ {"none"} : waiter' = [waiter EXCEPT ![t] = to]
  BY DEF WaiterStep, WaiterLock, CheckLimit, ReceiveAnswer, ReceiveStatus,
     ReceiveData, HandleOutputs, LockQuery, SendQuery, SendWait, WaiterPCs
<1>3. ASSUME SendQuery(t) \/ SendWait(t)
      PROVE  \E r \in Requests : r.op # "data" /\ requests' = Append(requests, r)
  <2> DEFINE r(op, n) == [op |-> op, trans |-> t, arg |-> n]
  <2>1. clientLimit[t] \in Nat
    BY DEF PipeInv, CallInv, PipeTypeOK
  <2>2. r("queryTransactionStatus", 0) \in Requests
        /\ r("waitForTestHarness", clientLimit[t]) \in Requests
    BY <2>1 DEF Requests
  <2> QED BY <1>3, <2>2 DEF SendQuery, SendWait, Send
<1>4. ASSUME ~(SendQuery(t) \/ SendWait(t))
      PROVE  requests' = requests
  BY <1>4 DEF WaiterStep, WaiterLock, CheckLimit, ReceiveAnswer, ReceiveStatus,
     ReceiveData, HandleOutputs, LockQuery, Receive, wireVars
<1>5. t \in Range(pending)
  BY <1>1, WaiterOpen
<1> QED BY <1>1, <1>2, <1>3, <1>4, <1>5

LEMMA KnownWaiter ==
  ASSUME PipeInv, NEW t \in Trans, WaiterStep(t) \/ WaiterLock(t)
  PROVE  KnownInv'
<1>1. /\ UNCHANGED <<vars, userVars>> /\ t \in Range(pending)
      /\ waiter[t] # "none" /\ waiter \in [Trans -> WaiterPCs]
      /\ \E to \in WaiterPCs \ {"none"} : waiter' = [waiter EXCEPT ![t] = to]
  BY WaiterEffects DEF PipeInv, CallInv, PipeTypeOK
<1>2. \A u \in Trans : Submitted(u)' <=> Submitted(u)
  BY <1>1 DEF Submitted
<1>3. \A u : InTransit(u)' <=> InTransit(u)
  BY WaiterEffects, SameInTransit DEF PipeInv
<1>4. KnownInv /\ ids \subseteq Trans
  BY DEF PipeInv, ProgressInv, ServerInv, IInv, TypeOK
<1>5. user \in {"run", "accept"} => trans_id \in Trans
  BY DEF PipeInv, CallInv
<1>6. /\ UNCHANGED <<ids, transactions, pending, user, trans_id>>
      /\ \A u \in Trans : u \notin Range(pending) => waiter'[u] = waiter[u]
  BY <1>1 DEF vars, mgrVars, userVars
<1> QED BY <1>2, <1>3, <1>4, <1>5, <1>6, KnownSame

(* Few of the application's steps change what is pending.                  *)
LEMMA UserEffects ==
  ASSUME PipeInv, NewCall \/ UserLock \/ UserStep
  PROVE  /\ UNCHANGED <<vars, interval>>
         /\ \/ RunTestHarnessCall \/ RejectedLocally \/ RunAccepted \/ JoinOldest
            \/ /\ UNCHANGED <<trans_id, pending, waiter>>
               /\ user' \in {"run", "accept"} => user = "run"
               /\ \/ requests' = requests
                  \/ \E r \in Requests : /\ r.op \notin {"data", "waitForTestHarness"}
                                         /\ requests' = Append(requests, r)
<1> USE DEF Step, transVars, mtxVars, wireVars
<1>0. trans_id \in Nat /\ call \in Call /\ (user = "run" => trans_id \in Trans)
  BY DEF PipeInv, CallInv, PipeTypeOK
<1>1. ASSUME NEW op \in {"runTestHarness", "getTimeOut", "setTimeOut",
                         "waitForGraph", "destroy"}, NEW n \in Nat
      PROVE  [op |-> op, trans |-> NoTrans, arg |-> n] \in Requests
  BY DEF Requests
<1>2. UNCHANGED <<vars, interval>>
  BY ClientLeavesServer
<1>3. CASE SendRun
  <2>1. MemUse[trans_id] \in Nat
    BY <1>0, <1>3, MemUseAssumption DEF SendRun
  <2> QED BY <1>1, <1>2, <1>3, <2>1 DEF SendRun, Ask, Send
<1>4. CASE SendGetTimeOut \/ Destroy
  BY <1>1, <1>2, <1>4 DEF SendGetTimeOut, Destroy, Ask, Tell, Send
<1>5. CASE ExtendTimeOut
  <2>1. Seconds(call.ms) + call.server_timeout \in Nat
    <3>1. call.ms \in Nat /\ call.server_timeout \in Nat
      BY <1>0 DEF Call
    <3>2. Seconds(call.ms) \in Nat
      BY <3>1, SecondsType
    <3> QED BY <3>1, <3>2
  <2> QED BY <1>1, <1>2, <1>5, <2>1 DEF ExtendTimeOut, Tell, Send
<1>6. CASE SendWaitForGraph
  <2>1. call.ms \in Nat
    BY <1>0 DEF Call
  <2> QED BY <1>1, <1>2, <1>6, <2>1 DEF SendWaitForGraph, Ask, Send
<1>7. CASE RestoreTimeOut
  <2>1. call.server_timeout \in Nat
    BY <1>0 DEF Call
  <2> QED BY <1>1, <1>2, <1>7, <2>1 DEF RestoreTimeOut, Tell, Send
<1>8. ASSUME NEW number, NEW ms, WaitForRes(number, ms)
      PROVE  UNCHANGED <<trans_id, pending, waiter, requests>> /\ user' \notin {"run", "accept"}
  BY <1>8 DEF WaitForRes
<1>9. CASE RunRefused \/ GotTimeOut \/ LimitOldest \/ EndLoop \/ GotGraph
  BY <1>2, <1>9 DEF RunRefused, GotTimeOut, LimitOldest, EndLoop, GotGraph, Answered, Receive
<1> QED BY <1>2, <1>3, <1>4, <1>5, <1>6, <1>7, <1>8, <1>9 DEF NewCall, UserLock, UserStep

(* The step that submits a transaction.                                    *)
LEMMA SubmitFacts ==
  ASSUME PipeInv, RunAccepted
  PROVE  /\ trans_id \in Trans /\ ~Submitted(trans_id)
         /\ trans_id \notin ids /\ trans_id \notin Range(pending)
         /\ \A u \in Trans : Submitted(u) => u < trans_id
         /\ waiter' = [waiter EXCEPT ![trans_id] = "lockQuery"]
         /\ waiter \in [Trans -> WaiterPCs]
         /\ pending' = Append(pending, trans_id) /\ pending \in Seq(Trans)
         /\ Range(pending') = Range(pending) \cup {trans_id}
         /\ requests = << >> /\ replies' = << >>
         /\ requests' = Append(<< >>, [op |-> "data", trans |-> trans_id, arg |-> 0])
         /\ \A t : InTransit(t)' <=> t = trans_id
         /\ \A t : ~InTransit(t)
         /\ UNCHANGED <<vars, trans_id, clientLimit, clientData, output>>
         /\ user' = "idle" /\ session = "receiving"
<1>1. /\ PipeTypeOK /\ trans_id \in Trans /\ KnownInv /\ CallInv /\ ExchangeInv
  BY DEF PipeInv, CallInv, ProgressInv, RunAccepted, Step
<1>2. /\ ~Submitted(trans_id) /\ trans_id \notin ids /\ trans_id \notin Range(pending)
      /\ \A u \in Trans : Submitted(u) => u <= trans_id
  BY <1>1 DEF KnownInv, RunAccepted, Step
<1>3. \A u \in Trans : Submitted(u) => u < trans_id
  BY <1>1, <1>2, Numbers
<1>4. /\ requests = << >> /\ Tail(replies) = << >> /\ AnsweredTo(Answer)
      /\ Answer.op = "runTestHarness" /\ Answer.accepted
  BY <1>1, AnswerFacts DEF RunAccepted, Step
<1>5. requests' = Append(<< >>, [op |-> "data", trans |-> trans_id, arg |-> 0])
      /\ replies' = << >>
  BY <1>4 DEF RunAccepted
<1>6. \A t : (InTransit(t)' <=> t = trans_id) /\ ~InTransit(t)
  BY <1>4, <1>5, FirstFacts DEF InTransit
<1>7. Range(pending') = Range(pending) \cup {trans_id}
  BY <1>1, AppendFacts DEF RunAccepted, PipeTypeOK
<1> QED BY <1>1, <1>2, <1>3, <1>4, <1>5, <1>6, <1>7
        DEF RunAccepted, Step, PipeTypeOK, AnsweredTo

(* The step that collects one.                                             *)
LEMMA JoinFacts ==
  ASSUME PipeInv, JoinOldest
  PROVE  /\ pending # << >> /\ pending \in Seq(Trans) /\ pending' = Tail(pending)
         /\ waiter[Head(pending)] = "exited" /\ Head(pending) \in Range(pending)
         /\ Range(pending) = {Head(pending)} \cup Range(pending')
         /\ UNCHANGED <<vars, transVars, mtxVars, trans_id, waiter, wireVars>>
         /\ user = "join" /\ user' = "loop"
BY TailFacts DEF PipeInv, CallInv, PipeTypeOK, JoinOldest, Step

LEMMA KnownUser ==
  ASSUME PipeInv, NewCall \/ UserLock \/ UserStep
  PROVE  KnownInv'
<1>0. /\ KnownInv /\ ids \subseteq Trans /\ trans_id \in Nat /\ CallInv
      /\ UNCHANGED <<ids, transactions>>
  BY UserEffects DEF PipeInv, ProgressInv, ServerInv, IInv, TypeOK, CallInv, PipeTypeOK,
     vars, mgrVars
<1>1. user \in {"run", "accept"} => trans_id \in Trans
  BY <1>0 DEF CallInv
<1>2. CASE RunTestHarnessCall \/ RejectedLocally
  <2>1. /\ UNCHANGED <<pending, waiter, requests>> /\ trans_id' = trans_id + 1
        /\ trans_id' \in Trans
    BY <1>2 DEF RunTestHarnessCall, RejectedLocally, wireVars
  <2>2. \A t \in Trans : t <= trans_id => t <= trans_id' /\ t # trans_id'
    BY <1>0, <2>1, Numbers
  <2>3. \A t : InTransit(t)' <=> InTransit(t)
    BY <2>1 DEF InTransit
  <2>4. ~Submitted(trans_id)'
    BY <1>0, <2>1, <2>2 DEF KnownInv, Submitted
  <2> QED BY <1>0, <2>1, <2>2, <2>3, <2>4 DEF KnownInv, Submitted
<1>3. CASE RunAccepted
  <2>1. \A t \in Trans : Submitted(t)' <=> Submitted(t) \/ t = trans_id
    BY <1>3, SubmitFacts DEF Submitted
  <2>2. Increasing(pending')
    <3>1. /\ pending' = Append(pending, trans_id) /\ pending \in Seq(Trans)
          /\ trans_id \in Trans /\ Increasing(pending)
      BY <1>0, <1>3, SubmitFacts DEF KnownInv
    <3>2. \A u \in Range(pending) : u < trans_id
      BY <1>0, <1>3, SubmitFacts DEF KnownInv
    <3> QED BY <3>1, <3>2, IncreasingFacts
  <2>3. \A t \in Trans : t # trans_id => waiter'[t] = waiter[t]
    BY <1>3, SubmitFacts
  <2>4. trans_id' = trans_id /\ user' = "idle" /\ trans_id <= trans_id
    BY <1>0, <1>3, SubmitFacts
  <2>5. \A u \in ids : u < trans_id
    BY <1>0, <1>3, SubmitFacts DEF KnownInv
  <2> QED BY <1>0, <1>3, SubmitFacts, <2>1, <2>2, <2>3, <2>4, <2>5 DEF KnownInv
<1>4. CASE JoinOldest
  <2>1. Increasing(pending')
    BY <1>0, <1>4, JoinFacts, IncreasingFacts DEF KnownInv
  <2>2. \A t : (InTransit(t)' <=> InTransit(t)) /\ (Submitted(t)' <=> Submitted(t))
    BY <1>4, JoinFacts DEF InTransit, Submitted, wireVars
  <2>3. user' \notin {"run", "accept"} /\ UNCHANGED <<waiter, trans_id>>
    BY <1>4, JoinFacts
  <2> QED BY <1>0, <1>4, JoinFacts, <2>1, <2>2, <2>3 DEF KnownInv
<1>5. ASSUME UNCHANGED <<trans_id, pending, waiter>>,
             user' \in {"run", "accept"} => user = "run",
             \/ requests' = requests
             \/ \E r \in Requests : r.op \notin {"data", "waitForTestHarness"}
                                    /\ requests' = Append(requests, r)
      PROVE  KnownInv'
  <2>1. \A u : InTransit(u)' <=> InTransit(u)
    BY <1>0, <1>5, SameInTransit
  <2>2. \A u : Submitted(u)' <=> Submitted(u)
    BY <1>5 DEF Submitted
  <2> QED BY <1>0, <1>1, <1>5, <2>1, <2>2, KnownSame
<1> QED BY <1>2, <1>3, <1>4, <1>5, UserEffects

LEMMA KnownStep ==
  ASSUME PipeInv, [PipeNext]_pipeVars
  PROVE  KnownInv'
<1>1. ASSUME Background
      PROVE  KnownInv'
  BY <1>1 DEF Background, clientVars, wireVars, transVars, userVars, mtxVars, PipeInv,
     ProgressInv, KnownInv, InTransit, Submitted
<1> QED BY <1>1, KnownSession, KnownWaiter, KnownUser, BackgroundEffects
        DEF PipeNext, PipeInv, ServerInv

-----------------------------------------------------------------------------
(* Progress: whose turn it is.                                             *)

LEMMA OldRequests ==
  ASSUME CallInv, \/ requests' = requests
                  \/ requests # << >> /\ requests' = Tail(requests)
                  \/ \E r \in Requests : /\ r.op # "waitForTestHarness"
                                         /\ requests' = Append(requests, r)
  PROVE  \A i \in DOMAIN requests' : requests'[i].op = "waitForTestHarness" =>
           \E j \in DOMAIN requests : requests'[i] = requests[j]
<1>1. CASE requests # << >> /\ requests' = Tail(requests)
  BY <1>1, PopFacts DEF CallInv, PipeTypeOK
<1>2. ASSUME NEW r \in Requests, r.op # "waitForTestHarness", requests' = Append(requests, r),
             NEW i \in DOMAIN requests', requests'[i].op = "waitForTestHarness"
      PROVE  \E j \in DOMAIN requests : requests'[i] = requests[j]
  <2>1. /\ DOMAIN requests = 1 .. Len(requests) /\ Len(requests) \in Nat
        /\ DOMAIN requests' = 1 .. Len(requests) + 1
        /\ \A k \in DOMAIN requests : requests'[k] = requests[k]
        /\ requests'[Len(requests) + 1] = r
    BY <1>2, PushFacts DEF CallInv, PipeTypeOK
  <2>2. \A k \in DOMAIN requests' : k \in DOMAIN requests \/ k = Len(requests) + 1
    BY <1>2, PushFacts DEF CallInv, PipeTypeOK
  <2>3. i \in DOMAIN requests
    BY <1>2, <2>1, <2>2
  <2> QED BY <2>1, <2>3
<1> QED BY <1>1, <1>2

TurnOf(u) ==
  /\ waiter[u] \in {"data", "outputs", "exited"} => u \in freed
  /\ MgrUp /\ u \in freed => waiter[u] \in {"status", "data", "outputs", "exited"}
  /\ MgrUp /\ waiter[u] = "wait" => First(u)
  /\ clientLimit[u] # 0 =>
       waiter[u] = "exited" \/ (pending # << >> /\ u = Head(pending))

(* The client's steps leave the server alone.                              *)
LEMMA TurnClient ==
  ASSUME PipeInv, UNCHANGED vars, replies' = replies \/ replies' = << >>,
         \A i \in DOMAIN requests' : requests'[i].op = "waitForTestHarness" =>
            \/ \E j \in DOMAIN requests : requests'[i] = requests[j]
            \/ First(requests'[i].trans),
         \A u \in Trans : TurnOf(u)'
  PROVE  TurnInv'
<1>1. TurnInv /\ freed \subseteq Trans
  BY DEF PipeInv, ProgressInv, ServerInv, IInv, TypeOK
<1>2. UNCHANGED <<freed, transactions, session>>
  BY DEF vars, mgrVars, sessionVars
<1>3. MgrUp' = MgrUp /\ \A u : First(u)' = First(u)
  BY <1>2 DEF MgrUp, First
<1>4. MgrUp => \A i \in DOMAIN requests' :
        requests'[i].op = "waitForTestHarness" => First(requests'[i].trans)
  BY <1>1 DEF TurnInv
<1>5. MgrUp /\ replies' # << >> /\ Answer'.op = "queryTransactionStatus" =>
        (Answer'.status \in {"DONE", "TIMEOUT"} => First(Answer'.trans))
  BY <1>1 DEF TurnInv, Answer
<1> QED BY <1>1, <1>2, <1>3, <1>4, <1>5 DEF TurnInv, TurnOf, First, MgrUp

LEMMA TurnOfEach ==
  ASSUME PipeInv, NEW u \in Trans
  PROVE  TurnOf(u)
BY DEF PipeInv, ProgressInv, TurnInv, TurnOf

(* The transaction a limit is given to is the oldest.                      *)
LEMMA LimitedIsFirst ==
  ASSUME PipeInv, MgrUp, NEW t \in Trans, clientLimit[t] # 0, waiter[t] = "check"
  PROVE  First(t)
<1>1. pending # << >> /\ t = Head(pending) /\ t \notin freed
  BY DEF PipeInv, ProgressInv, TurnInv
<1>2. ASSUME NEW u \in Range(transactions)
      PROVE  t <= u
  <2>1. u \in ids /\ u \notin freed /\ u \in Trans
    BY DEF PipeInv, ServerInv, IInv, DequeInv, TypeOK
  <2>2. u \in Range(pending)
    BY <2>1 DEF PipeInv, ProgressInv, KnownInv, TurnInv
  <2> QED BY <1>1, <2>2, IncreasingFacts DEF PipeInv, CallInv, PipeTypeOK, ProgressInv, KnownInv
<1> QED BY <1>1, <1>2 DEF First

LEMMA TurnWaiter ==
  ASSUME PipeInv, NEW t \in Trans, WaiterStep(t) \/ WaiterLock(t)
  PROVE  TurnInv'
<1> USE DEF Wait, userVars, transVars, mtxVars, wireVars
<1>0. /\ CallInv /\ ExchangeInv /\ TurnInv /\ StoreInv
      /\ waiter \in [Trans -> WaiterPCs]
      /\ UNCHANGED <<vars, pending, user>> /\ waiter[t] \notin {"none", "exited"}
      /\ \E to \in WaiterPCs \ {"none"} : waiter' = [waiter EXCEPT ![t] = to]
  BY WaiterEffects DEF PipeInv, CallInv, PipeTypeOK, ProgressInv
<1>1. UNCHANGED <<freed, session, transactions>>
  BY <1>0 DEF vars, mgrVars, sessionVars
<1>2. MgrUp
  <2>1. user \notin {"closed", "terminated"}
    BY <1>0, WaiterOpen DEF WaiterStep, WaiterLock, CheckLimit, ReceiveAnswer, ReceiveStatus,
       ReceiveData, HandleOutputs, LockQuery, SendQuery, SendWait
  <2> QED BY <1>0, <2>1 DEF ExchangeInv, OwnerInv
<1>3. UNCHANGED clientLimit
  BY DEF WaiterStep, WaiterLock, CheckLimit, ReceiveAnswer, ReceiveStatus,
     ReceiveData, HandleOutputs, LockQuery, SendQuery, SendWait
<1>4. ASSUME waiter'[t] \in {"data", "outputs", "exited"} => t \in freed,
             t \in freed => waiter'[t] \in {"status", "data", "outputs", "exited"},
             waiter'[t] = "wait" => First(t)
      PROVE  \A u \in Trans : TurnOf(u)'
  <2>1. \A u \in Trans : TurnOf(u)
    BY TurnOfEach
  <2>2. \A u \in Trans : u # t => waiter'[u] = waiter[u]
    BY <1>0
  <2>3. \A u : First(u)' = First(u)
    BY <1>1 DEF First
  <2> QED BY <1>0, <1>1, <1>2, <1>3, <1>4, <2>1, <2>2, <2>3 DEF TurnOf, MgrUp
<1>5. waiter[t] \in {"lockQuery", "check", "query", "answer", "wait"} => t \notin freed
  BY <1>2, TurnOfEach DEF TurnOf
<1>6. waiter[t] \in {"data", "outputs"} => t \in freed
  BY TurnOfEach DEF TurnOf
<1>7. ASSUME NEW r \in Requests, r.op # "waitForTestHarness",
             requests' = requests \/ requests' = Append(requests, r)
      PROVE  \A i \in DOMAIN requests' : requests'[i].op = "waitForTestHarness" =>
               \E j \in DOMAIN requests : requests'[i] = requests[j]
  BY <1>0, <1>7, OldRequests
<1>8. [op |-> "queryTransactionStatus", trans |-> t, arg |-> 0] \in Requests
  BY DEF Requests
<1>9. CASE LockQuery(t)
  <2>1. waiter'[t] = "check" /\ waiter[t] = "lockQuery" /\ UNCHANGED <<requests, replies>>
    BY <1>0, <1>9 DEF LockQuery
  <2> QED BY <1>0, <1>4, <1>5, <1>7, <1>8, <2>1, TurnClient
<1>10. CASE CheckLimit(t)
  <2>1. /\ waiter'[t] \in {"query", "wait"} /\ waiter[t] = "check"
        /\ waiter'[t] = "wait" => clientLimit[t] # 0
        /\ UNCHANGED <<requests, replies>>
    BY <1>0, <1>10 DEF CheckLimit
  <2>2. waiter'[t] = "wait" => First(t)
    BY <1>2, <2>1, LimitedIsFirst
  <2> QED BY <1>0, <1>4, <1>5, <1>7, <1>8, <2>1, <2>2, TurnClient
<1>11. CASE SendQuery(t)
  <2>1. /\ waiter'[t] = "answer" /\ waiter[t] = "query" /\ UNCHANGED replies
        /\ requests' = Append(requests, [op |-> "queryTransactionStatus", trans |-> t, arg |-> 0])
    BY <1>0, <1>11 DEF SendQuery, Send
  <2> QED BY <1>0, <1>4, <1>5, <1>7, <1>8, <2>1, TurnClient
<1>12. CASE ReceiveAnswer(t)
  <2>1. /\ waiter'[t] \in {"wait", "check"} /\ waiter[t] = "answer" /\ UNCHANGED requests
        /\ replies # << >> /\ replies' = Tail(replies)
        /\ waiter'[t] = "wait" => Answer.status \in {"DONE", "TIMEOUT"}
    BY <1>0, <1>12 DEF ReceiveAnswer, Receive
  <2>2. /\ Answer.op = "queryTransactionStatus" /\ Answer.trans = t /\ replies' = << >>
    BY <1>0, <2>1, AnswerFacts
  <2>3. waiter'[t] = "wait" => First(t)
    BY <1>0, <1>2, <2>1, <2>2 DEF TurnInv
  <2> QED BY <1>0, <1>4, <1>5, <1>7, <1>8, <2>1, <2>2, <2>3, TurnClient
<1>13. CASE SendWait(t)
  <2> DEFINE r == [op |-> "waitForTestHarness", trans |-> t, arg |-> clientLimit[t]]
  <2>1. /\ waiter'[t] = "status" /\ waiter[t] = "wait" /\ UNCHANGED replies
        /\ requests' = Append(requests, r)
    BY <1>0, <1>13 DEF SendWait, Send
  <2>2. First(t) /\ r \in Requests /\ r.trans = t
    BY <1>2, <2>1, TurnOfEach DEF TurnOf, Requests, PipeInv, CallInv, PipeTypeOK
  <2> HIDE DEF r
  <2>3. /\ DOMAIN requests = 1 .. Len(requests) /\ Len(requests) \in Nat
        /\ DOMAIN requests' = 1 .. Len(requests) + 1
        /\ \A k \in DOMAIN requests : requests'[k] = requests[k]
        /\ requests'[Len(requests) + 1] = r
    BY <1>0, <2>1, <2>2, PushFacts DEF CallInv, PipeTypeOK
  <2>4. \A i \in DOMAIN requests' : i \in DOMAIN requests \/ i = Len(requests) + 1
    BY <2>3
  <2>5. \A i \in DOMAIN requests' : \/ \E j \in DOMAIN requests : requests'[i] = requests[j]
                                    \/ First(requests'[i].trans)
    BY <2>2, <2>3, <2>4
  <2> QED BY <1>0, <1>4, <1>5, <2>1, <2>5, TurnClient
<1>14. CASE ReceiveStatus(t)
  <2>1. /\ waiter'[t] = "data" /\ waiter[t] = "status" /\ UNCHANGED <<requests, replies>>
        /\ replies # << >>
    BY <1>0, <1>14 DEF ReceiveStatus
  <2>2. Answer.op = "waitForTestHarness" /\ Answer.results.trans = t
    BY <1>0, <2>1, AnswerFacts
  <2>3. t \in freed
    BY <1>0, <2>1, <2>2 DEF StoreInv
  <2> QED BY <1>0, <1>4, <1>7, <1>8, <2>1, <2>3, TurnClient
<1>15. CASE ReceiveData(t)
  <2>1. /\ waiter'[t] = "outputs" /\ waiter[t] = "data" /\ UNCHANGED requests
        /\ replies # << >> /\ replies' = Tail(replies)
    BY <1>0, <1>15 DEF ReceiveData, Receive
  <2>2. replies' = << >>
    BY <1>0, <2>1, AnswerFacts
  <2> QED BY <1>0, <1>4, <1>6, <1>7, <1>8, <2>1, <2>2, TurnClient
<1>16. CASE HandleOutputs(t)
  <2>1. waiter'[t] = "exited" /\ waiter[t] = "outputs" /\ UNCHANGED <<requests, replies>>
    BY <1>0, <1>16 DEF HandleOutputs
  <2> QED BY <1>0, <1>4, <1>6, <1>7, <1>8, <2>1, TurnClient
<1> QED BY <1>9, <1>10, <1>11, <1>12, <1>13, <1>14, <1>15, <1>16 DEF WaiterStep, WaiterLock

LEMMA TurnUser ==
  ASSUME PipeInv, NewCall \/ UserLock \/ UserStep
  PROVE  TurnInv'
<1> USE DEF Step, transVars, mtxVars, wireVars
<1>0. /\ CallInv /\ UNCHANGED vars
      /\ waiter \in [Trans -> WaiterPCs] /\ clientLimit \in [Trans -> Nat]
      /\ \A u \in Trans : TurnOf(u)
  BY UserEffects, TurnOfEach DEF PipeInv, CallInv, PipeTypeOK
<1>1. UNCHANGED <<freed, session, transactions>> /\ \A u : First(u)' = First(u)
  BY <1>0 DEF vars, mgrVars, sessionVars, First
<1>2. replies' = replies \/ replies' = << >>
  <2>1. replies # << >> => Tail(replies) = << >>
    BY <1>0, AnswerFacts DEF PipeInv
  <2>2. replies' = replies \/ (replies # << >> /\ replies' = Tail(replies))
    BY DEF NewCall, UserLock, UserStep, RunTestHarnessCall, RejectedLocally, WaitForRes,
       Destroy, SendRun, SendGetTimeOut, ExtendTimeOut, SendWaitForGraph, RestoreTimeOut,
       RunRefused, RunAccepted, GotTimeOut, LimitOldest, JoinOldest, EndLoop, GotGraph,
       Ask, Tell, Send, Answered, Receive
  <2> QED BY <2>1, <2>2
<1>3. CASE RunTestHarnessCall \/ RejectedLocally
  <2>1. UNCHANGED <<pending, waiter, clientLimit, requests>>
    BY <1>3 DEF RunTestHarnessCall, RejectedLocally
  <2>2. \A u \in Trans : TurnOf(u)'
    BY <1>0, <1>1, <2>1 DEF TurnOf, MgrUp
  <2> QED BY <1>0, <1>2, <2>1, <2>2, TurnClient
<1>4. CASE RunAccepted
  <2>1. /\ ~Submitted(trans_id) /\ trans_id \notin ids /\ trans_id \notin Range(pending)
        /\ waiter' = [waiter EXCEPT ![trans_id] = "lockQuery"]
        /\ pending' = Append(pending, trans_id) /\ pending \in Seq(Trans)
        /\ requests' = Append(<< >>, [op |-> "data", trans |-> trans_id, arg |-> 0])
        /\ UNCHANGED clientLimit /\ trans_id \in Trans /\ session = "receiving"
    BY <1>4, SubmitFacts
  <2>2. /\ trans_id \notin freed
    BY <2>1 DEF PipeInv, ServerInv, IInv, DequeInv, MgrUp
  <2>3. /\ pending' # << >>
        /\ pending # << >> => Head(pending') = Head(pending) /\ Head(pending) \in Range(pending)
    BY <2>1, AppendFacts, TailFacts
  <2>4. clientLimit[trans_id] = 0
    BY <2>1, <2>3, <1>0 DEF TurnOf, Submitted
  <2>5. ASSUME NEW u \in Trans
        PROVE  TurnOf(u)'
    <3>1. CASE u = trans_id
      BY <3>1, <1>0, <1>1, <2>1, <2>2, <2>4 DEF TurnOf
    <3>2. CASE u # trans_id
      <4>1. waiter'[u] = waiter[u]
        BY <3>2, <1>0, <2>1
      <4> QED BY <4>1, <1>0, <1>1, <2>1, <2>3 DEF TurnOf, MgrUp
    <3> QED BY <3>1, <3>2
  <2>6. \A i \in DOMAIN requests' : requests'[i].op # "waitForTestHarness"
    BY <2>1, FirstFacts
  <2> QED BY <1>0, <1>2, <2>5, <2>6, TurnClient
<1>5. CASE JoinOldest
  <2>1. /\ UNCHANGED <<waiter, clientLimit, requests>>
        /\ waiter[Head(pending)] = "exited"
    BY <1>5, JoinFacts
  <2>2. \A u \in Trans : TurnOf(u)'
    BY <1>0, <1>1, <2>1 DEF TurnOf, MgrUp
  <2> QED BY <1>0, <1>2, <2>1, <2>2, TurnClient
<1>6. CASE LimitOldest
  <2>1. /\ pending # << >> /\ UNCHANGED <<pending, waiter, requests>>
        /\ clientLimit' = [clientLimit EXCEPT ![Head(pending)] = call.ms]
    BY <1>6 DEF LimitOldest, LoopOver
  <2>2. \A u \in Trans : u # Head(pending) => clientLimit'[u] = clientLimit[u]
    BY <1>0, <2>1
  <2>3. \A u \in Trans : TurnOf(u)'
    BY <1>0, <1>1, <2>1, <2>2 DEF TurnOf, MgrUp
  <2> QED BY <1>0, <1>2, <2>1, <2>3, TurnClient
<1>7. ASSUME UNCHANGED <<pending, waiter, clientLimit>>,
             \/ requests' = requests
             \/ \E r \in Requests : r.op \notin {"data", "waitForTestHarness"}
                                    /\ requests' = Append(requests, r)
      PROVE  TurnInv'
  <2>1. \A u \in Trans : TurnOf(u)'
    BY <1>0, <1>1, <1>7 DEF TurnOf, MgrUp
  <2> QED BY <1>0, <1>2, <1>7, <2>1, OldRequests, TurnClient
<1>8. LimitOldest \/ RunAccepted \/ UNCHANGED clientLimit
  BY DEF NewCall, UserLock, UserStep, RunTestHarnessCall, RejectedLocally, WaitForRes,
     Destroy, SendRun, SendGetTimeOut, ExtendTimeOut, SendWaitForGraph, RestoreTimeOut,
     RunRefused, RunAccepted, GotTimeOut, LimitOldest, JoinOldest, EndLoop, GotGraph
<1> QED BY <1>3, <1>4, <1>5, <1>6, <1>7, <1>8, UserEffects

(* The server only deletes the front, which its waiter asked for.          *)
LEMMA TurnSession ==
  ASSUME PipeInv, SessionThread
  PROVE  TurnInv'
<1> USE DEF clientVars, transVars, userVars, mtxVars
<1>0. /\ UNCHANGED <<waiter, clientLimit, pending>> /\ ServerInv /\ CallInv /\ ExchangeInv
      /\ TurnInv /\ KnownInv /\ TypeOK /\ KnownInv'
      /\ \A u \in Trans : TurnOf(u)
  BY SessionEffects, TurnOfEach, KnownSession DEF PipeInv, ProgressInv, ServerInv, IInv
<1>1. ASSUME freed \subseteq freed',
             MgrUp' => MgrUp /\ \A u \in freed' : u \in freed \/ waiter[u] = "status",
             MgrUp' => \A u \in Trans : waiter[u] = "wait" => First(u)',
             MgrUp' => \A i \in DOMAIN requests' :
                             requests'[i].op = "waitForTestHarness" => First(requests[i].trans)',
             MgrUp' => (replies # << >> /\ Answer.op = "queryTransactionStatus" =>
                (Answer.status \in {"DONE", "TIMEOUT"} => First(Answer.trans)))'
      PROVE  TurnInv'
  BY <1>0, <1>1 DEF TurnInv, First
<1>2. /\ \A u \in Trans : waiter[u] = "wait" => First(u) \/ ~MgrUp
      /\ \A j \in DOMAIN requests : requests[j].op = "waitForTestHarness" =>
           /\ First(requests[j].trans) \/ ~MgrUp
           /\ requests[j].trans \in Trans /\ Submitted(requests[j].trans)
  <2>1. \A j \in DOMAIN requests : requests[j].op = "waitForTestHarness" =>
          AskedBy(requests[j])
    BY <1>0 DEF ExchangeInv, RequestsInv, Asking
  <2> QED BY <1>0, <2>1 DEF TurnInv, AskedBy, Submitted
<1>3. ASSUME requests' = requests \/ (requests # << >> /\ requests' = Tail(requests)),
             \A u \in Trans : Submitted(u) /\ First(u) => First(u)',
             MgrUp' => MgrUp
      PROVE  MgrUp' =>
               /\ \A u \in Trans : waiter[u] = "wait" => First(u)'
               /\ \A i \in DOMAIN requests' :
                    requests'[i].op = "waitForTestHarness" => First(requests[i].trans)'
  <2>1. \A i \in DOMAIN requests' : requests'[i].op = "waitForTestHarness" =>
          \E j \in DOMAIN requests : requests'[i] = requests[j]
    BY <1>0, <1>3, OldRequests
  <2>2. ASSUME MgrUp', NEW i \in DOMAIN requests', requests'[i].op = "waitForTestHarness"
        PROVE  First(requests[i].trans)'
    <3>1. PICK j \in DOMAIN requests : requests'[i] = requests[j]
      BY <2>1, <2>2
    <3>2. PICK u \in Trans : u = requests[j].trans
      BY <1>2, <2>2, <3>1
    <3>3. First(u)'
      BY <1>2, <1>3, <2>2, <3>1, <3>2
    <3> QED BY <3>1, <3>2, <3>3 DEF First
  <2>3. ASSUME MgrUp', NEW u \in Trans, waiter[u] = "wait"
        PROVE  First(u)'
    BY <1>2, <1>3, <2>3 DEF Submitted
  <2> QED BY <2>2, <2>3
<1>4. CASE ServeData /\ CreateTransaction(Head(requests).trans)
  <2> DEFINE t == Head(requests).trans
  <2>1. /\ requests # << >> /\ requests' = Tail(requests) /\ Head(requests).op = "data"
        /\ transactions' = Append(transactions, t)
        /\ UNCHANGED <<freed, replies>> /\ MgrUp /\ InTransit(t)
    BY <1>4, TransitFacts DEF ServeData, Serve, CreateTransaction, MgrUp
  <2>2. t \in Trans /\ (\A u \in ids : u < t) /\ \A u : InTransit(u) => u = t
    BY <2>1, <1>0, TransitFacts DEF KnownInv
  <2>3. replies = << >>
    BY <1>0, <2>1 DEF ExchangeInv, RepliesInv
  <2> HIDE DEF t
  <2>4. Range(transactions') = Range(transactions) \cup {t}
    BY <1>0, <2>1, <2>2, AppendFacts DEF TypeOK
  <2>5. ASSUME NEW u \in Trans, Submitted(u), First(u)
        PROVE  First(u)'
    <3>1. u \in ids \/ u = t
      BY <1>0, <2>2, <2>5 DEF KnownInv
    <3>2. u <= t
      BY <2>2, <3>1, Numbers
    <3> QED BY <2>1, <2>4, <2>5, <3>2 DEF First
  <2> QED BY <1>1, <1>3, <2>1, <2>3, <2>5
<1>5. CASE ServeResult
  <2> DEFINE h == Head(transactions)
  <2>1. /\ session = "joining" /\ transactions' = Tail(transactions) /\ freed' = freed \cup {h}
        /\ UNCHANGED requests
        /\ replies' = Append(replies, [op |-> "waitForTestHarness",
                                       results |-> Last(delivered')])
    BY <1>5 DEF ServeResult, DeliverResult, Deliver, Reply
  <2>2. /\ transactions # << >> /\ waiter[h] = "status"
        /\ requests = << >> /\ replies = << >> /\ MgrUp
    BY <1>0, <2>1 DEF ExchangeInv, OwnerInv, MgrUp
  <2>3. /\ h \in Trans /\ Range(transactions) = {h} \cup Range(transactions')
    BY <1>0, <2>1, <2>2, TailFacts DEF TypeOK
  <2>4. Answer'.op = "waitForTestHarness"
    BY <2>1, <2>2, FirstFacts DEF Answer
  <2> HIDE DEF h
  <2>5. \A u \in Trans : waiter[u] = "wait" => First(u)'
    BY <1>2, <2>1, <2>2, <2>3 DEF First
  <2>6. \A i \in DOMAIN requests' : FALSE
    BY <2>1, <2>2, EmptySeq
  <2> QED BY <1>1, <2>1, <2>2, <2>4, <2>5, <2>6
<1>6. CASE ServeDestroy
  BY <1>1, <1>6 DEF ServeDestroy, DestroyMgr, MgrUp, mgrVars
<1>8. CASE ServeDestructor
  <2>1. freed \subseteq freed' /\ session' \in Destructor \cup {"closed", "terminated"}
    BY <1>8 DEF ServeDestructor, DestructorStep, DeleteQueued, ClearDeque, DestroyThreads,
                sessionVars, mgrVars
  <2> QED BY <1>1, <2>1 DEF MgrUp
<1>7. ASSUME UNCHANGED <<ids, freed, transactions>>, MgrUp',
             \/ requests' = requests
             \/ requests # << >> /\ requests' = Tail(requests),
             ~ServeData, ~ServeResult, ~ServeDestroy, ~ServeDestructor
      PROVE  TurnInv'
  <2>1. \A u : First(u)' = First(u)
    BY <1>7 DEF First
  <2>2. MgrUp
    BY <1>7 DEF SessionThread, ServeRun, ServeSpawn, ServeQuery, ServeWait, ServeGetTimeOut,
       ServeSetTimeOut, ServeWaitForGraph, RefuseRun, AdmitRun, SpawnPL,
       WaitForTestHarnessRequest, MgrUp
  <2>3. (replies # << >> /\ Answer.op = "queryTransactionStatus" =>
          (Answer.status \in {"DONE", "TIMEOUT"} => First(Answer.trans)))'
    <3>1. replies # << >> /\ Answer.op = "queryTransactionStatus" =>
            (Answer.status \in {"DONE", "TIMEOUT"} => First(Answer.trans))
      BY <1>0, <2>2 DEF TurnInv
    <3>2. ASSUME UNCHANGED replies
          PROVE  Answer' = Answer
      BY <3>2 DEF Answer
    <3>3. requests # << >> => replies = << >>
      BY <1>0 DEF ExchangeInv, RepliesInv
    <3>4. CASE ServeQuery
      <4> DEFINE t == Head(requests).trans
      <4>1. /\ requests # << >> /\ Head(requests).op = "queryTransactionStatus"
            /\ \/ UNCHANGED replies
               \/ t \in ids /\ replies' = Append(replies,
                    [op |-> "queryTransactionStatus", trans |-> t, status |-> status[t]])
        BY <3>4 DEF ServeQuery, Serve, Reply
      <4>2. t \in Trans /\ waiter[t] = "answer"
        BY <1>0, <4>1, AskedFacts DEF Asking, AskedBy
      <4>3. t \notin freed
        BY <1>0, <2>2, <4>2 DEF TurnInv
      <4>4. ASSUME t \in ids, status[t] \in {"DONE", "TIMEOUT"}
            PROVE  First(t)
        <5>1. t \in Range(transactions) /\ transactions # << >>
          BY <2>2, <4>3, <4>4, QueuedFacts
        <5>2. t = Head(transactions)
          BY <1>0, <2>2, <4>4, <5>1 DEF ServerInv, OrderlyInv
        <5> QED BY <1>0, <4>3, <5>1, <5>2, IncreasingFacts DEF First, KnownInv, TypeOK
      <4> HIDE DEF t
      <4>5. CASE UNCHANGED replies
        BY <3>1, <3>2, <4>5, <1>7 DEF First
      <4>6. CASE t \in ids /\ replies' = Append(replies,
                    [op |-> "queryTransactionStatus", trans |-> t, status |-> status[t]])
        <5>1. Answer' = [op |-> "queryTransactionStatus", trans |-> t, status |-> status[t]]
          BY <3>3, <4>1, <4>6, FirstFacts DEF Answer
        <5> QED BY <4>4, <4>6, <5>1, <1>7 DEF First
      <4> QED BY <4>1, <4>5, <4>6
    <3>5. CASE ServeRun \/ ServeGetTimeOut \/ ServeWaitForGraph
      <4>1. /\ requests # << >>
            /\ \E r : replies' = Append(replies, r) /\ r.op # "queryTransactionStatus"
        BY <3>5 DEF ServeRun, ServeGetTimeOut, ServeWaitForGraph, Serve, Reply
      <4>2. Answer'.op # "queryTransactionStatus"
        BY <3>3, <4>1, FirstFacts DEF Answer
      <4> QED BY <4>2
    <3>6. CASE ServeSpawn \/ ServeWait \/ ServeSetTimeOut
      BY <3>1, <3>2, <3>6, <1>7 DEF ServeSpawn, ServeWait, ServeSetTimeOut, wireVars, First
    <3> QED BY <3>4, <3>5, <3>6, <1>7 DEF SessionThread
  <2> QED BY <1>1, <1>3, <1>7, <2>1, <2>2, <2>3
<1> QED BY <1>4, <1>5, <1>6, <1>7, <1>8, SessionEffects

(* Closing the manager, when nothing is pending, finds no PL thread.       *)
LEMMA CloseStep ==
  ASSUME PipeInv, [PipeNext]_pipeVars
  PROVE  NoServerFault' /\ CleanClose'
<1> USE DEF NoServerFault, CleanClose
<1>0. /\ ServerInv /\ IInv /\ CallInv /\ ExchangeInv /\ KnownInv /\ TurnInv
      /\ NoServerFault /\ CleanClose
  BY DEF PipeInv, ProgressInv, ServerInv
<1>1. CASE SessionThread
  <2>1. user' = user
    BY <1>1, SessionEffects DEF clientVars, userVars
  <2>2. CASE ServeDestroy
    <3>1. session = "idle" /\ MgrUp /\ session' = "deleting" /\ UNCHANGED pc
      BY <1>0, <2>2 DEF ServeDestroy, DestroyMgr, MgrUp
    <3>2. ASSUME user = "closed"
          PROVE  pl_threads' = {}
      <4>1. pending = << >>
        BY <1>0, <3>2 DEF CallInv
      <4>2. ids \subseteq Trans /\ Range(pending) = {}
        BY <1>0, <4>1, EmptyFacts DEF IInv, TypeOK
      <4>3. \A t \in ids : t \in freed
        BY <1>0, <4>2 DEF KnownInv, TurnInv
      <4>4. Range(transactions) = {}
        BY <1>0, <3>1, <4>3 DEF IInv, DequeInv
      <4>5. pl_threads = {}
        BY <1>0, <3>1, <4>4, ThreadsMatch DEF ServerInv, ThreadPerTransaction
      <4> QED BY <3>1, <4>5 DEF pl_threads
    <3> QED BY <2>1, <3>1, <3>2
  <2>3. CASE ServeDestructor
    <3>1. /\ session \in Destructor /\ UNCHANGED pc
          /\ session' \in Destructor \cup {"closed", "terminated"}
          /\ session' = "terminated" => pl_threads # {}
      BY <2>3 DEF ServeDestructor, DestructorStep, DeleteQueued, ClearDeque, DestroyThreads,
                  sessionVars, mgrVars
    <3> QED BY <1>0, <2>1, <3>1 DEF pl_threads
  <2>4. ~ServeDestroy /\ ~ServeDestructor => MgrUp'
    BY <1>1, SessionEffects DEF ServeData, CreateTransaction, ServeResult, DeliverResult,
       Deliver, MgrUp
  <2> QED BY <1>1, <2>1, <2>2, <2>3, <2>4, NeverRefused DEF MgrUp
<1>2. CASE NewCall \/ UserLock \/ UserStep
  <2>1. UNCHANGED session
    BY <1>2, UserEffects DEF vars, sessionVars
  <2>2. user' = "closed" => MgrUp
    BY <1>0, <1>2 DEF ExchangeInv, OwnerInv, NewCall, UserLock, UserStep, Step,
       RunTestHarnessCall, RejectedLocally, WaitForRes, Destroy, SendRun, SendGetTimeOut,
       ExtendTimeOut, SendWaitForGraph, RestoreTimeOut, RunRefused, RunAccepted,
       GotTimeOut, LimitOldest, JoinOldest, EndLoop, GotGraph
  <2> QED BY <1>0, <2>1, <2>2 DEF MgrUp
<1>3. ASSUME NEW t \in Trans, WaiterStep(t) \/ WaiterLock(t)
      PROVE  NoServerFault' /\ CleanClose'
  BY <1>0, <1>3, WaiterEffects DEF vars, sessionVars, userVars, pl_threads
<1>4. ASSUME NEW t \in Trans, ServerPLThread(t)
      PROVE  NoServerFault' /\ CleanClose'
  <2>1. Background
    BY <1>0, <1>4, BackgroundEffects
  <2>2. user' = user
    BY <2>1 DEF Background, clientVars, userVars
  <2>3. t \in pl_threads
    BY <1>4 DEF ServerPLThread, PLThread, ReachFront, LockPL, StartPL, NextSlice, SliceEnds,
       FetchAfterSlice, MarkDone, LastWait, LimitEnds, FetchAfterLimit, Stray, Intact, Go,
       pl_threads
  <2> QED BY <1>0, <2>1, <2>2, <2>3 DEF Background
<1>5. CASE ServerDevice \/ UNCHANGED pipeVars
  BY <1>0, <1>5 DEF ServerDevice, Device, pipeVars, vars, clientVars, userVars, sessionVars,
     pl_threads
<1> QED BY <1>1, <1>2, <1>3, <1>4, <1>5 DEF PipeNext

LEMMA ProgressStep ==
  ASSUME PipeInv, [PipeNext]_pipeVars
  PROVE  ProgressInv'
<1>1. ASSUME Background
      PROVE  TurnInv'
  BY <1>1 DEF Background, clientVars, wireVars, transVars, userVars, mtxVars, PipeInv,
     ProgressInv, TurnInv, First, Answer, MgrUp
<1>2. TurnInv'
  BY <1>1, TurnSession, TurnWaiter, TurnUser, BackgroundEffects
     DEF PipeNext, PipeInv, ServerInv
<1> QED BY <1>2, KnownStep, CloseStep DEF ProgressInv

-----------------------------------------------------------------------------
(* What the client stores.                                                 *)

StoreOf(t) ==
  /\ ~Submitted(t) => clientStatus[t] \in {"CREATED", "READY"}
  /\ waiter[t] \in {"lockQuery", "check", "query", "answer", "wait", "status"} =>
       clientStatus[t] = "RUNNING"
  /\ waiter[t] \in {"data", "outputs", "exited"} =>
       EndSeen(t) /\ clientStatus[t] = status[t]
  /\ waiter[t] \in {"outputs", "exited"} => clientData[t] = hostBuf[t]
  /\ output[t] = IF waiter[t] = "exited" THEN hostBuf[t] ELSE "initial"

StoreAnswer ==
  replies # << >> /\ Answer.op = "waitForTestHarness" =>
    LET t == Answer.results.trans IN
    /\ t \in freed /\ EndSeen(t)
    /\ Answer.results.status = status[t] /\ Answer.results.data = hostBuf[t]

LEMMA StoreSplit == StoreInv <=> StoreAnswer /\ \A t \in Trans : StoreOf(t)
BY DEF StoreInv, StoreAnswer, StoreOf

LEMMA StoreServer ==
  ASSUME PipeInv, [AnyNext]_vars, UNCHANGED clientVars,
         replies' = replies \/ StoreAnswer'
  PROVE  StoreInv'
<1> USE DEF clientVars, transVars
<1>1. IInv /\ StoreAnswer /\ TurnInv /\ \A t \in Trans : StoreOf(t)
  BY StoreSplit DEF PipeInv, ServerInv, ProgressInv
<1>2. \A t \in freed : t \in freed' /\ status'[t] = status[t] /\ hostBuf'[t] = hostBuf[t]
  BY <1>1, FreedStable
<1>3. ASSUME NEW t \in Trans
      PROVE  StoreOf(t)'
  <2>1. waiter[t] \in {"data", "outputs", "exited"} => t \in freed
    BY <1>1 DEF TurnInv
  <2> QED BY <1>1, <1>2, <2>1 DEF StoreOf, Submitted, EndSeen
<1>4. StoreAnswer'
  BY <1>1, <1>2 DEF StoreAnswer, Answer, EndSeen
<1> QED BY <1>3, <1>4 DEF StoreInv, StoreOf, StoreAnswer

LEMMA StoreSession ==
  ASSUME PipeInv, SessionThread
  PROVE  StoreInv'
<1> USE DEF Reply
<1>0. /\ ServerInv /\ CallInv /\ ExchangeInv /\ UNCHANGED clientVars /\ [AnyNext]_vars
  BY SessionEffects, SessionIsServer DEF PipeInv
<1>1. requests # << >> => replies = << >>
  BY <1>0 DEF ExchangeInv, RepliesInv
<1>2. ASSUME NEW r, requests # << >>, replies' = Append(replies, r), r.op # "waitForTestHarness"
      PROVE  StoreAnswer'
  BY <1>1, <1>2, FirstFacts DEF StoreAnswer, Answer
<1>3. CASE ServeRun
  BY <1>0, <1>2, <1>3, StoreServer DEF ServeRun, Serve
<1>4. CASE ServeQuery
  BY <1>0, <1>2, <1>4, StoreServer DEF ServeQuery, Serve
<1>5. CASE ServeGetTimeOut \/ ServeWaitForGraph
  BY <1>0, <1>2, <1>5, StoreServer DEF ServeGetTimeOut, ServeWaitForGraph, Serve
<1>6. CASE \/ ServeData \/ ServeSpawn \/ ServeWait \/ ServeSetTimeOut
           \/ ServeDestroy \/ ServeDestructor
  BY <1>0, <1>6, StoreServer DEF ServeData, ServeSpawn, ServeWait, ServeSetTimeOut,
     ServeDestroy, ServeDestructor, wireVars
<1>7. CASE ServeResult
  <2> DEFINE h == Head(transactions)
             x == [trans |-> h, status |-> status[h], data |-> hostBuf[h]]
  <2>1. /\ session = "joining" /\ pc[h] = "exited" /\ freed' = freed \cup {h}
        /\ delivered' = Append(delivered, x) /\ UNCHANGED <<status, hostBuf>>
        /\ replies' = Append(replies, [op |-> "waitForTestHarness",
                                       results |-> Last(delivered')])
    BY <1>7 DEF ServeResult, DeliverResult, Deliver, fastVars
  <2>2. transactions # << >> /\ replies = << >> /\ MgrUp
    BY <1>0, <2>1 DEF ExchangeInv, OwnerInv, MgrUp
  <2>3. h \in Trans
    BY <1>0, <2>2, TailFacts DEF ServerInv, IInv, TypeOK
  <2>4. delivered \in Seq(Results) /\ x \in Results
    BY <1>0, <2>3 DEF ServerInv, IInv, TypeOK, FastTypeOK, Results
  <2>5. Last(delivered') = x
    BY <2>1, <2>4, PushFacts DEF Last
  <2>6. EndSeen(h)
    BY <1>0, <2>1, <2>2, <2>3 DEF ServerInv, ResultInv, EndSeen
  <2>7. Answer' = [op |-> "waitForTestHarness", results |-> x]
    BY <2>1, <2>2, <2>5, FirstFacts DEF Answer
  <2>8. x.trans = h /\ x.status = status[h] /\ x.data = hostBuf[h]
    OBVIOUS
  <2> HIDE DEF x, h
  <2>9. StoreAnswer'
    BY <2>1, <2>6, <2>7, <2>8 DEF StoreAnswer, EndSeen
  <2> QED BY <1>0, <2>9, StoreServer
<1> QED BY <1>3, <1>4, <1>5, <1>6, <1>7 DEF SessionThread

(* The client's steps leave what they store alone on the server.           *)
LEMMA StoreClient ==
  ASSUME PipeInv, UNCHANGED vars, replies' = replies \/ replies' = << >>,
         \A u \in Trans : \/ StoreOf(u)'
                          \/ /\ waiter'[u] = waiter[u] /\ clientStatus'[u] = clientStatus[u]
                             /\ clientData'[u] = clientData[u] /\ output'[u] = output[u]
  PROVE  StoreInv'
<1>1. StoreAnswer /\ \A t \in Trans : StoreOf(t)
  BY StoreSplit DEF PipeInv
<1>2. UNCHANGED <<status, hostBuf, freed>>
  BY DEF vars, mgrVars, fastVars
<1>3. StoreAnswer'
  BY <1>1, <1>2 DEF StoreAnswer, Answer, EndSeen
<1>4. \A t \in Trans : StoreOf(t)'
  BY <1>1, <1>2 DEF StoreOf, Submitted, EndSeen
<1> QED BY <1>3, <1>4 DEF StoreInv, StoreOf, StoreAnswer

LEMMA StoreWaiter ==
  ASSUME PipeInv, NEW t \in Trans, WaiterStep(t) \/ WaiterLock(t)
  PROVE  StoreInv'
<1> USE DEF Wait, userVars, transVars, mtxVars, wireVars
<1>0. /\ PipeTypeOK /\ CallInv /\ ExchangeInv /\ StoreAnswer /\ StoreOf(t) /\ UNCHANGED vars
      /\ UNCHANGED <<status, hostBuf, freed>>
  BY WaiterEffects, StoreSplit DEF PipeInv, CallInv, vars, mgrVars, fastVars
<1>1. replies # << >> => Tail(replies) = << >>
  BY <1>0, AnswerFacts
<1>2. /\ replies' = replies \/ replies' = << >>
      /\ \A u \in Trans : u # t =>
           /\ waiter'[u] = waiter[u] /\ clientStatus'[u] = clientStatus[u]
           /\ clientData'[u] = clientData[u] /\ output'[u] = output[u]
  <2>1. CASE WaiterStep(t)
    BY <1>0, <1>1, <2>1 DEF WaiterStep, CheckLimit, ReceiveAnswer, ReceiveStatus,
       ReceiveData, HandleOutputs, Receive, PipeTypeOK
  <2>2. CASE WaiterLock(t)
    BY <1>0, <2>2 DEF WaiterLock, LockQuery, SendQuery, SendWait, Send, PipeTypeOK
  <2> QED BY <2>1, <2>2
<1>3. SUFFICES StoreOf(t)'
  BY <1>0, <1>2, StoreClient
<1>4. CASE CheckLimit(t) \/ ReceiveAnswer(t)
  BY <1>0, <1>4 DEF CheckLimit, ReceiveAnswer, PipeTypeOK, StoreOf, Submitted
<1>5. CASE WaiterLock(t)
  BY <1>0, <1>5 DEF WaiterLock, LockQuery, SendQuery, SendWait, PipeTypeOK, StoreOf, Submitted
<1>6. CASE ReceiveStatus(t)
  <2>1. Answer.op = "waitForTestHarness" /\ Answer.results.trans = t /\ replies # << >>
    BY <1>0, <1>6, AnswerFacts DEF ReceiveStatus
  <2>2. Answer.results.status = status[t] /\ EndSeen(t)
    BY <1>0, <2>1 DEF StoreAnswer
  <2> QED BY <1>0, <1>6, <2>2 DEF ReceiveStatus, PipeTypeOK, StoreOf, Submitted, EndSeen
<1>7. CASE ReceiveData(t)
  <2>1. Answer.op = "waitForTestHarness" /\ Answer.results.trans = t /\ replies # << >>
    BY <1>0, <1>7, AnswerFacts DEF ReceiveData, Receive
  <2>2. Answer.results.data = hostBuf[t]
    BY <1>0, <2>1 DEF StoreAnswer
  <2> QED BY <1>0, <1>7, <2>2 DEF ReceiveData, PipeTypeOK, StoreOf, Submitted, EndSeen
<1>8. CASE HandleOutputs(t)
  BY <1>0, <1>8 DEF HandleOutputs, PipeTypeOK, StoreOf, Submitted, EndSeen
<1> QED BY <1>4, <1>5, <1>6, <1>7, <1>8 DEF WaiterStep

LEMMA StoreUser ==
  ASSUME PipeInv, NewCall \/ UserLock \/ UserStep
  PROVE  StoreInv'
<1> USE DEF Step, transVars, mtxVars, wireVars
<1>0. /\ PipeTypeOK /\ CallInv /\ ExchangeInv /\ KnownInv
      /\ UNCHANGED vars /\ \A u \in Trans : StoreOf(u)
  BY UserEffects, StoreSplit DEF PipeInv, CallInv, ProgressInv
<1>1. replies # << >> => Tail(replies) = << >>
  BY <1>0, AnswerFacts
<1>2. replies' = replies \/ replies' = << >>
  <2>1. replies' = replies \/ (replies # << >> /\ replies' = Tail(replies))
    BY DEF NewCall, UserLock, UserStep, RunTestHarnessCall, RejectedLocally, WaitForRes,
       Destroy, SendRun, SendGetTimeOut, ExtendTimeOut, SendWaitForGraph, RestoreTimeOut,
       RunRefused, RunAccepted, GotTimeOut, LimitOldest, JoinOldest, EndLoop, GotGraph,
       Ask, Tell, Send, Answered, Receive
  <2> QED BY <1>1, <2>1
<1>3. CASE RunTestHarnessCall \/ RejectedLocally
  <2>0. PICK t \in Trans : t = trans_id + 1
    BY <1>3 DEF RunTestHarnessCall, RejectedLocally
  <2>1. /\ UNCHANGED <<waiter, clientData, output>>
        /\ \E st \in {"CREATED", "READY"} : clientStatus' = [clientStatus EXCEPT ![t] = st]
    BY <1>3, <2>0 DEF RunTestHarnessCall, RejectedLocally
  <2>2. ~Submitted(t)
    <3>1. ~(t <= trans_id)
      BY <1>0, <2>0 DEF PipeTypeOK
    <3> QED BY <1>0, <3>1 DEF KnownInv
  <2>3. /\ clientStatus'[t] \in {"CREATED", "READY"}
        /\ \A u \in Trans : u # t => clientStatus'[u] = clientStatus[u]
    BY <1>0, <2>1 DEF PipeTypeOK
  <2>4. StoreOf(t)'
    BY <1>0, <2>1, <2>2, <2>3 DEF StoreOf, Submitted
  <2> QED BY <1>0, <1>2, <2>1, <2>3, <2>4, StoreClient
<1>4. CASE RunAccepted
  <2>1. /\ trans_id \in Trans /\ ~Submitted(trans_id)
        /\ waiter' = [waiter EXCEPT ![trans_id] = "lockQuery"]
        /\ clientStatus' = [clientStatus EXCEPT ![trans_id] = "RUNNING"]
        /\ UNCHANGED <<clientData, output>>
    BY <1>4, SubmitFacts DEF RunAccepted
  <2>2. /\ waiter'[trans_id] = "lockQuery" /\ clientStatus'[trans_id] = "RUNNING"
        /\ \A u \in Trans : u # trans_id =>
             waiter'[u] = waiter[u] /\ clientStatus'[u] = clientStatus[u]
    BY <1>0, <2>1 DEF PipeTypeOK
  <2>3. UNCHANGED trans_id
    BY <1>4 DEF RunAccepted
  <2>4. StoreOf(trans_id)'
    BY <1>0, <2>1, <2>2, <2>3 DEF StoreOf, Submitted
  <2> QED BY <1>0, <1>2, <2>1, <2>2, <2>3, <2>4, StoreClient
<1>5. CASE ~(RunTestHarnessCall \/ RejectedLocally \/ RunAccepted)
  <2>1. UNCHANGED <<waiter, clientStatus, clientData, output>>
    BY <1>5 DEF NewCall, UserLock, UserStep, WaitForRes,
       Destroy, SendRun, SendGetTimeOut, ExtendTimeOut, SendWaitForGraph, RestoreTimeOut,
       RunRefused, GotTimeOut, LimitOldest, JoinOldest, EndLoop, GotGraph
  <2> QED BY <1>0, <1>2, <2>1, StoreClient
<1> QED BY <1>3, <1>4, <1>5

LEMMA StoreStep ==
  ASSUME PipeInv, [PipeNext]_pipeVars
  PROVE  StoreInv'
<1>1. [AnyNext]_vars
  BY PipeIsServer DEF PipeInv
<1>2. ASSUME Background
      PROVE  StoreInv'
  BY <1>1, <1>2, StoreServer DEF Background, wireVars
<1> QED BY <1>2, StoreSession, StoreWaiter, StoreUser, BackgroundEffects
        DEF PipeNext, PipeInv, ServerInv

-----------------------------------------------------------------------------
(* Room: what the server uses never exceeds what the client counts.        *)

RefusalWarned ==
  replies # << >> /\ Answer.op = "runTestHarness" /\ ~Answer.accepted => call.warned

(* A transaction with a PL thread is pending and its waiter still waits.   *)
LEMMA ThreadsUnfinished ==
  ASSUME PipeInv, session = "idle"
  PROVE  pl_threads \subseteq Unfinished
<1>1. MgrUp
  BY DEF MgrUp
<1>2. pl_threads = Range(transactions)
  BY ThreadsMatch DEF PipeInv, ServerInv, ThreadPerTransaction
<1>3. \A t \in Range(transactions) : t \in ids /\ t \notin freed /\ t \in Trans
  BY <1>1 DEF PipeInv, ServerInv, IInv, DequeInv, TypeOK
<1> QED BY <1>2, <1>3 DEF Unfinished, PipeInv, ProgressInv, KnownInv, TurnInv

LEMMA TotalSubset ==
  ASSUME NEW S \in SUBSET Trans, NEW T \in SUBSET S
  PROVE  Total(T) \in Nat /\ Total(S) \in Nat /\ Total(T) <= Total(S)
<1>1. IsFiniteSet(S) /\ IsFiniteSet(T)
  BY Numbers, FS_Subset
<1> QED BY <1>1, TotalType, SumMonotone, MemUseAssumption DEF Total

(* The server refuses only when the client's own count left no room.       *)
LEMMA RefusedWarned ==
  ASSUME PipeInv, requests # << >>, Head(requests).op = "runTestHarness",
         RefuseRun(Head(requests).arg)
  PROVE  call.warned
<1>1. session = "idle" /\ memorySize + Head(requests).arg > MemorySizeMax
  BY DEF RefuseRun
<1>2. user = "accept" /\ Head(requests).arg = MemUse[trans_id] /\ trans_id \in Trans
  BY AskedFacts DEF PipeInv, Asking, AskedBy, CallInv
<1>3. PICK T \in SUBSET Trans : T = pl_threads
  BY DEF pl_threads
<1>4. PICK S \in SUBSET Trans : S = Unfinished
  <2>1. Unfinished \subseteq Trans
    BY RangeOfSeq DEF Unfinished, PipeInv, CallInv, PipeTypeOK
  <2> QED BY <2>1
<1>5. memorySize = Total(T)
  BY <1>1, <1>3 DEF PipeInv, ServerInv, AccountInv, Accounted, MgrUp
<1>6. Total(T) \in Nat /\ Total(S) \in Nat /\ Total(T) <= Total(S)
  BY <1>1, <1>3, <1>4, ThreadsUnfinished, TotalSubset
<1>7. MemUse[trans_id] \in Nat /\ MemorySizeMax \in Nat
  BY <1>2, MemUseAssumption, MemorySizeMaxAssumption
<1>8. ~(MemUse[trans_id] + Total(S) <= MemorySizeMax)
  BY <1>1, <1>2, <1>5, <1>6, <1>7
<1> QED BY <1>2, <1>4, <1>8 DEF PipeInv, RoomInv

LEMMA RoomSession ==
  ASSUME PipeInv, SessionThread
  PROVE  RoomInv'
<1> USE DEF Reply
<1>0. /\ UNCHANGED <<user, call, trans_id, waiter, pending>> /\ RoomInv /\ ExchangeInv
  BY SessionEffects DEF PipeInv, clientVars, userVars
<1>1. ASSUME RefusalWarned'
      PROVE  RoomInv'
  BY <1>0, <1>1 DEF RoomInv, RefusalWarned, RefusedOnlyIfWarned, Unfinished
<1>2. ASSUME UNCHANGED replies
      PROVE  RoomInv'
  BY <1>0, <1>1, <1>2 DEF RoomInv, RefusalWarned, Answer
<1>3. requests # << >> \/ session = "joining" => replies = << >>
  BY <1>0 DEF ExchangeInv, RepliesInv
<1>4. CASE ServeRun
  <2>1. requests # << >> /\ Head(requests).op = "runTestHarness"
    BY <1>4 DEF ServeRun, Serve
  <2>2. CASE /\ RefuseRun(Head(requests).arg)
             /\ replies' = Append(replies, [op |-> "runTestHarness", accepted |-> FALSE])
    BY <1>0, <1>1, <2>1, <2>2, RefusedWarned DEF RefusalWarned
  <2>3. CASE replies' = Append(replies, [op |-> "runTestHarness", accepted |-> TRUE])
    BY <1>1, <1>3, <2>1, <2>3, FirstFacts DEF RefusalWarned, Answer
  <2> QED BY <1>4, <2>2, <2>3 DEF ServeRun
<1>5. ASSUME NEW r, replies = << >>, replies' = Append(replies, r), r.op # "runTestHarness"
      PROVE  RoomInv'
  BY <1>1, <1>5, FirstFacts DEF RefusalWarned, Answer
<1>6. CASE ServeQuery
  BY <1>2, <1>3, <1>5, <1>6 DEF ServeQuery, Serve
<1>7. CASE ServeResult
  BY <1>3, <1>5, <1>7 DEF ServeResult, DeliverResult, Deliver
<1>8. CASE ServeGetTimeOut \/ ServeWaitForGraph
  BY <1>3, <1>5, <1>8 DEF ServeGetTimeOut, ServeWaitForGraph, Serve
<1>9. CASE \/ ServeData \/ ServeSpawn \/ ServeWait \/ ServeSetTimeOut
           \/ ServeDestroy \/ ServeDestructor
  BY <1>2, <1>9 DEF ServeData, ServeSpawn, ServeWait, ServeSetTimeOut, ServeDestroy,
     ServeDestructor, wireVars
<1> QED BY <1>4, <1>6, <1>7, <1>8, <1>9 DEF SessionThread

(* Waiters only finish.                                                    *)
LEMMA RoomWaiter ==
  ASSUME PipeInv, NEW t \in Trans, WaiterStep(t) \/ WaiterLock(t)
  PROVE  RoomInv'
<1>0. /\ UNCHANGED userVars /\ waiter \in [Trans -> WaiterPCs] /\ waiter[t] # "exited"
      /\ \E to \in WaiterPCs : waiter' = [waiter EXCEPT ![t] = to]
      /\ RoomInv /\ CallInv /\ ExchangeInv
      /\ Range(pending) \subseteq Trans
      /\ user \in {"run", "accept"} => trans_id \in Trans
  BY WaiterEffects, RangeOfSeq DEF PipeInv, CallInv, PipeTypeOK
<1>1. UNCHANGED <<trans_id, pending, user, call>>
  BY <1>0 DEF userVars
<1>2. Unfinished' \subseteq Unfinished /\ Unfinished \subseteq Trans
  BY <1>0, <1>1 DEF Unfinished
<1>3. ASSUME user \in {"run", "accept"}, ~call.warned, NEW S \in SUBSET Trans, S = Unfinished'
      PROVE  MemUse[trans_id] + Total(S) <= MemorySizeMax
  <2>1. PICK U \in SUBSET Trans : U = Unfinished
    BY <1>2
  <2>2. Total(S) \in Nat /\ Total(U) \in Nat /\ Total(S) <= Total(U)
    BY <1>2, <1>3, <2>1, TotalSubset
  <2>3. MemUse[trans_id] + Total(U) <= MemorySizeMax
    BY <1>0, <1>3, <2>1 DEF RoomInv
  <2>4. MemUse[trans_id] \in Nat /\ MemorySizeMax \in Nat
    BY <1>0, <1>3, MemUseAssumption, MemorySizeMaxAssumption
  <2> QED BY <2>2, <2>3, <2>4
<1>4. replies' = replies \/ replies' = << >>
  BY <1>0, AnswerFacts DEF WaiterStep, WaiterLock, CheckLimit, ReceiveAnswer, ReceiveStatus,
     ReceiveData, HandleOutputs, LockQuery, SendQuery, SendWait, Send, Receive, wireVars
<1>5. RefusalWarned'
  BY <1>0, <1>1, <1>4 DEF RoomInv, RefusalWarned, Answer
<1>6. RefusedOnlyIfWarned'
  BY <1>0, <1>1 DEF RoomInv, RefusedOnlyIfWarned
<1>7. (user \in {"run", "accept"} /\ ~call.warned =>
         \A S \in SUBSET Trans : S = Unfinished => MemUse[trans_id] + Total(S) <= MemorySizeMax)'
  BY <1>1, <1>3
<1> QED BY <1>5, <1>6, <1>7 DEF RoomInv, RefusalWarned

LEMMA RoomUser ==
  ASSUME PipeInv, NewCall \/ UserLock \/ UserStep
  PROVE  RoomInv'
<1> USE DEF Step, transVars, mtxVars, wireVars
<1>0. /\ RoomInv /\ CallInv /\ ExchangeInv /\ call \in Call
      /\ Unfinished \subseteq Trans
  BY RangeOfSeq DEF PipeInv, CallInv, PipeTypeOK, Unfinished
<1>1. replies' = replies \/ (replies # << >> /\ replies' = << >>)
  <2>1. replies # << >> => Tail(replies) = << >>
    BY <1>0, AnswerFacts
  <2>2. replies' = replies \/ (replies # << >> /\ replies' = Tail(replies))
    BY DEF NewCall, UserLock, UserStep, RunTestHarnessCall, RejectedLocally, WaitForRes,
       Destroy, SendRun, SendGetTimeOut, ExtendTimeOut, SendWaitForGraph, RestoreTimeOut,
       RunRefused, RunAccepted, GotTimeOut, LimitOldest, JoinOldest, EndLoop, GotGraph,
       Ask, Tell, Send, Answered, Receive
  <2> QED BY <2>1, <2>2
<1>2. replies # << >> /\ Answer.op = "runTestHarness" => user = "accept"
  BY <1>0, AnswerFacts DEF AnsweredTo
<1>3. ASSUME UNCHANGED call \/ user # "accept" \/ replies' = << >>
      PROVE  RefusalWarned'
  BY <1>0, <1>1, <1>2, <1>3 DEF RoomInv, RefusalWarned, Answer
<1>4. ASSUME UNCHANGED <<call, trans_id, waiter, pending>>, user' \in {"run", "accept"} => user = "run"
      PROVE  RoomInv'
  BY <1>0, <1>3, <1>4 DEF RoomInv, RefusalWarned, RefusedOnlyIfWarned, Unfinished
<1>5. ASSUME user' \notin {"run", "accept"}, RefusedOnlyIfWarned',
             UNCHANGED call \/ user # "accept" \/ replies' = << >>
      PROVE  RoomInv'
  BY <1>3, <1>5 DEF RoomInv, RefusalWarned
<1>6. CASE RunTestHarnessCall
  <2> DEFINE b == MemUse[trans_id + 1] + PendingUsage > MemorySizeMax
  <2>1. /\ trans_id' = trans_id + 1 /\ trans_id' \in Trans /\ user = "idle"
        /\ UNCHANGED <<waiter, pending>>
    BY <1>6 DEF RunTestHarnessCall
  <2>2. call' = [NoCall EXCEPT !.warned = b]
    BY <1>6, Zenon DEF RunTestHarnessCall
  <2>3. PendingUsage = Total(Unfinished)
    BY DEF PendingUsage, Usage, Total, Unfinished, SumOf, SumFunctionOnSet, FoldFunctionOnSet,
       MapThenSumSet
  <2>4. (call'.warned <=> b) /\ call'.outcome = "none"
    <3>1. b \in BOOLEAN
      OBVIOUS
    <3> HIDE DEF b
    <3> QED BY <2>2, <3>1 DEF NoCall
  <2>5. ASSUME ~b, NEW S \in SUBSET Trans, S = Unfinished'
        PROVE  MemUse[trans_id'] + Total(S) <= MemorySizeMax
    <3>1. S = Unfinished
      BY <2>1, <2>5 DEF Unfinished
    <3>2. Total(S) \in Nat
      BY TotalSubset
    <3>3. MemUse[trans_id'] \in Nat /\ MemorySizeMax \in Nat
      BY <2>1, MemUseAssumption, MemorySizeMaxAssumption
    <3>4. PendingUsage = Total(S)
      BY <2>3, <3>1
    <3> QED BY <2>1, <2>5, <3>2, <3>3, <3>4
  <2> HIDE DEF b
  <2>6. RefusalWarned' /\ RefusedOnlyIfWarned'
    BY <1>3, <2>1, <2>4 DEF RefusedOnlyIfWarned
  <2>7. (user \in {"run", "accept"} /\ ~call.warned =>
           \A S \in SUBSET Trans : S = Unfinished => MemUse[trans_id] + Total(S) <= MemorySizeMax)'
    BY <2>4, <2>5
  <2> QED BY <2>6, <2>7 DEF RoomInv, RefusalWarned
<1>7. CASE RejectedLocally
  BY <1>5, <1>7 DEF RejectedLocally, RefusedOnlyIfWarned, NoCall
<1>8. ASSUME NEW number, NEW ms, WaitForRes(number, ms)
      PROVE  RoomInv'
  BY <1>5, <1>8 DEF WaitForRes, RefusedOnlyIfWarned, NoCall
<1>9. CASE SendRun \/ SendGetTimeOut \/ ExtendTimeOut \/ SendWaitForGraph \/ Destroy
  BY <1>4, <1>9 DEF SendRun, SendGetTimeOut, ExtendTimeOut, SendWaitForGraph, Destroy
<1>10. CASE RestoreTimeOut
  <2>1. call'.outcome \in {"returned", "threw"}
    BY <1>0, <1>10 DEF RestoreTimeOut, Return, Call
  <2> QED BY <1>5, <1>10, <2>1 DEF RestoreTimeOut, RefusedOnlyIfWarned
<1>11. CASE RunRefused
  <2>1. replies # << >> /\ ~Answer.accepted /\ Answer.op = "runTestHarness"
        /\ replies' = Tail(replies)
    BY <1>0, <1>11, AnswerFacts DEF RunRefused, Answered, Receive
  <2>2. call.warned /\ replies' = << >>
    BY <1>0, <2>1, AnswerFacts DEF RoomInv
  <2>3. call'.warned
    BY <1>0, <1>11, <2>2 DEF RunRefused, Return, Call
  <2> QED BY <1>5, <1>11, <2>2, <2>3 DEF RunRefused, RefusedOnlyIfWarned
<1>12. CASE RunAccepted
  <2>1. call'.outcome = "submitted"
    BY <1>0, <1>12 DEF RunAccepted, Return, Call
  <2>2. replies' = << >> /\ user' = "idle"
    BY <1>12, SubmitFacts
  <2> QED BY <1>5, <2>1, <2>2 DEF RefusedOnlyIfWarned
<1>13. CASE GotTimeOut
  <2>1. call'.outcome = call.outcome /\ call'.warned = call.warned
    BY <1>0, <1>13 DEF GotTimeOut, Call
  <2> QED BY <1>0, <1>5, <1>13, <2>1 DEF GotTimeOut, RefusedOnlyIfWarned, RoomInv
<1>14. CASE JoinOldest
  <2>1. call'.outcome = call.outcome /\ call'.warned = call.warned
    BY <1>0, <1>14 DEF JoinOldest, Call
  <2> QED BY <1>0, <1>5, <1>14, <2>1 DEF JoinOldest, RefusedOnlyIfWarned, RoomInv
<1>15. CASE LimitOldest \/ EndLoop \/ GotGraph
  BY <1>4, <1>15 DEF LimitOldest, EndLoop, GotGraph
<1> QED BY <1>6, <1>7, <1>8, <1>9, <1>10, <1>11, <1>12, <1>13, <1>14, <1>15
        DEF NewCall, UserLock, UserStep

LEMMA RoomStep ==
  ASSUME PipeInv, [PipeNext]_pipeVars
  PROVE  RoomInv'
<1>1. ASSUME Background
      PROVE  RoomInv'
  BY <1>1 DEF Background, clientVars, userVars, wireVars, PipeInv, RoomInv,
     RefusedOnlyIfWarned, Unfinished, Answer
<1> QED BY <1>1, RoomSession, RoomWaiter, RoomUser, BackgroundEffects
        DEF PipeNext, PipeInv, ServerInv

-----------------------------------------------------------------------------
(* The interval: what is still on its way decides where it settles.        *)

LEMMA SettleSilent ==
  ASSUME CallInv, NEW v, SettlesAt(v), UNCHANGED interval,
         NEW r \in Requests, r.op # "setTimeOut", requests' = Append(requests, r)
  PROVE  SettlesAt(v)'
<1>1. requests \in Seq(Requests)
  BY DEF CallInv, PipeTypeOK
<1>2. /\ Len(requests) \in Nat /\ DOMAIN requests = 1 .. Len(requests)
      /\ DOMAIN requests' = 1 .. Len(requests) + 1
      /\ \A i \in DOMAIN requests' : i \in DOMAIN requests \/ i = Len(requests) + 1
      /\ \A i \in DOMAIN requests : requests'[i] = requests[i]
      /\ requests'[Len(requests) + 1] = r
  BY <1>1, PushFacts
<1>3. \A i : IsSet(i)' <=> IsSet(i)
  BY <1>2 DEF IsSet
<1>4. \A i \in DOMAIN requests : i \in DOMAIN requests'
  BY <1>2
<1>5. ASSUME NEW i \in DOMAIN requests', IsSet(i)', \A j \in DOMAIN requests' : IsSet(j)' => j <= i
      PROVE  requests'[i] = requests[i] /\ requests[i].arg = v
  BY <1>2, <1>3, <1>4, <1>5 DEF SettlesAt, IsSet
<1>6. (\A i \in DOMAIN requests' : ~IsSet(i)') => interval' = v
  BY <1>3, <1>4 DEF SettlesAt
<1> QED BY <1>5, <1>6 DEF SettlesAt

LEMMA SettleTold ==
  ASSUME CallInv, NEW v,
         NEW r \in Requests, r.op = "setTimeOut", r.arg = v, requests' = Append(requests, r)
  PROVE  SettlesAt(v)'
<1>1. requests \in Seq(Requests)
  BY DEF CallInv, PipeTypeOK
<1>2. PICK n \in Nat \ {0} : DOMAIN requests' = 1 .. n /\ requests'[n] = r
  <2>1. Len(requests) + 1 \in Nat \ {0}
    BY <1>1, PushFacts
  <2> QED BY <1>1, <2>1, PushFacts
<1>3. n \in DOMAIN requests' /\ IsSet(n)'
  BY <1>2 DEF IsSet
<1>4. ASSUME NEW i \in DOMAIN requests', \A j \in DOMAIN requests' : IsSet(j)' => j <= i
      PROVE  requests'[i].arg = v
  <2>1. i = n
    BY <1>2, <1>3, <1>4
  <2> QED BY <1>2, <2>1
<1> QED BY <1>3, <1>4 DEF SettlesAt

(* A served request leaves the others in order.                            *)
LEMMA SettleServed ==
  ASSUME CallInv, NEW v, SettlesAt(v), requests # << >>, requests' = Tail(requests),
         interval' = IF Head(requests).op = "setTimeOut" THEN Head(requests).arg ELSE interval
  PROVE  SettlesAt(v)'
<1>1. requests \in Seq(Requests)
  BY DEF CallInv, PipeTypeOK
<1>2. /\ Head(requests) = requests[1] /\ 1 \in DOMAIN requests
      /\ Len(requests) \in Nat \ {0} /\ DOMAIN requests = 1 .. Len(requests)
      /\ DOMAIN requests' = 1 .. Len(requests) - 1
      /\ \A i \in DOMAIN requests' : i + 1 \in DOMAIN requests /\ requests'[i] = requests[i + 1]
  BY <1>1, PopFacts
<1>3. \A i \in DOMAIN requests' : i \in Nat \ {0} /\ (IsSet(i)' <=> IsSet(i + 1))
  BY <1>2 DEF IsSet
<1>4. \A j \in DOMAIN requests : j = 1 \/ \E k \in DOMAIN requests' : j = k + 1
  <2> SUFFICES ASSUME NEW j \in DOMAIN requests, j # 1
               PROVE  \E k \in DOMAIN requests' : j = k + 1
    OBVIOUS
  <2>1. j - 1 \in DOMAIN requests' /\ j = (j - 1) + 1
    BY <1>2
  <2> QED BY <2>1
<1>5. ASSUME NEW i \in DOMAIN requests', IsSet(i)', \A j \in DOMAIN requests' : IsSet(j)' => j <= i
      PROVE  requests'[i].arg = v
  <2>1. i + 1 \in DOMAIN requests /\ IsSet(i + 1) /\ i \in Nat
    BY <1>2, <1>3, <1>5
  <2>2. \A j \in DOMAIN requests : IsSet(j) => j <= i + 1
    <3> SUFFICES ASSUME NEW j \in DOMAIN requests, IsSet(j) PROVE j <= i + 1
      OBVIOUS
    <3>1. CASE j = 1
      BY <2>1, <3>1
    <3>2. ASSUME NEW k \in DOMAIN requests', j = k + 1 PROVE j <= i + 1
      BY <1>3, <1>5, <2>1, <3>2
    <3> QED BY <1>4, <3>1, <3>2
  <2> QED BY <1>2, <2>1, <2>2 DEF SettlesAt
<1>6. ASSUME \A i \in DOMAIN requests' : ~IsSet(i)'
      PROVE  interval' = v
  <2>1. \A j \in DOMAIN requests : IsSet(j) => j = 1
    BY <1>3, <1>4, <1>6
  <2>2. CASE Head(requests).op = "setTimeOut"
    <3>1. IsSet(1) /\ \A j \in DOMAIN requests : IsSet(j) => j <= 1
      BY <1>2, <2>1, <2>2 DEF IsSet
    <3> QED BY <1>2, <2>2, <3>1 DEF SettlesAt
  <2>3. CASE Head(requests).op # "setTimeOut"
    BY <1>2, <2>1, <2>3 DEF SettlesAt, IsSet
  <2> QED BY <2>2, <2>3
<1> QED BY <1>5, <1>6 DEF SettlesAt

(* The client reads the interval when nothing is on its way.               *)
LEMMA SettledWhenRead ==
  ASSUME SettlesAt(WatchdogInterval), CallInv, ExchangeInv, requests # << >>,
         Head(requests).op = "getTimeOut"
  PROVE  interval = WatchdogInterval
<1>1. requests \in Seq(Requests) /\ Tail(requests) = << >>
  BY AskedFacts DEF CallInv, PipeTypeOK, Asking
<1>2. PICK n \in Nat : DOMAIN Tail(requests) = 1 .. n /\ DOMAIN requests = 1 .. n + 1
  <2>1. /\ Len(requests) - 1 \in Nat
        /\ DOMAIN Tail(requests) = 1 .. Len(requests) - 1
        /\ DOMAIN requests = 1 .. (Len(requests) - 1) + 1
    BY <1>1, PopFacts
  <2> QED BY <2>1
<1>3. n = 0
  <2>1. DOMAIN Tail(requests) = {}
    BY <1>1
  <2>2. n # 0 => 1 \in 1 .. n
    OBVIOUS
  <2> QED BY <1>2, <2>1, <2>2
<1>4. Head(requests) = requests[1]
  BY <1>1, PopFacts
<1> QED BY <1>2, <1>3, <1>4 DEF SettlesAt, IsSet

LEMMA IntervalSession ==
  ASSUME PipeInv, SessionThread
  PROVE  IntervalInv'
<1> USE DEF Reply, Serve
<1>0. /\ UNCHANGED <<user, call>> /\ IntervalInv /\ ExchangeInv /\ CallInv
  BY SessionEffects DEF PipeInv, clientVars, userVars
<1>1. SettlesAt(WatchdogInterval) => SettlesAt(WatchdogInterval)'
  <2>1. CASE UNCHANGED <<requests, interval>>
    BY <2>1 DEF SettlesAt, IsSet
  <2>2. \/ /\ requests # << >> /\ requests' = Tail(requests)
           /\ interval' = IF Head(requests).op = "setTimeOut" THEN Head(requests).arg ELSE interval
        \/ UNCHANGED <<requests, interval>>
    BY DEF SessionThread, ServeRun, ServeData, ServeSpawn, ServeQuery, ServeWait, ServeResult,
       ServeGetTimeOut, ServeSetTimeOut, ServeWaitForGraph, ServeDestroy, ServeDestructor,
       wireVars
  <2> QED BY <1>0, <2>1, <2>2, SettleServed
<1>2. replies' # << >> /\ Answer'.op = "getTimeOut" => Answer'.seconds = WatchdogInterval
  <2>1. CASE UNCHANGED replies
    BY <1>0, <2>1 DEF IntervalInv, Answer
  <2>2. requests # << >> \/ session = "joining" => replies = << >>
    BY <1>0 DEF ExchangeInv, RepliesInv
  <2>3. ASSUME NEW r, replies = << >>, replies' = Append(replies, r), r.op # "getTimeOut"
        PROVE  Answer'.op # "getTimeOut"
    BY <2>3, FirstFacts DEF Answer
  <2>4. CASE ServeGetTimeOut
    <3>1. user = "gotTimeOut"
      BY <1>0, <2>4, AskedFacts DEF ServeGetTimeOut, Asking, AskedBy
    <3>2. interval = WatchdogInterval
      BY <1>0, <2>4, <3>1, SettledWhenRead DEF ServeGetTimeOut, IntervalInv
    <3> QED BY <2>2, <2>4, <3>2, FirstFacts DEF ServeGetTimeOut, Answer
  <2>5. CASE ServeRun \/ ServeQuery \/ ServeResult \/ ServeWaitForGraph
    BY <2>1, <2>2, <2>3, <2>5 DEF ServeRun, ServeQuery, ServeResult, ServeWaitForGraph,
       DeliverResult, Deliver
  <2>6. CASE \/ ServeData \/ ServeSpawn \/ ServeWait \/ ServeSetTimeOut
             \/ ServeDestroy \/ ServeDestructor
    BY <2>1, <2>6 DEF ServeData, ServeSpawn, ServeWait, ServeSetTimeOut, ServeDestroy,
       ServeDestructor, wireVars
  <2> QED BY <2>4, <2>5, <2>6 DEF SessionThread
<1> QED BY <1>0, <1>1, <1>2 DEF IntervalInv

LEMMA IntervalWaiter ==
  ASSUME PipeInv, NEW t \in Trans, WaiterStep(t) \/ WaiterLock(t)
  PROVE  IntervalInv'
<1>0. /\ UNCHANGED <<user, call, interval>> /\ IntervalInv /\ ExchangeInv /\ CallInv
  BY WaiterEffects DEF PipeInv, userVars
<1>1. replies' = replies \/ replies' = << >>
  BY <1>0, AnswerFacts DEF WaiterStep, WaiterLock, CheckLimit, ReceiveAnswer, ReceiveStatus,
     ReceiveData, HandleOutputs, LockQuery, SendQuery, SendWait, Send, Receive, wireVars
<1>2. SettlesAt(WatchdogInterval) => SettlesAt(WatchdogInterval)'
  <2>1. CASE requests' = requests
    BY <1>0, <2>1 DEF SettlesAt, IsSet
  <2>2. requests' = requests
        \/ \E r \in Requests : r.op # "setTimeOut" /\ requests' = Append(requests, r)
    <3>1. clientLimit[t] \in Nat
      BY <1>0 DEF CallInv, PipeTypeOK
    <3>2. \A op \in {"queryTransactionStatus", "waitForTestHarness"}, n \in Nat :
             [op |-> op, trans |-> t, arg |-> n] \in Requests
      BY DEF Requests
    <3> QED BY <3>1, <3>2 DEF WaiterStep, WaiterLock, CheckLimit, ReceiveAnswer, ReceiveStatus,
       ReceiveData, HandleOutputs, LockQuery, SendQuery, SendWait, Send, Receive, wireVars
  <2> QED BY <1>0, <2>1, <2>2, SettleSilent
<1> QED BY <1>0, <1>1, <1>2 DEF IntervalInv, Answer

(* The application extends the interval and puts back what it read.        *)
LEMMA IntervalUser ==
  ASSUME PipeInv, NewCall \/ UserLock \/ UserStep
  PROVE  IntervalInv'
<1> USE DEF Step, wireVars, mtxVars
<1>0. /\ UNCHANGED interval /\ IntervalInv /\ ExchangeInv /\ CallInv /\ call \in Call
      /\ trans_id \in Nat
  BY UserEffects DEF PipeInv, CallInv, PipeTypeOK
<1>1. replies' = replies \/ replies' = << >>
  <2>1. replies # << >> => Tail(replies) = << >>
    BY <1>0, AnswerFacts
  <2>2. replies' = replies \/ (replies # << >> /\ replies' = Tail(replies))
    BY DEF NewCall, UserLock, UserStep, RunTestHarnessCall, RejectedLocally, WaitForRes,
       Destroy, SendRun, SendGetTimeOut, ExtendTimeOut, SendWaitForGraph, RestoreTimeOut,
       RunRefused, RunAccepted, GotTimeOut, LimitOldest, JoinOldest, EndLoop, GotGraph,
       Ask, Tell, Send, Answered, Receive
  <2> QED BY <2>1, <2>2
<1>2. replies' # << >> /\ Answer'.op = "getTimeOut" => Answer'.seconds = WatchdogInterval
  BY <1>0, <1>1 DEF IntervalInv, Answer
<1>3. ASSUME SettlesAt(WatchdogInterval), requests' = requests
      PROVE  SettlesAt(WatchdogInterval)'
  BY <1>0, <1>3 DEF SettlesAt, IsSet
<1>4. ASSUME SettlesAt(WatchdogInterval),
             NEW r, r \in Requests, r.op # "setTimeOut", requests' = Append(requests, r)
      PROVE  SettlesAt(WatchdogInterval)'
  BY <1>0, <1>4, SettleSilent
<1>5. \A op \in {"runTestHarness", "data", "getTimeOut", "setTimeOut", "waitForGraph", "destroy"},
         u \in Trans \cup {NoTrans}, n \in Nat : [op |-> op, trans |-> u, arg |-> n] \in Requests
  BY DEF Requests
<1>6. CASE RunTestHarnessCall \/ RejectedLocally \/ RunRefused \/ EndLoop \/ LimitOldest
  BY <1>0, <1>2, <1>3, <1>6 DEF RunTestHarnessCall, RejectedLocally, RunRefused, EndLoop,
     LimitOldest, IntervalInv, Answered, Receive
<1>7. ASSUME NEW number, NEW ms, WaitForRes(number, ms)
      PROVE  IntervalInv'
  BY <1>0, <1>2, <1>3, <1>7 DEF WaitForRes, IntervalInv
<1>8. CASE Destroy
  BY <1>2, <1>8 DEF Destroy, IntervalInv
<1>9. CASE SendRun \/ SendGetTimeOut
  <2>1. SettlesAt(WatchdogInterval)
    BY <1>0, <1>9 DEF SendRun, SendGetTimeOut, IntervalInv
  <2>2. SendRun => MemUse[trans_id] \in Nat
    BY <1>0, MemUseAssumption DEF SendRun, CallInv
  <2>3. SettlesAt(WatchdogInterval)'
    BY <1>4, <1>5, <1>9, <2>1, <2>2 DEF SendRun, SendGetTimeOut, Ask, Send
  <2> QED BY <1>2, <1>9, <2>3 DEF SendRun, SendGetTimeOut, IntervalInv
<1>10. CASE RunAccepted
  <2>1. SettlesAt(WatchdogInterval)
    BY <1>0, <1>10 DEF RunAccepted, IntervalInv
  <2>2. trans_id \in Trans
    BY <1>10, SubmitFacts
  <2>3. SettlesAt(WatchdogInterval)'
    BY <1>4, <1>5, <1>10, <2>1, <2>2 DEF RunAccepted
  <2> QED BY <1>2, <1>10, <2>3 DEF RunAccepted, IntervalInv
<1>11. CASE GotTimeOut
  <2>1. /\ replies # << >> /\ user = "gotTimeOut" /\ requests' = requests
        /\ user' \in {"extend", "loop"}
        /\ user' = "extend" => Answer.seconds # 0
        /\ call' = [call EXCEPT !.server_timeout = Answer.seconds]
    BY <1>11 DEF GotTimeOut, Answered, Receive
  <2>2. Answer.seconds = WatchdogInterval
    BY <1>0, <2>1, AnswerFacts DEF IntervalInv
  <2>3. call'.server_timeout = WatchdogInterval
    BY <1>0, <2>1, <2>2 DEF Call
  <2>4. SettlesAt(WatchdogInterval)'
    BY <1>0, <1>3, <2>1 DEF IntervalInv
  <2> QED BY <1>2, <2>1, <2>2, <2>3, <2>4 DEF IntervalInv
<1>12. CASE ExtendTimeOut
  BY <1>0, <1>2, <1>12 DEF ExtendTimeOut, IntervalInv
<1>13. CASE JoinOldest
  <2>1. call'.server_timeout = call.server_timeout
    BY <1>0, <1>13 DEF JoinOldest, Call
  <2> QED BY <1>0, <1>2, <1>3, <1>13, <2>1 DEF JoinOldest, IntervalInv
<1>14. CASE SendWaitForGraph
  <2>1. call.ms \in Nat
    BY <1>0 DEF Call
  <2>2. SettlesAt(WatchdogInterval) => SettlesAt(WatchdogInterval)'
    BY <1>4, <1>5, <1>14, <2>1 DEF SendWaitForGraph, Ask, Send
  <2> QED BY <1>0, <1>2, <1>14, <2>2 DEF SendWaitForGraph, IntervalInv
<1>15. CASE GotGraph
  BY <1>0, <1>2, <1>3, <1>15 DEF GotGraph, Answered, Receive, IntervalInv
<1>16. CASE RestoreTimeOut
  <2>1. /\ call.server_timeout = WatchdogInterval /\ user' = "idle"
        /\ WatchdogInterval = 0 => SettlesAt(WatchdogInterval)
    BY <1>0, <1>16 DEF RestoreTimeOut, IntervalInv
  <2>2. CASE WatchdogInterval = 0
    BY <1>2, <1>3, <1>16, <2>1, <2>2 DEF RestoreTimeOut, IntervalInv
  <2>3. CASE WatchdogInterval # 0
    <3>1. requests' = Append(requests,
                       [op |-> "setTimeOut", trans |-> NoTrans, arg |-> WatchdogInterval])
      BY <1>16, <2>1, <2>3 DEF RestoreTimeOut, Tell, Send
    <3>2. SettlesAt(WatchdogInterval)'
      BY <1>0, <1>5, <3>1, IntervalAssumption, SettleTold
    <3> QED BY <1>2, <2>1, <3>2 DEF IntervalInv
  <2> QED BY <2>2, <2>3
<1> QED BY <1>6, <1>7, <1>8, <1>9, <1>10, <1>11, <1>12, <1>13, <1>14, <1>15, <1>16
        DEF NewCall, UserLock, UserStep

LEMMA IntervalStep ==
  ASSUME PipeInv, [PipeNext]_pipeVars
  PROVE  IntervalInv'
<1>1. ASSUME Background
      PROVE  IntervalInv'
  BY <1>1 DEF Background, clientVars, userVars, wireVars, PipeInv, IntervalInv, SettlesAt,
     IsSet, Answer
<1> QED BY <1>1, IntervalSession, IntervalWaiter, IntervalUser, BackgroundEffects
        DEF PipeNext, PipeInv, ServerInv

-----------------------------------------------------------------------------
(* The layers together.                                                    *)

LEMMA PipeInitInv == PipeInit => PipeInv
<1> SUFFICES ASSUME PipeInit PROVE PipeInv
  OBVIOUS
<1>1. ServerInv
  BY InitInv, AccountInit, ResultInit, OrderlyInit DEF PipeInit, ServerInv
<1>2. /\ DOMAIN requests = {} /\ DOMAIN pending = {} /\ Range(pending) = {}
      /\ DOMAIN transactions = {} /\ Range(transactions) = {}
      /\ pending \in Seq(Trans) /\ requests \in Seq(Requests) /\ replies \in Seq(Replies)
  BY EmptyFacts DEF PipeInit, Init
<1>3. /\ session = "idle" /\ MgrUp /\ ids = {} /\ freed = {} /\ transactions = << >>
  BY DEF PipeInit, Init, MgrUp
<1>4. CallInv
  <2>1. 0 \in 0 .. Cardinality(Trans)
    BY Numbers
  <2>2. NoCall \in Call
    BY DEF NoCall, Call, Outcomes
  <2> QED BY <1>2, <2>1, <2>2, IntervalAssumption
          DEF PipeInit, CallInv, PipeTypeOK, Threads, WaiterPCs, UserPCs, Statuses, BufferContents
<1>5. ExchangeInv
  BY <1>2, <1>3, UserAssumption, NoTransAssumption
     DEF PipeInit, ExchangeInv, RequestsInv, RepliesInv, OwnerInv
<1>6. ProgressInv
  BY <1>2, <1>3 DEF PipeInit, ProgressInv, KnownInv, TurnInv, NoServerFault, CleanClose,
     Submitted, InTransit, Increasing
<1>7. StoreInv
  BY DEF PipeInit, StoreInv, Submitted
<1>8. RoomInv
  BY DEF PipeInit, RoomInv, RefusedOnlyIfWarned, NoCall
<1>9. IntervalInv
  BY <1>2 DEF PipeInit, IntervalInv, SettlesAt
<1> QED BY <1>1, <1>4, <1>5, <1>6, <1>7, <1>8, <1>9 DEF PipeInv

LEMMA PipeStepInv ==
  ASSUME PipeInv, [PipeNext]_pipeVars
  PROVE  PipeInv'
<1>1. ServerInv'
  BY PipeIsServer, ServerStep DEF PipeInv
<1> QED BY <1>1, CallStep, ExchangeStep, ProgressStep, StoreStep, RoomStep, IntervalStep
        DEF PipeInv

(* Every reachable state of the client and the server together satisfies   *)
(* all the layers.                                                         *)
THEOREM PipeInvariance == PipeSpec => []PipeInv
<1>1. PipeInv /\ [PipeNext]_pipeVars => PipeInv'
  BY PipeStepInv
<1> QED BY <1>1, PipeInitInv, PTL DEF PipeSpec

-----------------------------------------------------------------------------
(* The properties the model checker checks on small instances, for every   *)
(* number of transactions, size, limit and watchdog interval.              *)

(* Every variable of the client and the connection keeps its type; in      *)
(* particular every answer is one the requests allow.                      *)
THEOREM PipeTypeCorrect == PipeSpec => []PipeTypeOK
<1>1. PipeInv => PipeTypeOK
  BY DEF PipeInv, CallInv
<1> QED BY <1>1, PipeInvariance, PTL

(* However the waiters contend for the two mutexes, the session never      *)
(* answers this client with an exception: waits arrive in deque order,     *)
(* identifiers are fresh and known, sizes match.                           *)
THEOREM NeverFaulted == PipeSpec => []NoServerFault
<1>1. PipeInv => NoServerFault
  BY DEF PipeInv, ProgressInv
<1> QED BY <1>1, PipeInvariance, PTL

(* A client that collected all its results leaves ~TestHarnessMgr no PL    *)
(* thread to run beside it or to destroy while it can still be joined.     *)
THEOREM ClosesCleanly == PipeSpec => []CleanClose
<1>1. PipeInv => CleanClose
  BY DEF PipeInv, ProgressInv
<1> QED BY <1>1, PipeInvariance, PTL

(* queryTransactionStatus never reaches the server for a transaction that  *)
(* waitForTestHarness has deleted: only the client's protocol prevents it, *)
(* since id2trans keeps the pointer.                                       *)
THEOREM NoQueryAfterDelete == PipeSpec => []QueriesFindLiveTransactions
<1>1. PipeInv => QueriesFindLiveTransactions
  <2> SUFFICES ASSUME PipeInv, NEW i \in DOMAIN requests,
                      requests[i].op = "queryTransactionStatus"
               PROVE  requests[i].trans \notin freed
    BY DEF QueriesFindLiveTransactions
  <2>1. requests[i].trans \in Trans /\ waiter[requests[i].trans] = "answer"
    BY DEF PipeInv, ExchangeInv, RequestsInv, Asking, AskedBy
  <2>2. MgrUp
    BY DEF PipeInv, ExchangeInv, OwnerInv
  <2> QED BY <2>1, <2>2 DEF PipeInv, ProgressInv, TurnInv
<1> QED BY <1>1, PipeInvariance, PTL

(* req_mtx makes a request and its answer one exchange: what a thread      *)
(* reads from the connection is the answer to its own request.             *)
THEOREM OwnAnswers == PipeSpec => []AnswersReachTheirCaller
<1>1. PipeInv => AnswersReachTheirCaller
  <2> SUFFICES ASSUME PipeInv, replies # << >>
               PROVE  /\ Len(replies) = 1
                      /\ Answer.op = "queryTransactionStatus" =>
                           reqMtx = Answer.trans /\ waiter[Answer.trans] = "answer"
                      /\ Answer.op = "waitForTestHarness" =>
                           /\ reqMtx = Answer.results.trans
                           /\ waiter[Answer.results.trans] \in {"status", "data"}
                      /\ Answer.op \notin {"queryTransactionStatus", "waitForTestHarness"} =>
                           reqMtx = User /\ user \in {"accept", "gotTimeOut", "gotGraph"}
    BY DEF AnswersReachTheirCaller, Answer
  <2>1. Len(replies) = 1 /\ AnsweredTo(Answer)
    BY DEF PipeInv, ExchangeInv, RepliesInv, Answer
  <2>2. Answer.op \in {"runTestHarness", "queryTransactionStatus", "waitForTestHarness",
                       "getTimeOut", "waitForGraph"}
    BY AnswerFacts DEF PipeInv, Replies
  <2> QED BY <2>1, <2>2 DEF AnsweredTo
<1> QED BY <1>1, PipeInvariance, PTL

(* When waitForRes has dropped a transaction its waiter has stored, in the *)
(* caller's buffers, what that transaction's own run produced: all of it   *)
(* unless the status the caller sees is TIMEOUT.                           *)
THEOREM CollectedIsStored == PipeSpec => []JoinedMeansStored
<1>1. PipeInv => JoinedMeansStored
  <2> SUFFICES ASSUME PipeInv, NEW t \in 1 .. trans_id,
                      t \notin Range(pending), waiter[t] # "none"
               PROVE  /\ t \in freed
                      /\ output[t] = hostBuf[t]
                      /\ clientStatus[t] = status[t]
                      /\ clientStatus[t] = "DONE" => output[t] = "complete"
                      /\ clientStatus[t] # "DONE" => clientStatus[t] = "TIMEOUT"
    BY DEF JoinedMeansStored
  <2>1. t \in Trans
    <3>1. trans_id \in 0 .. Cardinality(Trans)
      BY DEF PipeInv, CallInv
    <3> QED BY <3>1, Numbers
  <2>2. waiter[t] = "exited"
    BY <2>1 DEF PipeInv, ProgressInv, KnownInv, Submitted
  <2>3. t \in freed
    BY <2>1, <2>2 DEF PipeInv, ProgressInv, TurnInv
  <2>4. EndSeen(t) /\ clientStatus[t] = status[t] /\ output[t] = hostBuf[t]
    BY <2>1, <2>2 DEF PipeInv, StoreInv
  <2> QED BY <2>3, <2>4 DEF EndSeen
<1> QED BY <1>1, PipeInvariance, PTL

(* What the client counts as in use is never less than what the server     *)
(* does, so no transaction is refused without the warning.                 *)
THEOREM RefusalsWarned == PipeSpec => []RefusedOnlyIfWarned
<1>1. PipeInv => RefusedOnlyIfWarned
  BY DEF PipeInv, RoomInv
<1> QED BY <1>1, PipeInvariance, PTL

(* waitForRes leaves the watchdog with the interval of the server's        *)
(* command line, whatever limit it was given and however it returned.      *)
THEOREM IntervalPutBack == PipeSpec => []IntervalRestored
<1>1. PipeInv => IntervalRestored
  BY EmptySeq DEF PipeInv, IntervalInv, SettlesAt, IntervalRestored
<1> QED BY <1>1, PipeInvariance, PTL

(* What is proved of the server under any requests holds with this client. *)
THEOREM ServedSafely ==
  PipeSpec => [](/\ TypeOK /\ DriverIsFront /\ NoUseAfterDelete /\ FetchWritesOwnBuffers
                 /\ MemoryBounded /\ MemoryAccounting /\ ThreadPerTransaction)
<1>1. PipeInv => /\ TypeOK /\ DriverIsFront /\ NoUseAfterDelete /\ FetchWritesOwnBuffers
                 /\ MemoryBounded /\ MemoryAccounting /\ ThreadPerTransaction
  BY FrontDrives, AliveInUse, MemoryMatches, ThreadsMatch
     DEF PipeInv, ServerInv, IInv, MemoryBounded
<1> QED BY <1>1, PipeInvariance, PTL

(* Seen from the server's queue, this client's requests are submissions    *)
(* and answers in turn.                                                    *)
THEOREM PipelineServesQueue == PipeSpec => ImplementsQueue
<1>1. PipeInit => Queue!QueueInit
  BY QueueInitRefined DEF PipeInit
<1>2. PipeInv /\ [PipeNext]_pipeVars => [Queue!QueueNext]_(Queue!queueVars)
  BY PipeIsServer, Refines DEF PipeInv, ServerInv
<1> QED BY <1>1, <1>2, PipeInvariance, PTL DEF PipeSpec, ImplementsQueue, Queue!QueueSpec

-----------------------------------------------------------------------------
(* The client keeps the promises of ClientApi.                             *)

LEMMA ToldSame ==
  ASSUME UNCHANGED clientStatus
  PROVE  told' = told
BY DEF told

(* A status the program can tell apart changes for one transaction only.   *)
LEMMA ToldChange ==
  ASSUME NEW t \in Trans, NEW st \in Statuses, clientStatus \in [Trans -> Statuses],
         clientStatus' = [clientStatus EXCEPT ![t] = st]
  PROVE  /\ st \notin {"CREATED", "READY"} => told' = [told EXCEPT ![t] = st]
         /\ st \in {"CREATED", "READY"} /\ clientStatus[t] \in {"CREATED", "READY"} =>
              told' = told
<1>1. \A u \in Trans : clientStatus'[u] = IF u = t THEN st ELSE clientStatus[u]
  OBVIOUS
<1>2. ASSUME st \notin {"CREATED", "READY"}
      PROVE  told' = [told EXCEPT ![t] = st]
  <2>1. \A u \in Trans : told'[u] = [told EXCEPT ![t] = st][u]
    BY <1>1, <1>2 DEF told
  <2> QED BY <2>1 DEF told
<1>3. ASSUME st \in {"CREATED", "READY"}, clientStatus[t] \in {"CREATED", "READY"}
      PROVE  told' = told
  BY <1>1, <1>3 DEF told
<1> QED BY <1>2, <1>3

LEMMA PendingIs ==
  ASSUME pending \in Seq(Trans), NEW t \in Range(pending)
  PROVE  Api!IsPending(t)
BY DEF Api!IsPending, Range

(* A waiter concludes its own run and stores its output.                   *)
LEMMA WaiterKeepsApi ==
  ASSUME PipeInv, NEW t \in Trans, WaiterStep(t) \/ WaiterLock(t)
  PROVE  [Api!ApiNext]_(Api!apiVars)
<1>0. /\ CallInv /\ ExchangeInv /\ StoreInv
      /\ UNCHANGED <<vars, pending>> /\ Api!IsPending(t)
      /\ clientStatus \in [Trans -> Statuses]
  BY WaiterEffects, PendingIs DEF PipeInv, CallInv, PipeTypeOK, userVars
<1>1. ASSUME UNCHANGED <<clientStatus, output>>
      PROVE  UNCHANGED Api!apiVars
  BY <1>0, <1>1, ToldSame DEF Api!apiVars
<1>2. CASE ReceiveStatus(t)
  <2>1. replies # << >> /\ waiter[t] = "status" /\ UNCHANGED output
        /\ clientStatus' = [clientStatus EXCEPT ![t] = Answer.results.status]
    BY <1>2 DEF ReceiveStatus, Wait
  <2>2. Answer.op = "waitForTestHarness" /\ Answer.results.trans = t
    BY <1>0, <2>1, AnswerFacts
  <2>3. EndSeen(t) /\ Answer.results.status = status[t]
    BY <1>0, <2>1, <2>2 DEF StoreInv
  <2>4. /\ status[t] \in {"DONE", "TIMEOUT"} /\ status[t] \in Statuses
        /\ clientStatus' = [clientStatus EXCEPT ![t] = status[t]]
    BY <2>1, <2>3 DEF EndSeen, Statuses
  <2>5. told' = [told EXCEPT ![t] = status[t]]
    BY <1>0, <2>4, ToldChange
  <2>6. told[t] = "RUNNING" /\ output[t] = "initial"
    BY <1>0, <2>1 DEF StoreInv, told
  <2>7. Api!Conclude(t, status[t])
    BY <1>0, <2>1, <2>5, <2>6 DEF Api!Conclude
  <2> QED BY <2>4, <2>7 DEF Api!ApiNext
<1>3. CASE HandleOutputs(t)
  <2>1. waiter[t] = "outputs" /\ UNCHANGED clientStatus
        /\ output' = [output EXCEPT ![t] = clientData[t]]
    BY <1>3 DEF HandleOutputs, Wait
  <2>2. /\ EndSeen(t) /\ clientStatus[t] = status[t]
        /\ clientData[t] = hostBuf[t] /\ output[t] = "initial"
    BY <1>0, <2>1 DEF StoreInv
  <2>3. told[t] # "TIMEOUT" => clientData[t] # "partial"
    BY <2>2 DEF EndSeen, told
  <2>4. clientData[t] \in Api!Contents
    BY <2>2 DEF EndSeen, Api!Contents
  <2>5. told' = told
    BY <2>1, ToldSame
  <2>6. Api!Store(t, clientData[t])
    BY <1>0, <2>1, <2>2, <2>3, <2>5 DEF Api!Store
  <2> QED BY <2>4, <2>6 DEF Api!ApiNext
<1>4. CASE CheckLimit(t) \/ ReceiveAnswer(t) \/ ReceiveData(t) \/ WaiterLock(t)
  BY <1>1, <1>4 DEF CheckLimit, ReceiveAnswer, ReceiveData, WaiterLock, LockQuery, SendQuery,
     SendWait, transVars
<1> QED BY <1>2, <1>3, <1>4 DEF WaiterStep

(* The application's thread submits and collects.                          *)
LEMMA UserKeepsApi ==
  ASSUME PipeInv, NewCall \/ UserLock \/ UserStep
  PROVE  [Api!ApiNext]_(Api!apiVars)
<1>0. /\ CallInv /\ KnownInv /\ StoreInv
      /\ pending \in Seq(Trans) /\ clientStatus \in [Trans -> Statuses]
      /\ trans_id \in Nat
  BY DEF PipeInv, ProgressInv, CallInv, PipeTypeOK
<1>1. ASSUME UNCHANGED <<clientStatus, output, pending>>
      PROVE  UNCHANGED Api!apiVars
  BY <1>1, ToldSame DEF Api!apiVars
<1>2. CASE RunTestHarnessCall \/ RejectedLocally
  <2>1. PICK t \in Trans : t = trans_id + 1
    BY <1>2 DEF RunTestHarnessCall, RejectedLocally
  <2>2. PICK st \in {"CREATED", "READY"} : clientStatus' = [clientStatus EXCEPT ![t] = st]
    BY <1>2, <2>1 DEF RunTestHarnessCall, RejectedLocally
  <2>3. clientStatus[t] \in {"CREATED", "READY"}
    BY <1>0, <2>1 DEF KnownInv, StoreInv
  <2>4. told' = told
    BY <1>0, <2>2, <2>3, ToldChange DEF Statuses
  <2> QED BY <1>2, <2>4 DEF RunTestHarnessCall, RejectedLocally, Api!apiVars
<1>3. CASE RunAccepted
  <2>1. trans_id \in Trans /\ ~Submitted(trans_id)
    BY <1>3, SubmitFacts
  <2>2. /\ clientStatus' = [clientStatus EXCEPT ![trans_id] = "RUNNING"]
        /\ pending' = Append(pending, trans_id) /\ UNCHANGED output
    BY <1>3 DEF RunAccepted
  <2>3. told' = [told EXCEPT ![trans_id] = "RUNNING"]
    BY <1>0, <2>1, <2>2, ToldChange DEF Statuses
  <2>4. told[trans_id] = "new"
    BY <1>0, <2>1 DEF StoreInv, told
  <2>5. Api!Submit(trans_id)
    BY <2>2, <2>3, <2>4 DEF Api!Submit
  <2> QED BY <2>1, <2>5 DEF Api!ApiNext
<1>4. CASE JoinOldest
  <2>1. /\ pending # << >> /\ waiter[Head(pending)] = "exited" /\ pending' = Tail(pending)
        /\ UNCHANGED <<clientStatus, output>>
    BY <1>0, <1>4 DEF JoinOldest, Step, CallInv, transVars
  <2>2. PICK t \in Trans : t = Head(pending)
    BY <1>0, <2>1, PopFacts
  <2>3. /\ EndSeen(t) /\ clientStatus[t] = status[t] /\ output[t] = hostBuf[t]
    BY <1>0, <2>1, <2>2 DEF StoreInv
  <2>4. told[t] = "TIMEOUT" \/ (told[t] = "DONE" /\ output[t] = "complete")
    BY <2>3 DEF EndSeen, told
  <2>5. Api!Collect(t)
    BY <2>1, <2>2, <2>4, ToldSame DEF Api!Collect
  <2> QED BY <2>5 DEF Api!ApiNext
<1>5. ASSUME NEW number, NEW ms, WaitForRes(number, ms)
      PROVE  UNCHANGED Api!apiVars
  BY <1>1, <1>5 DEF WaitForRes, transVars
<1>6. CASE \/ Destroy \/ UserLock \/ RunRefused \/ GotTimeOut \/ LimitOldest
           \/ EndLoop \/ GotGraph
  BY <1>1, <1>6 DEF Destroy, UserLock, SendRun, SendGetTimeOut, ExtendTimeOut,
     SendWaitForGraph, RestoreTimeOut, RunRefused, GotTimeOut, LimitOldest, EndLoop,
     GotGraph, transVars
<1> QED BY <1>2, <1>3, <1>4, <1>5, <1>6 DEF NewCall, UserStep

(* The pipeline of threads, mutexes and messages implements ClientApi:     *)
(* runs are collected in submission order, each is told once, and the      *)
(* caller's buffer is written once, before the collecting call returns.    *)
THEOREM PipelineKeepsApi == PipeSpec => PipelineImplementsApi
<1>1. PipeInit => Api!ApiInit
  BY DEF PipeInit, Api!ApiInit, told
<1>2. PipeInv /\ [PipeNext]_pipeVars => [Api!ApiNext]_(Api!apiVars)
  <2>1. ASSUME UNCHANGED clientVars
        PROVE  UNCHANGED Api!apiVars
    BY <2>1, ToldSame DEF Api!apiVars, clientVars, transVars, userVars
  <2> QED BY <2>1, SessionEffects, BackgroundEffects, WaiterKeepsApi, UserKeepsApi
          DEF PipeNext, Background, PipeInv, ServerInv
<1> QED BY <1>1, <1>2, PipeInvariance, PTL
        DEF PipeSpec, PipelineImplementsApi, Api!ApiSpec
=============================================================================
