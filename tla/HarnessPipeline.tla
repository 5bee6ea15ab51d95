--------------------------- MODULE HarnessPipeline --------------------------
(***************************************************************************)
(* The client-side manager (include/ps/test_harness_mgr_client.hpp) and    *)
(* the server session it talks to, over one reliable connection.           *)
(*                                                                         *)
(* The application's thread (User) submits transactions and collects       *)
(* results; every accepted transaction has a waiter thread that polls the  *)
(* server, asks for the results and stores them.  req_mtx makes a request  *)
(* and its answer one exchange; query_mtx is meant to let one waiter poll  *)
(* at a time.  The server thread is HarnessServerMgr with its requests     *)
(* taken from the connection, plus the watchdog interval of                *)
(* src/ps/test_harness_session.cpp.                                        *)
(***************************************************************************)
EXTENDS HarnessServerMgr, SequencesExt

CONSTANTS
  User,                 (* the application's thread                        *)
  WatchdogInterval      (* seconds, from the server's command line; 0: off *)

ASSUME UserAssumption == User \notin Trans \cup {NoTrans}
ASSUME IntervalAssumption == WatchdogInterval \in Nat
ASSUME IdentifierAssumption ==
  IsFiniteSet(Trans) /\ Trans = 1 .. Cardinality(Trans)

VARIABLES
  trans_id,             (* transactions constructed so far                 *)
  clientStatus,         (* status of the client's transaction object       *)
  clientLimit,          (* mTimeOut of the client's transaction object     *)
  clientData,           (* from_aie_ptr and perf_ptr on the client         *)
  output,               (* args_rec[].data and perf_map: the caller's view *)
  pending,              (* pending_transactions                            *)
  reqMtx, queryMtx,     (* owners of req_mtx and query_mtx                 *)
  waiter,               (* where the waiter thread of a transaction is     *)
  user,                 (* where the application's thread is               *)
  call,                 (* locals of the call it is in                     *)
  requests, replies,    (* the two directions of the connection            *)
  interval              (* monitorInterval of the session                  *)

transVars == <<clientStatus, clientLimit, clientData, output>>
mtxVars == <<reqMtx, queryMtx>>
userVars == <<trans_id, pending, user, call>>
wireVars == <<requests, replies>>
clientVars == <<transVars, mtxVars, userVars, waiter>>
pipeVars == <<vars, clientVars, wireVars, interval>>

Threads == Trans \cup {User, NoTrans}

WaiterPCs == {"none", "lockQuery", "check", "query", "answer", "wait",
              "status", "data", "outputs", "exited"}

UserPCs == {"idle", "run", "accept", "getTimeOut", "gotTimeOut", "extend",
            "loop", "join", "graph", "gotGraph", "restore",
            "closed", "terminated"}

Outcomes == {"none", "submitted", "refused", "invalid", "returned", "threw"}

(* left counts below zero when number is 0; the code's wraps around.       *)
Call == [number : Nat, left : Int, ms : Nat, server_timeout : Nat,
         warned : BOOLEAN, outcome : Outcomes]

Requests == [op : {"runTestHarness", "data", "queryTransactionStatus",
                   "waitForTestHarness", "getTimeOut", "setTimeOut",
                   "waitForGraph", "destroy"},
             trans : Trans \cup {NoTrans}, arg : Nat]

(* An answer is tagged with the request it answers: the wire carries only  *)
(* its value, and a thread takes whatever comes next for its own.          *)
Replies ==
  [op : {"runTestHarness"}, accepted : BOOLEAN]
    \cup [op : {"queryTransactionStatus"}, trans : Trans, status : Statuses]
    \cup [op : {"waitForTestHarness"}, results : Results]
    \cup [op : {"getTimeOut"}, seconds : Nat]
    \cup [op : {"waitForGraph"}]

PipeTypeOK ==
  /\ trans_id \in Nat
  /\ clientStatus \in [Trans -> Statuses]
  /\ clientLimit \in [Trans -> Nat]
  /\ clientData \in [Trans -> BufferContents]
  /\ output \in [Trans -> BufferContents]
  /\ pending \in Seq(Trans)
  /\ reqMtx \in Threads
  /\ queryMtx \in Trans \cup {NoTrans}
  /\ waiter \in [Trans -> WaiterPCs]
  /\ user \in UserPCs
  /\ call \in Call
  /\ requests \in Seq(Requests)
  /\ replies \in Seq(Replies)
  /\ interval \in Nat

NoCall == [number |-> 0, left |-> 0, ms |-> 0, server_timeout |-> 0,
           warned |-> FALSE, outcome |-> "none"]

PipeInit ==
  /\ Init
  /\ trans_id = 0
  /\ clientStatus = [t \in Trans |-> "CREATED"]
  /\ clientLimit = [t \in Trans |-> 0]
  /\ clientData = [t \in Trans |-> "initial"]
  /\ output = [t \in Trans |-> "initial"]
  /\ pending = << >>
  /\ reqMtx = NoTrans
  /\ queryMtx = NoTrans
  /\ waiter = [t \in Trans |-> "none"]
  /\ user = "idle"
  /\ call = NoCall
  /\ requests = << >>
  /\ replies = << >>
  /\ interval = WatchdogInterval

-----------------------------------------------------------------------------
(* The connection.                                                         *)

Send(op, t, arg) ==
  /\ requests' = Append(requests, [op |-> op, trans |-> t, arg |-> arg])
  /\ UNCHANGED replies

Receive ==
  /\ replies # << >>
  /\ replies' = Tail(replies)
  /\ UNCHANGED requests

Answer == Head(replies)

Serve(op) ==
  /\ requests # << >>
  /\ Head(requests).op = op
  /\ requests' = Tail(requests)

Reply(r) == replies' = Append(replies, r)

-----------------------------------------------------------------------------
(* The server session, serving this client.                                *)

ServeRun ==
  /\ Serve("runTestHarness")
  /\ LET size == Head(requests).arg IN
       \/ RefuseRun(size) /\ Reply([op |-> "runTestHarness", accepted |-> FALSE])
       \/ AdmitRun(size) /\ Reply([op |-> "runTestHarness", accepted |-> TRUE])
  /\ UNCHANGED interval

ServeData ==
  /\ Serve("data")
  /\ LET t == Head(requests).trans IN
       CreateTransaction(t) \/ RejectTransaction(t, TRUE)
  /\ UNCHANGED <<replies, interval>>

ServeSpawn ==
  /\ SpawnPL
  /\ UNCHANGED <<wireVars, interval>>

ServeQuery ==
  /\ session = "idle"
  /\ Serve("queryTransactionStatus")
  /\ LET t == Head(requests).trans IN
       \/ /\ t \in ids
          /\ Reply([op |-> "queryTransactionStatus", trans |-> t,
                    status |-> status[t]])
          /\ UNCHANGED vars
       \/ /\ QueryTransactionStatus(t)
          /\ UNCHANGED replies
  /\ UNCHANGED interval

ServeWait ==
  /\ Serve("waitForTestHarness")
  /\ WaitForTestHarnessRequest(Head(requests).trans, Head(requests).arg)
  /\ UNCHANGED <<replies, interval>>

ServeResult ==
  /\ DeliverResult
  /\ Reply([op |-> "waitForTestHarness", results |-> Last(delivered')])
  /\ UNCHANGED <<requests, interval>>

ServeGetTimeOut ==
  /\ session = "idle"
  /\ Serve("getTimeOut")
  /\ Reply([op |-> "getTimeOut", seconds |-> interval])
  /\ UNCHANGED <<vars, interval>>

(* setTimeOut of the session refuses zero; the client never sends it.      *)
ServeSetTimeOut ==
  /\ session = "idle"
  /\ Serve("setTimeOut")
  /\ Head(requests).arg # 0
  /\ interval' = Head(requests).arg
  /\ UNCHANGED <<vars, replies>>

(* The graphs end in time or their wait is cut by the time limit; what     *)
(* they compute is not modelled here.                                      *)
ServeWaitForGraph ==
  /\ session = "idle"
  /\ Serve("waitForGraph")
  /\ Reply([op |-> "waitForGraph"])
  /\ UNCHANGED <<vars, interval>>

ServeDestroy ==
  /\ Serve("destroy")
  /\ DestroyMgr
  /\ UNCHANGED <<replies, interval>>

ServeDestructor == DestructorStep /\ UNCHANGED <<wireVars, interval>>

SessionThread ==
  /\ \/ ServeRun \/ ServeData \/ ServeSpawn \/ ServeQuery
     \/ ServeWait \/ ServeResult
     \/ ServeGetTimeOut \/ ServeSetTimeOut \/ ServeWaitForGraph
     \/ ServeDestroy \/ ServeDestructor
  /\ UNCHANGED clientVars

ServerPLThread(t) == PLThread(t) /\ UNCHANGED <<clientVars, wireVars, interval>>

ServerDevice == Device /\ UNCHANGED <<clientVars, wireVars, interval>>

-----------------------------------------------------------------------------
(* The waiter thread of transaction t: waitForTestHarness.                 *)

(* std::terminate in the destructor takes the waiters with it.             *)
ClientUp == user # "terminated"

Wait(t, from, to) ==
  /\ ClientUp
  /\ waiter[t] = from
  /\ waiter' = [waiter EXCEPT ![t] = to]
  /\ UNCHANGED <<vars, userVars, interval>>

LockQuery(t) ==
  /\ Wait(t, "lockQuery", "check")
  /\ queryMtx = NoTrans
  /\ queryMtx' = t
  /\ UNCHANGED <<transVars, reqMtx, wireVars>>

(* Variant: the waiter keeps polling whether or not a limit was set.       *)
CheckLimit_Ignored(t) ==
  /\ Wait(t, "check", "query")
  /\ UNCHANGED <<transVars, mtxVars, wireVars>>

(* while(trans->getTimeOut() == 0)                                         *)
CheckLimit(t) ==
  /\ Wait(t, "check", IF clientLimit[t] = 0 THEN "query" ELSE "wait")
  /\ UNCHANGED <<transVars, mtxVars, wireVars>>

(* Variant: req_mtx does not cover the answer.                             *)
SendQuery_Unlocked(t) ==
  /\ Wait(t, "query", "answer")
  /\ reqMtx = NoTrans
  /\ Send("queryTransactionStatus", t, 0)
  /\ UNCHANGED <<transVars, mtxVars>>

SendQuery(t) ==
  /\ Wait(t, "query", "answer")
  /\ reqMtx = NoTrans
  /\ reqMtx' = t
  /\ Send("queryTransactionStatus", t, 0)
  /\ UNCHANGED <<transVars, queryMtx>>

(* Variant: any answer ends the polling.                                   *)
ReceiveAnswer_Any(t) ==
  /\ Wait(t, "answer", "wait")
  /\ Receive
  /\ reqMtx' = NoTrans
  /\ UNCHANGED <<transVars, queryMtx>>

(* DONE or TIMEOUT ends the polling; otherwise sleep and check again.      *)
ReceiveAnswer(t) ==
  /\ \E next \in {"wait", "check"} :
       /\ Wait(t, "answer", next)
       /\ Receive
       /\ (next = "wait") <=> (Answer.status \in {"DONE", "TIMEOUT"})
  /\ reqMtx' = NoTrans
  /\ UNCHANGED <<transVars, queryMtx>>

(* req_mtx is taken before query_mtx is released.                          *)
SendWait(t) ==
  /\ Wait(t, "wait", "status")
  /\ reqMtx = NoTrans
  /\ reqMtx' = t
  /\ queryMtx' = NoTrans
  /\ Send("waitForTestHarness", t, clientLimit[t])
  /\ UNCHANGED transVars

ReceiveStatus(t) ==
  /\ Wait(t, "status", "data")
  /\ replies # << >>
  /\ clientStatus' = [clientStatus EXCEPT ![t] = Answer.results.status]
  /\ UNCHANGED <<clientLimit, clientData, output, mtxVars, wireVars>>

(* Variant: a waiter whose transaction timed out polls again.              *)
ReceiveData_Repolls(t) ==
  /\ Wait(t, "data", IF clientStatus[t] = "TIMEOUT" THEN "query" ELSE "outputs")
  /\ Receive
  /\ clientData' = [clientData EXCEPT ![t] = Answer.results.data]
  /\ reqMtx' = NoTrans
  /\ UNCHANGED <<clientStatus, clientLimit, output, queryMtx>>

ReceiveData(t) ==
  /\ Wait(t, "data", "outputs")
  /\ Receive
  /\ clientData' = [clientData EXCEPT ![t] = Answer.results.data]
  /\ reqMtx' = NoTrans
  /\ UNCHANGED <<clientStatus, clientLimit, output, queryMtx>>

HandleOutputs(t) ==
  /\ Wait(t, "outputs", "exited")
  /\ output' = [output EXCEPT ![t] = clientData[t]]
  /\ UNCHANGED <<clientStatus, clientLimit, clientData, mtxVars, wireVars>>

WaiterStep(t) ==
  \/ CheckLimit(t) \/ ReceiveAnswer(t)
  \/ ReceiveStatus(t) \/ ReceiveData(t) \/ HandleOutputs(t)

WaiterLock(t) == LockQuery(t) \/ SendQuery(t) \/ SendWait(t)

-----------------------------------------------------------------------------
(* The application's thread.                                               *)

Step(from, to) ==
  /\ user = from
  /\ user' = to
  /\ UNCHANGED <<vars, interval>>

(* An exchange of the application's thread: take req_mtx and send ...      *)
Ask(op, t, arg) ==
  /\ reqMtx = NoTrans
  /\ reqMtx' = User
  /\ Send(op, t, arg)
  /\ UNCHANGED queryMtx

(* ... then take the answer and release req_mtx.                           *)
Answered ==
  /\ Receive
  /\ reqMtx' = NoTrans
  /\ UNCHANGED queryMtx

(* A request without an answer, sent under req_mtx.                        *)
Tell(op, arg) ==
  /\ reqMtx = NoTrans
  /\ Send(op, NoTrans, arg)
  /\ UNCHANGED mtxVars

Return(outcome) == call' = [call EXCEPT !.outcome = outcome]

(* Memory of the pending transactions; handleOutputs clears their buffers. *)
Usage(ts) == MapThenSumSet(LAMBDA t : MemUse[t], ts)
PendingUsage == Usage({t \in Range(pending) : waiter[t] # "exited"})

(* Variant: only the transactions still being polled count.                *)
RunTestHarnessCall_WarnsLate ==
  LET t == trans_id + 1
      polled == {u \in Range(pending) : waiter[u] \in {"lockQuery", "check", "query"}}
  IN
  /\ t \in Trans
  /\ trans_id' = t
  /\ clientStatus' = [clientStatus EXCEPT ![t] = "READY"]
  /\ Step("idle", "run")
  /\ call' = [NoCall EXCEPT !.warned = MemUse[t] + Usage(polled) > MemorySizeMax]
  /\ UNCHANGED <<clientLimit, clientData, output, mtxVars, pending, waiter, wireVars>>

(* runTestHarness: a new transaction, and a warning when the pending ones  *)
(* leave no room for it.                                                   *)
RunTestHarnessCall ==
  LET t == trans_id + 1 IN
  /\ t \in Trans
  /\ MemUse[t] <= MemorySizeMax
  /\ trans_id' = t
  /\ clientStatus' = [clientStatus EXCEPT ![t] = "READY"]
  /\ Step("idle", "run")
  /\ call' = [NoCall EXCEPT !.warned = MemUse[t] + PendingUsage > MemorySizeMax]
  /\ UNCHANGED <<clientLimit, clientData, output, mtxVars, pending, waiter, wireVars>>

(* The arguments are invalid, or the transaction is too big for the server *)
(* on its own: an exception, with the identifier already used up.          *)
RejectedLocally ==
  LET t == trans_id + 1 IN
  /\ t \in Trans
  /\ trans_id' = t
  /\ clientStatus' = [clientStatus EXCEPT ![t] =
                        IF MemUse[t] > MemorySizeMax THEN "READY" ELSE "CREATED"]
  /\ Step("idle", "idle")
  /\ call' = [NoCall EXCEPT !.outcome = "invalid"]
  /\ UNCHANGED <<clientLimit, clientData, output, mtxVars, pending, waiter, wireVars>>

SendRun ==
  /\ Step("run", "accept")
  /\ Ask("runTestHarness", NoTrans, MemUse[trans_id])
  /\ UNCHANGED <<transVars, trans_id, pending, call, waiter>>

RunRefused ==
  /\ Step("accept", "idle")
  /\ Answered
  /\ ~Answer.accepted
  /\ Return("refused")
  /\ UNCHANGED <<transVars, trans_id, pending, waiter>>

(* Variant: pending_transactions is given the next identifier.             *)
RunAccepted_NextId ==
  /\ Step("accept", "idle")
  /\ replies # << >>
  /\ Answer.accepted
  /\ replies' = Tail(replies)
  /\ requests' = Append(requests, [op |-> "data", trans |-> trans_id, arg |-> 0])
  /\ reqMtx' = NoTrans
  /\ clientStatus' = [clientStatus EXCEPT ![trans_id] = "RUNNING"]
  /\ pending' = Append(pending, trans_id + 1)
  /\ waiter' = [waiter EXCEPT ![trans_id] = "lockQuery"]
  /\ Return("submitted")
  /\ UNCHANGED <<clientLimit, clientData, output, queryMtx, trans_id>>

(* Accepted: send the data, and leave a waiter thread behind.              *)
RunAccepted ==
  /\ Step("accept", "idle")
  /\ replies # << >>
  /\ Answer.accepted
  /\ replies' = Tail(replies)
  /\ requests' = Append(requests, [op |-> "data", trans |-> trans_id, arg |-> 0])
  /\ reqMtx' = NoTrans
  /\ clientStatus' = [clientStatus EXCEPT ![trans_id] = "RUNNING"]
  /\ pending' = Append(pending, trans_id)
  /\ waiter' = [waiter EXCEPT ![trans_id] = "lockQuery"]
  /\ Return("submitted")
  /\ UNCHANGED <<clientLimit, clientData, output, queryMtx, trans_id>>

(* waitForRes(ms, number): number 0 is every pending transaction and then  *)
(* the graphs.                                                             *)
WaitForRes(number, ms) ==
  /\ Step("idle", "getTimeOut")
  /\ call' = [NoCall EXCEPT !.number = number, !.left = number, !.ms = ms]
  /\ UNCHANGED <<transVars, mtxVars, trans_id, pending, waiter, wireVars>>

SendGetTimeOut ==
  /\ Step("getTimeOut", "gotTimeOut")
  /\ Ask("getTimeOut", NoTrans, 0)
  /\ UNCHANGED <<transVars, trans_id, pending, call, waiter>>

Seconds(ms) == (ms + 999) \div 1000

GotTimeOut ==
  /\ \E next \in {"extend", "loop"} :
       /\ Step("gotTimeOut", next)
       /\ Answered
       /\ (next = "extend") <=> (Seconds(call.ms) # 0 /\ Answer.seconds # 0)
  /\ call' = [call EXCEPT !.server_timeout = Answer.seconds]
  /\ UNCHANGED <<transVars, trans_id, pending, waiter>>

(* The watchdog must outlast the limit given to the transactions.          *)
ExtendTimeOut ==
  /\ Step("extend", "loop")
  /\ Tell("setTimeOut", Seconds(call.ms) + call.server_timeout)
  /\ UNCHANGED <<transVars, trans_id, pending, call, waiter>>

LoopOver == pending = << >> \/ (call.number # 0 /\ call.left = 0)

(* One round of the loop: hand the limit to the oldest transaction, ...    *)
LimitOldest ==
  /\ Step("loop", "join")
  /\ ~LoopOver
  /\ clientLimit' = [clientLimit EXCEPT ![Head(pending)] = call.ms]
  /\ UNCHANGED <<clientStatus, clientData, output, mtxVars, trans_id, pending,
                 call, waiter, wireVars>>

(* Variant: the waiter is not joined.                                      *)
JoinOldest_NoJoin ==
  /\ Step("join", "loop")
  /\ pending' = Tail(pending)
  /\ call' = [call EXCEPT !.left = @ - 1]
  /\ UNCHANGED <<transVars, mtxVars, trans_id, waiter, wireVars>>

(* Variant: the youngest is dropped in its place.                          *)
JoinOldest_PopsBack ==
  /\ Step("join", "loop")
  /\ waiter[Head(pending)] = "exited"
  /\ pending' = Front(pending)
  /\ call' = [call EXCEPT !.left = @ - 1]
  /\ UNCHANGED <<transVars, mtxVars, trans_id, waiter, wireVars>>

(* ... join its waiter and drop it.                                        *)
JoinOldest ==
  /\ Step("join", "loop")
  /\ waiter[Head(pending)] = "exited"
  /\ pending' = Tail(pending)
  /\ call' = [call EXCEPT !.left = @ - 1]
  /\ UNCHANGED <<transVars, mtxVars, trans_id, waiter, wireVars>>

EndLoop ==
  /\ Step("loop", IF call.number = 0 THEN "graph" ELSE "restore")
  /\ LoopOver
  /\ UNCHANGED <<transVars, mtxVars, trans_id, pending, call, waiter, wireVars>>

SendWaitForGraph ==
  /\ Step("graph", "gotGraph")
  /\ Ask("waitForGraph", NoTrans, call.ms)
  /\ UNCHANGED <<transVars, trans_id, pending, call, waiter>>

GotGraph ==
  /\ Step("gotGraph", "restore")
  /\ Answered
  /\ UNCHANGED <<transVars, trans_id, pending, call, waiter>>

(* Variant: the interval is restored only if one was set.                  *)
RestoreTimeOut_Skipped ==
  /\ Step("restore", "idle")
  /\ Return("returned")
  /\ UNCHANGED <<transVars, trans_id, pending, waiter, wireVars, mtxVars>>

(* setServerTimeOut(server_timeout), which refuses zero.                   *)
RestoreTimeOut ==
  /\ Step("restore", "idle")
  /\ \/ /\ call.server_timeout # 0
        /\ Tell("setTimeOut", call.server_timeout)
        /\ Return("returned")
     \/ /\ call.server_timeout = 0
        /\ Return("threw")
        /\ UNCHANGED <<wireVars, mtxVars>>
  /\ UNCHANGED <<transVars, trans_id, pending, waiter>>

(* The destructor: delete the transactions, send "destroy", and destroy    *)
(* transaction_threads, whose waiters must all have been joined.           *)
Destroy ==
  /\ Step("idle", IF pending = << >> THEN "closed" ELSE "terminated")
  /\ Tell("destroy", 0)
  /\ UNCHANGED <<transVars, trans_id, pending, call, waiter>>

NewCall ==
  \/ RunTestHarnessCall \/ RejectedLocally
  \/ \E number \in 0 .. Cardinality(Trans), ms \in TimeOuts : WaitForRes(number, ms)
  \/ Destroy

UserLock == SendRun \/ SendGetTimeOut \/ ExtendTimeOut \/ SendWaitForGraph \/ RestoreTimeOut

UserStep ==
  \/ RunRefused \/ RunAccepted
  \/ GotTimeOut \/ LimitOldest \/ JoinOldest \/ EndLoop \/ GotGraph

-----------------------------------------------------------------------------
PipeNext ==
  \/ NewCall \/ UserLock \/ UserStep
  \/ \E t \in Trans : WaiterStep(t) \/ WaiterLock(t) \/ ServerPLThread(t)
  \/ SessionThread
  \/ ServerDevice

PipeSpec == PipeInit /\ [][PipeNext]_pipeVars

(* Every thread is scheduled and a mutex released again and again is       *)
(* eventually taken by each thread that wants it; the application need not *)
(* call, and the device need not complete a run.                           *)
PipeFairness ==
  /\ WF_pipeVars(UserStep)
  /\ SF_pipeVars(UserLock)
  /\ \A t \in Trans : /\ WF_pipeVars(WaiterStep(t))
                      /\ SF_pipeVars(WaiterLock(t))
                      /\ WF_pipeVars(ServerPLThread(t))
  /\ WF_pipeVars(SessionThread)

PipeFairSpec == PipeSpec /\ PipeFairness
PipeResponsiveSpec == PipeFairSpec /\ WF_pipeVars(ServerDevice)

-----------------------------------------------------------------------------
(* Properties.                                                             *)

(* No request of this client is ever answered with an exception: waits     *)
(* arrive in the order of the server's deque although the waiters contend  *)
(* for two mutexes, identifiers are fresh and known, sizes match.          *)
NoServerFault == session # "failed"

(* An application that collected every result before it destroys the       *)
(* manager leaves the server's destructor no PL thread to run beside, and  *)
(* the process does not end in it.                                         *)
CleanClose ==
  user = "closed" =>
    /\ session # "terminated"
    /\ session \in Destructor => pl_threads = {}

(* id2trans is never erased, so a query about an answered transaction      *)
(* would read a deleted object: the client never sends one.                *)
QueriesFindLiveTransactions ==
  \A i \in DOMAIN requests :
    requests[i].op = "queryTransactionStatus" => requests[i].trans \notin freed

(* Whatever arrives was meant for the thread that holds req_mtx.           *)
AnswersReachTheirCaller ==
  replies # << >> =>
    /\ Len(replies) = 1
    /\ LET r == Head(replies) IN
         CASE r.op = "queryTransactionStatus" ->
                reqMtx = r.trans /\ waiter[r.trans] = "answer"
           [] r.op = "waitForTestHarness" ->
                /\ reqMtx = r.results.trans
                /\ waiter[r.results.trans] \in {"status", "data"}
           [] OTHER -> reqMtx = User /\ user \in {"accept", "gotTimeOut", "gotGraph"}

(* Once waitForRes has dropped a transaction, the caller's buffers hold    *)
(* what its own run produced, whole unless it is reported as timed out.    *)
JoinedMeansStored ==
  ClientUp =>
    \A t \in 1 .. trans_id :
      (t \notin Range(pending) /\ waiter[t] # "none") =>
        /\ t \in freed
        /\ output[t] = hostBuf[t]
        /\ clientStatus[t] = status[t]
        /\ clientStatus[t] = "DONE" => output[t] = "complete"
        /\ clientStatus[t] # "DONE" => clientStatus[t] = "TIMEOUT"

(* The pipeline of threads keeps the promises of ClientApi: runs collected *)
(* in order, each told once, a buffer of the caller written at most once   *)
(* and never after the call that collected its run has returned.           *)
told == [t \in Trans |-> IF clientStatus[t] \in {"CREATED", "READY"} THEN "new"
                         ELSE clientStatus[t]]

Api == INSTANCE ClientApi WITH Jobs <- Trans, pending <- pending,
                               told <- told, result <- output

PipelineImplementsApi == Api!ApiSpec

(* The server refuses a transaction only if the client had warned that it  *)
(* might: the pending transactions cover all the memory the server uses.   *)
RefusedOnlyIfWarned == call.outcome = "refused" => call.warned

(* Between calls, and once the session has read what was sent, the         *)
(* watchdog's interval is the one the server was started with.             *)
IntervalRestored ==
  (user = "idle" /\ requests = << >>) => interval = WatchdogInterval

(* No waiter took query_mtx before the waiter of an older transaction.     *)
PollingInOrder ==
  \A t, u \in Trans : (queryMtx = u /\ waiter[t] = "lockQuery") => u < t

(* waitForRes with a limit returns whatever the device does, provided the  *)
(* waiters take query_mtx in the order they were created.                  *)
InWaitForRes == user \notin {"idle", "run", "accept", "closed", "terminated"}

LimitedCallReturns ==
  []PollingInOrder => ((InWaitForRes /\ call.ms # 0) ~> ~InWaitForRes)

(* Without a limit it returns if the device completes its runs.            *)
UnlimitedCallReturns ==
  ([]PollingInOrder /\ WF_pipeVars(ServerDevice)) => (InWaitForRes ~> ~InWaitForRes)

(* sw_apis.rst:128,133: the limit bounds the wait.  Does not hold: nothing *)
(* makes query_mtx first come first served.                                *)
LimitBoundsTheWait == (InWaitForRes /\ call.ms # 0) ~> ~InWaitForRes

=============================================================================
