----------------------- MODULE SessionWatchdog_proofs -----------------------
(***************************************************************************)
(* Proofs about SessionWatchdog, for every configured timeout, every limit *)
(* and every interleaving of the two threads.                              *)
(***************************************************************************)
EXTENDS SessionWatchdog, TLAPS

(* The interval is never below the configured one, and the watchdog runs   *)
(* only when that is not zero.                                             *)
IntervalInv ==
  /\ interval >= configured
  /\ configured = 0 => interval = 0
  /\ monitor \notin {"start", "returned"} => configured # 0

(* The countdown is positive while a second passes, and unless a request   *)
(* is waiting to be noticed it and the idle time cover the configured one. *)
CountdownInv ==
  /\ monitor = "start" => count = 0
  /\ monitor \in {"sleep", "checkDone", "checkActive"} => count >= 1
  /\ monitor = "clear" => count >= configured
  /\ (monitor \in {"sleep", "checkZero"} /\ ~active) => count + idle >= configured
  /\ (monitor \in {"checkDone", "checkActive"} /\ ~active) =>
       count + idle >= configured + 1

(* The same for the request being handled, against the present interval,   *)
(* unless it came too late for the second in which it arrived.             *)
RequestInv ==
  run = "handle" =>
    /\ limit # 0 => idle <= limit
    /\ ~missed =>
         /\ monitor = "clear" => count = interval
         /\ (monitor = "checkZero" /\ active) => count # 0
         /\ (monitor \in {"sleep", "checkZero"} /\ ~active) => count + idle >= interval
         /\ (monitor \in {"checkDone", "checkActive"} /\ ~active) =>
              count + idle >= interval + 1
         /\ (monitor = "kill" /\ limit # 0) => limit >= interval

(* Too many unknown requests end the loop, so none is counted after that.  *)
UnknownInv == unknown > UnknownMax => run = "ended"

WatchInv == WatchTypeOK /\ UnknownInv /\ IntervalInv /\ CountdownInv /\ RequestInv

USE IntervalsAssumption, LimitsAssumption, UnknownMaxAssumption

LEMMA WatchInitInv == WatchInit => WatchInv
<1> SUFFICES ASSUME WatchInit PROVE WatchInv
  OBVIOUS
<1> USE DEF WatchInit
<1>1. WatchTypeOK
  <2>1. active \in BOOLEAN /\ done \in BOOLEAN /\ mgr \in BOOLEAN /\ missed \in BOOLEAN
    BY Zenon
  <2>2. QED BY <2>1 DEF WatchTypeOK, MonitorPCs
<1>2. IntervalInv BY DEF IntervalInv
<1>3. CountdownInv BY DEF CountdownInv
<1>4. RequestInv BY DEF RequestInv
<1>5. UnknownInv BY DEF UnknownInv
<1>6. QED BY <1>1, <1>2, <1>3, <1>4, <1>5 DEF WatchInv

(* The request loop: only a request that is handled touches what the       *)
(* watchdog counts, and only setTimeOut the interval.                      *)
LEMMA RunKeepsInv ==
  ASSUME WatchInv, Request \/ HandlerReturns \/ HandlerThrows
  PROVE  WatchInv'
<1> USE DEF WatchInv, WatchTypeOK, UnknownInv, IntervalInv, CountdownInv, RequestInv,
            MonitorPCs, Loop, End, Handle, sharedVars, monitorVars
<1>1. CASE CreateMgr BY <1>1 DEF CreateMgr
<1>2. CASE CreateMgrAgain BY <1>2 DEF CreateMgrAgain
<1>3. CASE RequestWithoutMgr BY <1>3 DEF RequestWithoutMgr
<1>4. CASE QueryRequest BY <1>4 DEF QueryRequest
<1>5. ASSUME NEW seconds \in Limits, ActiveRequest(seconds) PROVE WatchInv'
  BY <1>5 DEF ActiveRequest
<1>6. ASSUME NEW seconds \in Limits, configured # 0, SetTimeOut(configured + seconds)
      PROVE WatchInv'
  BY <1>6 DEF SetTimeOut
<1>7. CASE SetTimeOutZero BY <1>7 DEF SetTimeOutZero
<1>8. CASE UnknownRequest
  <2>1. unknown' \in 0 .. UnknownMax + 1
    <3>1. unknown <= UnknownMax BY <1>8 DEF UnknownRequest
    <3>2. unknown' = unknown + 1 BY <1>8 DEF UnknownRequest
    <3>3. QED BY <3>1, <3>2
  <2>2. UnknownInv'
    <3>1. CASE unknown >= UnknownMax BY <1>8, <3>1 DEF UnknownRequest
    <3>2. CASE unknown < UnknownMax BY <1>8, <3>2 DEF UnknownRequest
    <3>3. QED BY <3>1, <3>2
  <2>3. run' # "handle" BY <1>8 DEF UnknownRequest
  <2>4. done' \in BOOLEAN
    <3>1. CASE unknown >= UnknownMax BY <1>8, <3>1, Zenon DEF UnknownRequest
    <3>2. CASE ~(unknown >= UnknownMax) BY <1>8, <3>2, Zenon DEF UnknownRequest
    <3>3. QED BY <3>1, <3>2
  <2>5. run' \in {"receive", "ended"} BY <1>8 DEF UnknownRequest
  <2>6. QED BY <1>8, <2>1, <2>2, <2>3, <2>4, <2>5 DEF UnknownRequest
<1>9. CASE Destroy BY <1>9 DEF Destroy
<1>10. CASE ConnectionLost BY <1>10 DEF ConnectionLost
<1>11. CASE HandlerReturns BY <1>11 DEF HandlerReturns
<1>12. CASE HandlerThrows BY <1>12 DEF HandlerThrows
<1> HIDE DEF WatchInv
<1>13. QED
  BY <1>1, <1>2, <1>3, <1>4, <1>5, <1>6, <1>7, <1>8, <1>9, <1>10, <1>11, <1>12
  DEF Request

(* The watchdog's own steps.                                               *)
LEMMA MonitorKeepsInv ==
  ASSUME WatchInv, Monitor
  PROVE  WatchInv'
<1> USE DEF WatchInv, WatchTypeOK, UnknownInv, IntervalInv, CountdownInv, RequestInv,
            MonitorPCs, Watch, runVars
<1>1. CASE StartMonitor BY <1>1 DEF StartMonitor
<1>2. CASE Sleep BY <1>2 DEF Sleep
<1>3. CASE CheckDone BY <1>3 DEF CheckDone
<1>4. CASE SeesActive BY <1>4 DEF SeesActive
<1>5. CASE LoadCount BY <1>5 DEF LoadCount
<1>6. CASE ClearActive
  <2>1. active' \in BOOLEAN /\ ~active' BY <1>6, Zenon DEF ClearActive
  <2>2. QED BY <1>6, <2>1 DEF ClearActive
<1>7. CASE CountDown BY <1>7 DEF CountDown
<1>8. CASE CheckZero BY <1>8 DEF CheckZero
<1>9. CASE Kill BY <1>9 DEF Kill
<1> HIDE DEF WatchInv
<1>10. QED
  BY <1>1, <1>2, <1>3, <1>4, <1>5, <1>6, <1>7, <1>8, <1>9 DEF Monitor

(* WatchInv is inductive.                                                  *)
THEOREM WatchInvariance == WatchSpec => []WatchInv
<1>1. WatchInv /\ [WatchNext]_watchVars => WatchInv'
  <2> SUFFICES ASSUME WatchInv, [WatchNext]_watchVars PROVE WatchInv'
    OBVIOUS
  <2>1. CASE Request \/ HandlerReturns \/ HandlerThrows BY <2>1, RunKeepsInv
  <2>2. CASE Monitor BY <2>2, MonitorKeepsInv
  <2>3. CASE UNCHANGED watchVars
    BY <2>3 DEF watchVars, sharedVars, runVars, monitorVars, WatchInv, WatchTypeOK,
                UnknownInv, IntervalInv, CountdownInv, RequestInv, MonitorPCs
  <2>4. QED BY <2>1, <2>2, <2>3 DEF WatchNext
<1>2. QED BY <1>1, WatchInitInv, PTL DEF WatchSpec

(* Every variable of the session process keeps its type; in particular the *)
(* countdown, an unsigned number in the code, never passes below zero.     *)
THEOREM WatchTypes == WatchSpec => []WatchTypeOK
  BY WatchInvariance, PTL DEF WatchInv

(* A request that stays within a limit shorter than the interval is killed *)
(* only if it came too late for the second in which it arrived.            *)
THEOREM LimitedRequestsSpared == WatchSpec => []SparesLimitedRequests
<1>1. WatchInv => SparesLimitedRequests
  BY DEF WatchInv, WatchTypeOK, RequestInv, SparesLimitedRequests
<1>2. QED BY <1>1, WatchInvariance, PTL

(* The countdown runs out only after the configured time without an active *)
(* request.                                                                *)
THEOREM RunsOutIdle == WatchSpec => RunsOutOnlyWhenIdle
<1>1. WatchInv /\ [WatchNext]_watchVars => [(count = 1 /\ count' = 0) => idle >= configured]_watchVars
  <2> SUFFICES ASSUME WatchInv, [WatchNext]_watchVars, count = 1, count' = 0
               PROVE  idle >= configured
    OBVIOUS
  <2> USE DEF WatchInv, WatchTypeOK, IntervalInv, CountdownInv
  <2>1. CASE count' = count BY <2>1
  <2>2. CASE StartMonitor BY <2>2 DEF StartMonitor, Watch
  <2>3. CASE LoadCount BY <2>3 DEF LoadCount, Watch
  <2>4. CASE CountDown BY <2>4 DEF CountDown, Watch
  <2>5. count' = count \/ StartMonitor \/ LoadCount \/ CountDown
    <3>1. CASE Request \/ HandlerReturns \/ HandlerThrows
      BY <3>1 DEF Request, HandlerReturns, HandlerThrows, CreateMgr, CreateMgrAgain,
         RequestWithoutMgr, QueryRequest, ActiveRequest, SetTimeOut, SetTimeOutZero,
         UnknownRequest, Destroy, ConnectionLost, Handle, End, Loop, monitorVars
    <3>2. CASE Monitor
      BY <3>2 DEF Monitor, Sleep, CheckDone, SeesActive, ClearActive, CheckZero, Kill
    <3>3. CASE UNCHANGED watchVars BY <3>3 DEF watchVars, monitorVars
    <3>4. QED BY <3>1, <3>2, <3>3 DEF WatchNext
  <2>6. QED BY <2>1, <2>2, <2>3, <2>4, <2>5
<1>2. QED BY <1>1, WatchInvariance, PTL DEF WatchSpec, RunsOutOnlyWhenIdle
=============================================================================
