--------------------------- MODULE SessionWatchdog --------------------------
(***************************************************************************)
(* One server process: the request loop and the watchdog of                *)
(* src/ps/test_harness_session.cpp.  The two threads share mActive, mDone, *)
(* monitorInterval and the manager.  Time is counted in the watchdog's     *)
(* one-second sleeps.                                                      *)
(***************************************************************************)
EXTENDS Naturals

CONSTANTS
  Intervals,            (* timeouts the process may be started with; 0 off *)
  Limits,               (* seconds a request may take; 0 is unlimited      *)
  UnknownMax            (* unknown requests tolerated; 10 in the code      *)

ASSUME IntervalsAssumption == Intervals \subseteq Nat
ASSUME LimitsAssumption == Limits \subseteq Nat
ASSUME UnknownMaxAssumption == UnknownMax \in Nat

VARIABLES
  configured,           (* the constructor's monitorInterval               *)
  interval,             (* monitorInterval                                 *)
  active,               (* mActive                                         *)
  done,                 (* mDone                                           *)
  mgr,                  (* whether mgr holds a manager                     *)
  unknown,              (* unknownReqCount                                 *)
  run,                  (* where the request loop is                       *)
  limit,                (* how long the request it handles may take        *)
  monitor,              (* where the watchdog is                           *)
  count,                (* its countdown                                   *)
  idle,                 (* history: seconds since the last active request  *)
  missed                (* history: it came too late for this second      *)

sharedVars == <<interval, active, done, mgr>>
runVars == <<unknown, run, limit>>
monitorVars == <<monitor, count>>
watchVars == <<configured, sharedVars, runVars, monitorVars, idle, missed>>

MonitorPCs == {"start", "sleep", "checkDone", "checkActive", "load", "clear",
               "checkZero", "kill", "returned", "terminated"}

WatchTypeOK ==
  /\ configured \in Nat
  /\ interval \in Nat
  /\ active \in BOOLEAN
  /\ done \in BOOLEAN
  /\ mgr \in BOOLEAN
  /\ unknown \in 0 .. UnknownMax + 1
  /\ run \in {"receive", "handle", "ended"}
  /\ limit \in Nat
  /\ monitor \in MonitorPCs
  /\ count \in Nat
  /\ idle \in Nat
  /\ missed \in BOOLEAN

WatchInit ==
  /\ configured \in Intervals
  /\ interval = configured
  /\ active = FALSE
  /\ done = FALSE
  /\ mgr = FALSE
  /\ unknown = 0
  /\ run = "receive"
  /\ limit = 0
  /\ monitor = "start"
  /\ count = 0
  /\ idle = 0
  /\ missed = FALSE

ProcessUp == monitor # "terminated"
-----------------------------------------------------------------------------
(* run(): the request loop.                                                *)

Loop(to) ==
  /\ ProcessUp
  /\ run = "receive"
  /\ run' = to
  /\ UNCHANGED <<configured, monitorVars>>

(* An exception, or "destroy": leave the loop and set mDone.               *)
End == Loop("ended") /\ done' = TRUE

(* setActive(true), then the handler.                                      *)
Handle(seconds) ==
  /\ Loop("handle")
  /\ limit' = seconds
  /\ active' = TRUE
  /\ idle' = 0
  /\ missed' = \/ monitor \in {"clear", "kill"}
               \/ monitor = "checkZero" /\ count = 0

CreateMgr ==
  /\ Handle(0)
  /\ ~mgr
  /\ mgr' = TRUE
  /\ UNCHANGED <<interval, done, unknown>>

CreateMgrAgain ==
  /\ End
  /\ mgr
  /\ mgr' = FALSE
  /\ UNCHANGED <<interval, active, unknown, limit, idle, missed>>

(* runTestHarness, runAIEGraph, waitForTestHarness, waitForGraph.          *)
ActiveRequest(seconds) ==
  /\ Handle(seconds)
  /\ mgr
  /\ UNCHANGED <<interval, done, mgr, unknown>>

(* Any of these, or a query, without a manager.                            *)
RequestWithoutMgr ==
  /\ End
  /\ ~mgr
  /\ UNCHANGED <<interval, active, mgr, unknown, limit, idle, missed>>

(* queryTransactionStatus and getTimeOut answer at once and do not count   *)
(* as activity.                                                            *)
QueryRequest ==
  /\ Loop("receive")
  /\ UNCHANGED <<sharedVars, unknown, limit, idle, missed>>

SetTimeOut(seconds) ==
  /\ seconds # 0
  /\ Loop("receive")
  /\ interval' = seconds
  /\ UNCHANGED <<active, done, mgr, unknown, limit, idle, missed>>

SetTimeOutZero ==
  /\ End
  /\ UNCHANGED <<interval, active, mgr, unknown, limit, idle, missed>>

UnknownRequest ==
  /\ IF unknown >= UnknownMax THEN End ELSE Loop("receive") /\ UNCHANGED done
  /\ unknown' = unknown + 1
  /\ UNCHANGED <<interval, active, mgr, limit, idle, missed>>

Destroy ==
  /\ End
  /\ mgr' = FALSE
  /\ UNCHANGED <<interval, active, unknown, limit, idle, missed>>

ConnectionLost ==
  /\ End
  /\ UNCHANGED <<interval, active, mgr, unknown, limit, idle, missed>>

HandlerReturns ==
  /\ ProcessUp
  /\ run = "handle"
  /\ run' = "receive"
  /\ limit' = 0
  /\ UNCHANGED <<configured, sharedVars, unknown, monitorVars, idle, missed>>

HandlerThrows ==
  /\ ProcessUp
  /\ run = "handle"
  /\ run' = "ended"
  /\ done' = TRUE
  /\ limit' = 0
  /\ UNCHANGED <<configured, interval, active, mgr, unknown, monitorVars, idle, missed>>

(* waitForRes sends the configured interval, alone or with a limit added,  *)
(* and nothing when the watchdog is off.                                   *)
Request ==
  \/ CreateMgr \/ CreateMgrAgain \/ RequestWithoutMgr \/ QueryRequest
  \/ \E seconds \in Limits :
       \/ ActiveRequest(seconds)
       \/ configured # 0 /\ SetTimeOut(configured + seconds)
  \/ SetTimeOutZero \/ UnknownRequest \/ Destroy \/ ConnectionLost

-----------------------------------------------------------------------------
(* monitor(): the watchdog.                                                *)

Watch(from, to) ==
  /\ monitor = from
  /\ monitor' = to
  /\ UNCHANGED <<configured, interval, done, runVars>>

StartMonitor ==
  /\ Watch("start", IF interval = 0 THEN "returned" ELSE "sleep")
  /\ count' = interval
  /\ UNCHANGED <<active, mgr, idle, missed>>

(* A second passes.  A request with a limit is over when its time is up.   *)
Sleep ==
  /\ Watch("sleep", "checkDone")
  /\ ~(run = "handle" /\ limit # 0 /\ idle >= limit)
  /\ idle' = idle + 1
  /\ UNCHANGED <<active, mgr, count, missed>>

CheckDone ==
  /\ Watch("checkDone", IF done THEN "returned" ELSE "checkActive")
  /\ UNCHANGED <<active, mgr, count, idle, missed>>

SeesActive ==
  /\ active
  /\ Watch("checkActive", "load")
  /\ UNCHANGED <<active, mgr, count, idle, missed>>

(* Variants: the countdown is not reloaded, or with the initial interval.  *)
LoadCount_Skipped ==
  /\ Watch("load", "clear")
  /\ UNCHANGED <<active, mgr, count, idle, missed>>

LoadCount_Configured ==
  /\ Watch("load", "clear")
  /\ count' = configured
  /\ UNCHANGED <<active, mgr, idle, missed>>

LoadCount ==
  /\ Watch("load", "clear")
  /\ count' = interval
  /\ UNCHANGED <<active, mgr, idle, missed>>

(* setActive(false) also wipes out a request that arrived since isActive().*)
ClearActive ==
  /\ Watch("clear", "checkZero")
  /\ active' = FALSE
  /\ UNCHANGED <<mgr, count, idle, missed>>

CountDown ==
  /\ ~active
  /\ Watch("checkActive", "checkZero")
  /\ count' = count - 1
  /\ UNCHANGED <<active, mgr, idle, missed>>

CheckZero ==
  /\ Watch("checkZero", IF count = 0 THEN "kill" ELSE "sleep")
  /\ UNCHANGED <<active, mgr, count, idle, missed>>

(* Variant: the request loop is joined first.                              *)
Kill_JoinsLoop ==
  /\ run = "ended"
  /\ Watch("kill", "terminated")
  /\ mgr' = FALSE
  /\ UNCHANGED <<active, count, idle, missed>>

(* mgr.reset(), then an exception that nothing catches in this thread.     *)
Kill ==
  /\ Watch("kill", "terminated")
  /\ mgr' = FALSE
  /\ UNCHANGED <<active, count, idle, missed>>

Monitor ==
  \/ StartMonitor \/ Sleep \/ CheckDone \/ SeesActive \/ LoadCount
  \/ ClearActive \/ CountDown \/ CheckZero \/ Kill

WatchNext == Request \/ HandlerReturns \/ HandlerThrows \/ Monitor

WatchSpec == WatchInit /\ [][WatchNext]_watchVars

(* The watchdog is scheduled, and a request with a limit ends in time;     *)
(* nothing makes a client send or a request without a limit end.           *)
WatchFairSpec ==
  WatchSpec /\ WF_watchVars(Monitor) /\ WF_watchVars(limit # 0 /\ HandlerReturns)
-----------------------------------------------------------------------------
(* Properties.                                                             *)

(* Whatever the interleaving of the two threads and however mActive is     *)
(* overwritten, the countdown runs out only when no active request arrived *)
(* for the configured number of seconds.                                   *)
RunsOutOnlyWhenIdle == [][(count = 1 /\ count' = 0) => idle >= configured]_watchVars

(* A request that ends within its limit is not killed while the watchdog's *)
(* interval is longer than that, as waitForRes arranges, unless it arrived *)
(* after the countdown was reloaded or had run out in the same second.     *)
SparesLimitedRequests ==
  (monitor = "kill" /\ run = "handle" /\ limit # 0 /\ limit < interval) => missed

(* A client that goes quiet, or only polls, loses its session.             *)
QuietSessionEnds ==
  (configured # 0 /\ <>[](run # "handle")) => <>(monitor \in {"returned", "terminated"})
=============================================================================
