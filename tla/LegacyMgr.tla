------------------------------ MODULE LegacyMgr -----------------------------
(***************************************************************************)
(* The manager for programs that run on the board and drive the device     *)
(* themselves: include/ps/test_harness_mgr.hpp, over FastXM.  It has one   *)
(* thread and holds one transaction object at a time; the next             *)
(* runTestHarness destroys the object, whose vectors FastXM may still      *)
(* remember.  The arguments of a call may be refused, and XRT may throw in  *)
(* runPL, in the wait and in fetchRes.  A call that throws before it       *)
(* changed anything is not a step.                                         *)
(* The device and the AIE graph are the environment: a run may complete    *)
(* late or never, and so may the graph.                                    *)
(***************************************************************************)
EXTENDS FastXM

ASSUME LegacyTransAssumption == Trans \subseteq Nat \ {0}

VARIABLES
  trans,                (* the current transaction; 0 is the null pointer  *)
  freed,                (* transactions destroyed                          *)
  status,               (* test_harness_transactions::status               *)
  output,               (* the caller's buffers                            *)
  graph_started,        (* a graph was run and not yet waited for          *)
  graph,                (* external: the state of the AIE graph            *)
  user,                 (* where the program's thread is                   *)
  limited               (* waitForRes was given a time limit               *)

objVars == <<trans, freed, status, output>>
graphVars == <<graph_started, graph>>
callVars == <<user, limited>>
legacyVars == <<fastVars, objVars, graphVars, callVars>>

LegacyTypeOK ==
  /\ FastTypeOK
  /\ trans \in {0} \cup Trans
  /\ freed \subseteq Trans
  /\ status \in [Trans -> {"CREATED", "READY", "RUNNING", "TIMEOUT", "DONE"}]
  /\ output \in [Trans -> BufferContents]
  /\ graph_started \in BOOLEAN
  /\ graph \in {"stopped", "running", "ended"}
  /\ user \in {"idle", "waiting", "stored", "graph", "closed"}
  /\ limited \in BOOLEAN

(* Both constructors reset the device and the graphs.                      *)
LegacyInit ==
  /\ FastInit
  /\ trans = 0
  /\ freed = {}
  /\ status = [t \in Trans |-> "CREATED"]
  /\ output = [t \in Trans |-> "initial"]
  /\ graph_started = FALSE
  /\ graph = "stopped"
  /\ user = "idle"
  /\ limited = FALSE

-----------------------------------------------------------------------------
(* runAIEGraph; the runtime refuses a graph that was not waited for.       *)
RunAIEGraph ==
  /\ user = "idle"
  /\ graph = "stopped"
  /\ graph' = "running"
  /\ graph_started' = TRUE
  /\ UNCHANGED <<fastVars, objVars, callVars>>

Running == trans \in Trans /\ status[trans] = "RUNNING"

(* A new object replaces the old one, and the old one's vectors are freed. *)
Replace ==
  /\ user = "idle"
  /\ ~Running
  /\ trans + 1 \in Trans
  /\ trans' = trans + 1
  /\ freed' = IF trans = 0 THEN freed ELSE freed \cup {trans}

(* Variant: the check for a running transaction is missing.                *)
RunTestHarness_Unchecked ==
  /\ user = "idle"
  /\ trans + 1 \in Trans
  /\ trans' = trans + 1
  /\ freed' = IF trans = 0 THEN freed ELSE freed \cup {trans}
  /\ RunPL(trans + 1)
  /\ status' = [status EXCEPT ![trans + 1] = "RUNNING"]
  /\ UNCHANGED <<output, graphVars, user, limited>>

(* runTestHarness.  Its time limit is given to nobody, as on the server    *)
(* (LimitKept of TransactionLayout).                                       *)
RunTestHarness ==
  /\ Replace
  /\ RunPL(trans + 1)
  /\ status' = [status EXCEPT ![trans + 1] = "RUNNING"]
  /\ UNCHANGED <<output, graphVars, user, limited>>

(* handleInputs throws, with the old object already gone and the new one   *)
(* left CREATED.                                                           *)
RejectInputs ==
  /\ Replace
  /\ UNCHANGED <<fastVars, status, output, graphVars, callVars>>

(* runPL throws: the new object is READY, and stays so.                    *)
RunTestHarnessThrows ==
  /\ Replace
  /\ RunPLThrows(trans + 1)
  /\ status' = [status EXCEPT ![trans + 1] = "READY"]
  /\ UNCHANGED <<output, graphVars, callVars>>

(* waitForRes, which throws when no transaction is running.                *)
WaitForRes(limit) ==
  /\ user = "idle"
  /\ Running
  /\ user' = "waiting"
  /\ limited' = limit
  /\ UNCHANGED <<fastVars, objVars, graphVars>>

(* Every run ever started has completed: read back, hand over the output.  *)
StoreResults ==
  /\ user = "waiting"
  /\ WaitForTestHarness
  /\ FetchRes
  /\ output' = [output EXCEPT ![trans] = hostBuf'[trans]]
  /\ user' = "stored"
  /\ UNCHANGED <<trans, freed, status, graphVars, limited>>

(* wait2 throws, or fetchRes once all have completed: the transaction is   *)
(* still RUNNING, and the graph is not waited for.                         *)
WaitThrows ==
  /\ user = "waiting"
  /\ user' = "idle"
  /\ \/ UNCHANGED fastVars
     \/ WaitForTestHarness /\ FetchResThrows
  /\ UNCHANGED <<objVars, graphVars, limited>>

Conclude(from, to) ==
  /\ user = from
  /\ user' = "graph"
  /\ status' = [status EXCEPT ![trans] = to]
  /\ UNCHANGED <<fastVars, trans, freed, output, graphVars, limited>>

SetDone == Conclude("stored", "DONE")

(* The run stays on the device and its buffers stay remembered.            *)
TimedOut ==
  /\ limited
  /\ ~WaitForTestHarness
  /\ Conclude("waiting", "TIMEOUT")

(* Variant: the graph's wait does not get the time limit.                  *)
WaitForGraph_Unlimited ==
  /\ user = "graph"
  /\ graph_started => graph = "ended"
  /\ graph' = IF graph_started THEN "stopped" ELSE graph
  /\ graph_started' = FALSE
  /\ user' = "idle"
  /\ UNCHANGED <<fastVars, objVars, limited>>

(* Variant: after a time-out the graph is not waited for.                  *)
WaitForGraph_OnlyIfDone ==
  /\ user = "graph"
  /\ graph_started => graph = "ended" \/ limited
  /\ graph' = IF graph_started /\ status[trans] = "DONE" THEN "stopped" ELSE graph
  /\ graph_started' = FALSE
  /\ user' = "idle"
  /\ UNCHANGED <<fastVars, objVars, limited>>

(* The end of waitForRes: wait for the graph, with the limit reset it.     *)
WaitForGraph ==
  /\ user = "graph"
  /\ graph_started => graph = "ended" \/ limited
  /\ graph' = IF graph_started THEN "stopped" ELSE graph
  /\ graph_started' = FALSE
  /\ user' = "idle"
  /\ UNCHANGED <<fastVars, objVars, limited>>

(* The destructor: the object goes first, then fastXM resets the device.   *)
Destroy ==
  /\ user = "idle"
  /\ user' = "closed"
  /\ ResetTestHarness
  /\ graph' = "stopped"
  /\ freed' = IF trans = 0 THEN freed ELSE freed \cup {trans}
  /\ UNCHANGED <<trans, status, output, graph_started, limited>>

-----------------------------------------------------------------------------
DeviceCompletes ==
  /\ KernelComplete
  /\ UNCHANGED <<objVars, graphVars, callVars>>

GraphEnds ==
  /\ graph = "running"
  /\ graph' = "ended"
  /\ UNCHANGED <<fastVars, objVars, graph_started, callVars>>

NewCall ==
  \/ RunAIEGraph \/ RunTestHarness \/ RunTestHarnessThrows \/ RejectInputs
  \/ Destroy
  \/ \E limit \in BOOLEAN : WaitForRes(limit)

InWait == StoreResults \/ SetDone \/ TimedOut \/ WaitForGraph

LegacyNext == NewCall \/ InWait \/ WaitThrows \/ DeviceCompletes \/ GraphEnds

LegacySpec == LegacyInit /\ [][LegacyNext]_legacyVars

(* A call that can go on does; the program need not call, and neither the  *)
(* device nor the graph need end what they run.                            *)
LegacyFairSpec == LegacySpec /\ WF_legacyVars(InWait)

-----------------------------------------------------------------------------
(* Properties.                                                             *)

(* fetchRes (fastxm.hpp:217) writes into vectors that were freed in two    *)
(* cases only: the transaction they belonged to had timed out, or runPL    *)
(* threw over it after a buffer was remembered, which leaves it READY.  A  *)
(* program whose waits end in DONE never has a stale pointer in fastXM if  *)
(* no runPL threw, whatever calls it made and whichever others threw: a    *)
(* refused argument, a wait or a fetch that failed half way and was tried  *)
(* again.                                                                  *)
StaleOnlyAfterFailure ==
  \A t \in Range(bos) : t \in freed => status[t] \in {"TIMEOUT", "READY"}

(* Between calls the manager knows of every graph that was not waited for, *)
(* so after waitForRes returned runAIEGraph is not refused by the runtime. *)
GraphsAccountedFor == graph # "stopped" => graph_started

(* The limit of waitForRes holds for the runs and for the graph.           *)
LegacyWaitReturns ==
  (user \in {"waiting", "stored", "graph"} /\ limited) ~> (user = "idle")

(* A single-transaction manager that keeps the promises of ClientApi.      *)
pending == IF Running \/ user = "graph" THEN <<trans>> ELSE << >>
told ==
  [t \in Trans |-> IF status[t] \in {"CREATED", "READY"} THEN "new" ELSE status[t]]

Api == INSTANCE ClientApi WITH Jobs <- Trans, pending <- pending,
                               told <- told, result <- output

ImplementsApi == Api!ApiSpec
=============================================================================
