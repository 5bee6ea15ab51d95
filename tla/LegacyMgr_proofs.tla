--------------------------- MODULE LegacyMgr_proofs -------------------------
(***************************************************************************)
(* Proofs about the manager without a server, for any number of            *)
(* transactions, any program, device and graph.                            *)
(***************************************************************************)
EXTENDS LegacyMgr, SequenceTheorems, TLAPS

LEMMA RangeFacts ==
  /\ Range(<< >>) = {}
  /\ << >> \in Seq(Trans)
  /\ \A s \in Seq(Trans), t \in Trans :
       /\ Append(s, t) \in Seq(Trans)
       /\ Range(Append(s, t)) = Range(s) \cup {t}
<1>1. Range(<< >>) = {} /\ << >> \in Seq(Trans)
  BY DEF Range
<1>2. ASSUME NEW s \in Seq(Trans), NEW t \in Trans
      PROVE  /\ Append(s, t) \in Seq(Trans)
             /\ Range(Append(s, t)) = Range(s) \cup {t}
  <2>1. /\ Append(s, t) \in Seq(Trans)
        /\ DOMAIN Append(s, t) = 1 .. Len(s) + 1
        /\ \A i \in 1 .. Len(s) : Append(s, t)[i] = s[i]
        /\ Append(s, t)[Len(s) + 1] = t
    BY AppendProperties, LenProperties
  <2>2. DOMAIN s = 1 .. Len(s) /\ Len(s) \in Nat
    BY LenProperties
  <2> QED BY <2>1, <2>2 DEF Range
<1> QED BY <1>1, <1>2

-----------------------------------------------------------------------------
(* The inductive invariant.                                                *)

(* Objects not created yet have left no trace.                             *)
FreshInv ==
  \A t \in Trans :
    t > trans => /\ status[t] = "CREATED"
                 /\ t \notin Range(bos) \cup freed

(* Only the current transaction runs; besides it, only those that timed    *)
(* out and those over which runPL threw have buffers remembered.           *)
CurrentInv ==
  /\ \A t \in Trans : status[t] = "RUNNING" => t = trans
  /\ \A t \in Range(bos) :
       /\ status[t] \in {"RUNNING", "TIMEOUT", "READY"}
       /\ status[t] # "READY" => t \in Range(runs)
  /\ trans \in freed => user = "closed"
  /\ user = "closed" => bos = << >>

(* Where the program's thread is agrees with the status and the output.    *)
CallInv ==
  /\ user = "waiting" => Running
  /\ user = "stored" => Running /\ output[trans] = "complete" /\ bos = << >>
  /\ user = "graph" => trans \in Trans /\ status[trans] \in {"DONE", "TIMEOUT"}
  /\ (Running /\ user \in {"idle", "waiting"}) => trans \in Range(bos)
  /\ \A t \in Trans :
       /\ status[t] = "DONE" => output[t] = "complete"
       /\ status[t] # "DONE" /\ ~(t = trans /\ user = "stored") =>
            output[t] = "initial"

IInv ==
  /\ LegacyTypeOK
  /\ FreshInv
  /\ CurrentInv
  /\ CallInv
  /\ GraphsAccountedFor

LEMMA InitInv == LegacyInit => IInv
BY LegacyTransAssumption, RangeFacts
   DEF LegacyInit, FastInit, IInv, LegacyTypeOK, FastTypeOK, BufferContents,
       FreshInv, CurrentInv, CallInv, Running, GraphsAccountedFor

LEMMA StutterInv == IInv /\ UNCHANGED legacyVars => IInv'
BY DEF legacyVars, fastVars, objVars, graphVars, callVars, IInv, LegacyTypeOK,
       FastTypeOK, FreshInv, CurrentInv, CallInv, Running, GraphsAccountedFor

LEMMA RunTestHarnessInv ==
  ASSUME IInv, RunTestHarness
  PROVE  IInv'
<1> DEFINE t == trans + 1
<1> USE DEF IInv, RunTestHarness, RunPL, Replace, graphVars
<1>1. /\ t \in Trans /\ t > trans /\ trans' = t /\ trans \in Nat
      /\ t \notin Range(bos) \cup freed
      /\ user = "idle" /\ user' = "idle" /\ ~Running
  BY LegacyTransAssumption DEF LegacyTypeOK, FreshInv
<1>2. /\ runs' \in Seq(Trans) /\ Range(runs') = Range(runs) \cup {t}
      /\ bos' \in Seq(Trans) /\ Range(bos') = Range(bos) \cup {t}
  BY <1>1, RangeFacts DEF LegacyTypeOK, FastTypeOK
<1>3. /\ status' = [status EXCEPT ![t] = "RUNNING"]
      /\ status \in [Trans -> {"CREATED", "READY", "RUNNING", "TIMEOUT", "DONE"}]
      /\ \A u \in Trans : u # t => status'[u] = status[u]
      /\ status'[t] = "RUNNING"
  BY <1>1 DEF LegacyTypeOK
<1>4. \A u \in Trans : status[u] # "RUNNING"
  BY <1>1 DEF CurrentInv, Running
<1>5. LegacyTypeOK'
  BY <1>1, <1>2, <1>3 DEF LegacyTypeOK, FastTypeOK
<1>6. freed' \subseteq freed \cup {trans}
  OBVIOUS
<1>7. FreshInv'
  <2> SUFFICES ASSUME NEW u \in Trans, u > t
               PROVE  status'[u] = "CREATED" /\ u \notin Range(bos') \cup freed'
    BY <1>1 DEF FreshInv
  <2>1. u > trans /\ u # t /\ u # trans
    BY <1>1, LegacyTransAssumption
  <2> QED BY <2>1, <1>2, <1>3, <1>6 DEF FreshInv
<1>8. CurrentInv'
  <2>1. t \notin freed'
    BY <1>1, <1>6
  <2> QED BY <2>1, <1>1, <1>2, <1>3, <1>4 DEF CurrentInv, LegacyTypeOK, FastTypeOK
<1>9. CallInv'
  <2>1. status[t] = "CREATED" /\ output[t] = "initial"
    BY <1>1 DEF FreshInv, CallInv
  <2> QED BY <2>1, <1>1, <1>2, <1>3 DEF CallInv, Running
<1> QED BY <1>5, <1>7, <1>8, <1>9 DEF GraphsAccountedFor

LEMMA RunTestHarnessThrowsInv ==
  ASSUME IInv, RunTestHarnessThrows
  PROVE  IInv'
<1> DEFINE t == trans + 1
<1> USE DEF IInv, RunTestHarnessThrows, RunPLThrows, Replace, graphVars, callVars
<1>1. /\ t \in Trans /\ t > trans /\ trans' = t /\ trans \in Nat
      /\ t \notin Range(bos) \cup freed
      /\ user = "idle" /\ user' = "idle" /\ ~Running
  BY LegacyTransAssumption DEF LegacyTypeOK, FreshInv
<1>2. /\ runs' \in Seq(Trans) /\ Range(runs) \subseteq Range(runs')
      /\ bos' \in Seq(Trans) /\ Range(bos') \subseteq Range(bos) \cup {t}
  <2>1. /\ bos' = bos \/ bos' = Append(bos, t)
        /\ runs' = runs \/ runs' = Append(runs, t)
    BY Zenon
  <2>2. runs \in Seq(Trans) /\ bos \in Seq(Trans)
    BY DEF LegacyTypeOK, FastTypeOK
  <2>3. ASSUME NEW s \in Seq(Trans)
        PROVE  Append(s, t) \in Seq(Trans) /\ Range(Append(s, t)) = Range(s) \cup {t}
    BY ONLY <2>3, <1>1, RangeFacts
  <2>4. runs' \in Seq(Trans) /\ Range(runs) \subseteq Range(runs')
    <3>1. CASE runs' = runs
      BY ONLY <2>2, <3>1
    <3>2. CASE runs' = Append(runs, t)
      BY ONLY <2>2, <2>3, <3>2
    <3> QED BY ONLY <2>1, <3>1, <3>2
  <2>5. bos' \in Seq(Trans) /\ Range(bos') \subseteq Range(bos) \cup {t}
    <3>1. CASE bos' = bos
      BY ONLY <2>2, <3>1
    <3>2. CASE bos' = Append(bos, t)
      BY ONLY <2>2, <2>3, <3>2
    <3> QED BY ONLY <2>1, <3>1, <3>2
  <2> QED BY ONLY <2>4, <2>5
<1>3. /\ \A u \in Trans : u # t => status'[u] = status[u]
      /\ status' \in [Trans -> {"CREATED", "READY", "RUNNING", "TIMEOUT", "DONE"}]
      /\ status'[t] = "READY"
  BY <1>1 DEF LegacyTypeOK
<1>4. \A u \in Trans : status[u] # "RUNNING"
  BY <1>1 DEF CurrentInv, Running
<1>5. LegacyTypeOK'
  BY <1>1, <1>2, <1>3 DEF LegacyTypeOK, FastTypeOK
<1>6. freed' \subseteq freed \cup {trans}
  OBVIOUS
<1>7. FreshInv'
  <2> SUFFICES ASSUME NEW u \in Trans, u > t
               PROVE  status'[u] = "CREATED" /\ u \notin Range(bos') \cup freed'
    BY <1>1 DEF FreshInv
  <2>1. u > trans /\ u # t /\ u # trans
    BY <1>1, LegacyTransAssumption
  <2> QED BY <2>1, <1>2, <1>3, <1>6 DEF FreshInv
<1>8. CurrentInv'
  <2>1. t \notin freed'
    BY <1>1, <1>6
  <2>2. Range(bos) \subseteq Trans
    BY DEF LegacyTypeOK, FastTypeOK, Range
  <2>3. \A u \in Range(bos') : /\ status'[u] \in {"RUNNING", "TIMEOUT", "READY"}
                               /\ status'[u] # "READY" => u \in Range(runs')
    BY <2>2, <1>1, <1>2, <1>3 DEF CurrentInv
  <2>4. \A u \in Trans : status'[u] # "RUNNING"
    BY <1>3, <1>4
  <2> QED BY <2>1, <2>3, <2>4, <1>1 DEF CurrentInv
<1>9. CallInv'
  <2>1. status[t] = "CREATED" /\ output[t] = "initial"
    BY <1>1 DEF FreshInv, CallInv
  <2> QED BY <2>1, <1>1, <1>3 DEF CallInv, Running
<1> QED BY <1>5, <1>7, <1>8, <1>9 DEF GraphsAccountedFor

LEMMA RejectInputsInv == IInv /\ RejectInputs => IInv'
<1> SUFFICES ASSUME IInv, RejectInputs PROVE IInv'
  OBVIOUS
<1> USE DEF IInv, RejectInputs, Replace, graphVars, callVars, fastVars
<1>1. /\ trans + 1 \in Trans /\ trans' = trans + 1 /\ trans \in Nat
      /\ trans + 1 \notin Range(bos) \cup freed
      /\ status[trans + 1] = "CREATED"
  BY LegacyTransAssumption DEF LegacyTypeOK, FreshInv
<1>2. \A u \in Trans : status[u] # "RUNNING"
  BY DEF CurrentInv, Running
<1>3. LegacyTypeOK'
  BY <1>1 DEF LegacyTypeOK, FastTypeOK
<1>4. FreshInv'
  BY <1>1, LegacyTransAssumption DEF FreshInv
<1>5. CurrentInv'
  BY <1>1, <1>2 DEF CurrentInv, Range
<1>6. CallInv'
  BY <1>1, <1>2 DEF CallInv, Running
<1> QED BY <1>3, <1>4, <1>5, <1>6 DEF GraphsAccountedFor

LEMMA StoreResultsInv == IInv /\ StoreResults => IInv'
<1> SUFFICES ASSUME IInv, StoreResults PROVE IInv'
  OBVIOUS
<1> USE DEF IInv, StoreResults, FetchRes, graphVars
<1>1. /\ trans \in Trans /\ status[trans] = "RUNNING"
      /\ trans \in Range(bos) /\ trans \in completed
  BY DEF CallInv, Running, CurrentInv, WaitForTestHarness
<1>2. hostBuf' \in [Trans -> BufferContents] /\ hostBuf'[trans] = "complete"
  BY <1>1 DEF LegacyTypeOK, FastTypeOK, BufferContents
<1>3. bos' = << >> /\ Range(bos') = {}
  BY RangeFacts
<1>4. LegacyTypeOK'
  BY <1>1, <1>2, <1>3, RangeFacts DEF LegacyTypeOK, FastTypeOK
<1>5. FreshInv'
  BY <1>3 DEF FreshInv
<1>6. CurrentInv'
  BY <1>3 DEF CurrentInv
<1>7. CallInv'
  BY <1>1, <1>2, <1>3 DEF CallInv, Running, LegacyTypeOK
<1> QED BY <1>4, <1>5, <1>6, <1>7 DEF GraphsAccountedFor

LEMMA WaitThrowsInv == IInv /\ WaitThrows => IInv'
<1> SUFFICES ASSUME IInv, WaitThrows PROVE IInv'
  OBVIOUS
<1> USE DEF IInv, WaitThrows, graphVars, objVars
<1>1. UNCHANGED <<runs, bos, completed>> /\ hostBuf' \in [Trans -> BufferContents]
  <2>1. CASE UNCHANGED fastVars
    BY <2>1 DEF fastVars, LegacyTypeOK, FastTypeOK
  <2>2. CASE FetchResThrows
    <3>1. PICK n \in DOMAIN bos : \E left \in {hostBuf[bos[n]], "partial"} :
            hostBuf' = [t \in Trans |->
                          IF t = bos[n] THEN left
                          ELSE IF \E i \in 1 .. n - 1 : bos[i] = t
                          THEN IF t \in completed THEN "complete" ELSE "partial"
                          ELSE hostBuf[t]]
      BY <2>2 DEF FetchResThrows
    <3>2. bos[n] \in Trans
      BY DEF LegacyTypeOK, FastTypeOK
    <3> QED BY <2>2, <3>1, <3>2 DEF FetchResThrows, LegacyTypeOK, FastTypeOK,
               BufferContents
  <2> QED BY <2>1, <2>2
<1>2. LegacyTypeOK'
  BY <1>1 DEF LegacyTypeOK, FastTypeOK
<1>3. FreshInv' /\ CurrentInv'
  BY <1>1 DEF FreshInv, CurrentInv
<1>4. CallInv'
  BY <1>1 DEF CallInv, Running
<1> QED BY <1>2, <1>3, <1>4 DEF GraphsAccountedFor

LEMMA SetDoneInv == IInv /\ SetDone => IInv'
<1> SUFFICES ASSUME IInv, SetDone PROVE IInv'
  OBVIOUS
<1> USE DEF IInv, SetDone, Conclude, graphVars, fastVars
<1>1. trans \in Trans /\ status[trans] = "RUNNING" /\ output[trans] = "complete"
  BY DEF CallInv, Running
<1>2. bos = << >> /\ Range(bos) = {} /\ bos' = bos
  BY RangeFacts DEF CallInv
<1>3. LegacyTypeOK'
  BY <1>1 DEF LegacyTypeOK, FastTypeOK
<1>4. FreshInv'
  BY <1>1, LegacyTransAssumption DEF FreshInv, LegacyTypeOK
<1>5. CurrentInv'
  BY <1>1, <1>2 DEF CurrentInv, LegacyTypeOK
<1>6. CallInv'
  BY <1>1 DEF CallInv, Running, LegacyTypeOK
<1> QED BY <1>3, <1>4, <1>5, <1>6 DEF GraphsAccountedFor

LEMMA TimedOutInv == IInv /\ TimedOut => IInv'
<1> SUFFICES ASSUME IInv, TimedOut PROVE IInv'
  OBVIOUS
<1> USE DEF IInv, TimedOut, Conclude, graphVars, fastVars
<1>1. trans \in Trans /\ status[trans] = "RUNNING" /\ output[trans] = "initial"
  BY DEF CallInv, Running
<1>2. LegacyTypeOK'
  BY <1>1 DEF LegacyTypeOK, FastTypeOK
<1>3. FreshInv'
  BY <1>1, LegacyTransAssumption DEF FreshInv, LegacyTypeOK
<1>4. CurrentInv'
  <2>1. Range(bos) \subseteq Trans
    BY DEF LegacyTypeOK, FastTypeOK, Range
  <2> QED BY <1>1, <2>1 DEF CurrentInv, LegacyTypeOK
<1>5. CallInv'
  BY <1>1 DEF CallInv, Running, LegacyTypeOK
<1> QED BY <1>2, <1>3, <1>4, <1>5 DEF GraphsAccountedFor

(* The steps that leave the transactions and the buffers alone.            *)
LEMMA OtherInv ==
  ASSUME IInv,
         \/ RunAIEGraph \/ WaitForGraph \/ DeviceCompletes \/ GraphEnds
         \/ \E b \in BOOLEAN : WaitForRes(b)
  PROVE  IInv'
<1> USE DEF IInv, fastVars, objVars, graphVars, callVars, LegacyTypeOK,
            FastTypeOK, FreshInv, CurrentInv, CallInv, Running, GraphsAccountedFor
<1>1. CASE RunAIEGraph
  BY <1>1 DEF RunAIEGraph
<1>2. CASE WaitForGraph
  BY <1>2 DEF WaitForGraph
<1>3. CASE DeviceCompletes
  BY <1>3 DEF DeviceCompletes, KernelComplete
<1>4. CASE GraphEnds
  BY <1>4 DEF GraphEnds
<1>5. ASSUME NEW b \in BOOLEAN, WaitForRes(b) PROVE IInv'
  BY <1>5 DEF WaitForRes
<1> QED BY <1>1, <1>2, <1>3, <1>4, <1>5

LEMMA DestroyInv == IInv /\ Destroy => IInv'
<1> SUFFICES ASSUME IInv, Destroy PROVE IInv'
  OBVIOUS
<1> USE DEF IInv, Destroy, ResetTestHarness
<1>1. Range(bos') = {} /\ runs' \in Seq(Trans) /\ bos' \in Seq(Trans) /\ bos' = << >>
  BY RangeFacts
<1>2. LegacyTypeOK'
  BY <1>1 DEF LegacyTypeOK, FastTypeOK
<1>3. FreshInv'
  BY <1>1, LegacyTransAssumption DEF FreshInv, LegacyTypeOK
<1>4. CurrentInv'
  BY <1>1 DEF CurrentInv
<1>5. CallInv'
  BY <1>1 DEF CallInv, Running
<1> QED BY <1>2, <1>3, <1>4, <1>5 DEF GraphsAccountedFor

LEMMA NextInv == IInv /\ [LegacyNext]_legacyVars => IInv'
BY StutterInv, RunTestHarnessInv, RunTestHarnessThrowsInv, RejectInputsInv,
   StoreResultsInv, WaitThrowsInv, SetDoneInv, TimedOutInv, OtherInv, DestroyInv
   DEF LegacyNext, NewCall, InWait

THEOREM LegacyInvariance == LegacySpec => []IInv
BY InitInv, NextInv, PTL DEF LegacySpec

-----------------------------------------------------------------------------
(* fetchRes writes into a destroyed transaction only if that transaction   *)
(* had timed out or runPL threw over it, however often other calls failed. *)
THEOREM StaleWrites == LegacySpec => []StaleOnlyAfterFailure
<1>1. IInv => StaleOnlyAfterFailure
  <2> SUFFICES ASSUME IInv, NEW t \in Range(bos), t \in freed, status[t] \notin {"TIMEOUT", "READY"}
               PROVE  FALSE
    BY DEF StaleOnlyAfterFailure
  <2>1. t \in Trans
    BY DEF IInv, LegacyTypeOK, FastTypeOK, Range
  <2>2. t = trans
    BY <2>1 DEF IInv, CurrentInv
  <2> QED BY <2>2, RangeFacts DEF IInv, CurrentInv
<1> QED BY <1>1, LegacyInvariance, PTL

(* The graphs not waited for are the ones graph_started announces.         *)
THEOREM GraphsKnown == LegacySpec => []GraphsAccountedFor
<1>1. IInv => GraphsAccountedFor
  BY DEF IInv
<1> QED BY <1>1, LegacyInvariance, PTL

-----------------------------------------------------------------------------
(* The refinement of ClientApi, step by step.                              *)

LEMMA RefineInit == LegacyInit => Api!ApiInit
BY LegacyTransAssumption
   DEF LegacyInit, FastInit, Api!ApiInit, pending, told, Running

LEMMA ToldFacts ==
  ASSUME IInv
  PROVE  /\ Running => /\ pending = <<trans>> /\ Head(pending) = trans
                       /\ Tail(pending) = << >> /\ Api!IsPending(trans)
                       /\ told[trans] = "RUNNING"
         /\ user = "graph" =>
              /\ pending = <<trans>> /\ Head(pending) = trans
              /\ Tail(pending) = << >>
              /\ told[trans] = status[trans]
         /\ ~Running /\ user # "graph" => pending = << >>
  BY DEF IInv, CallInv, pending, told, Running, Api!IsPending

LEMMA RefineStep ==
  ASSUME IInv, IInv', LegacyNext
  PROVE  [Api!ApiNext]_(Api!apiVars)
<1> USE DEF objVars, graphVars, callVars
<1>1. ASSUME RunTestHarness
      PROVE  Api!Submit(trans + 1)
  <2>1. /\ trans + 1 \in Trans /\ trans' = trans + 1 /\ trans \in Nat
        /\ ~Running /\ user = "idle" /\ user' = "idle"
        /\ status[trans + 1] = "CREATED"
        /\ status \in [Trans -> {"CREATED", "READY", "RUNNING", "TIMEOUT", "DONE"}]
        /\ status' = [status EXCEPT ![trans + 1] = "RUNNING"]
        /\ output' = output
    BY <1>1, LegacyTransAssumption
       DEF RunTestHarness, Replace, IInv, FreshInv, LegacyTypeOK
  <2>2. pending = << >>
    BY <2>1 DEF pending
  <2>3. pending' = <<trans + 1>>
    BY <2>1 DEF pending, Running
  <2>4. told[trans + 1] = "new" /\ told' = [told EXCEPT ![trans + 1] = "RUNNING"]
    BY <2>1 DEF told
  <2> QED BY <2>1, <2>2, <2>3, <2>4 DEF Api!Submit
<1>2. CASE RejectInputs \/ RunTestHarnessThrows
  <2>1. /\ ~Running /\ ~Running' /\ user = "idle" /\ user' = "idle"
        /\ output' = output
    BY <1>2, LegacyTransAssumption
       DEF RejectInputs, RunTestHarnessThrows, Replace, IInv, FreshInv, LegacyTypeOK,
           Running
  <2>2. told' = told
    BY <1>2, LegacyTransAssumption
       DEF RejectInputs, RunTestHarnessThrows, Replace, IInv, FreshInv, LegacyTypeOK, told
  <2> QED BY <2>1, <2>2 DEF Api!apiVars, pending
<1>3. CASE StoreResults
  <2>1. /\ trans \in Trans /\ Running /\ output[trans] = "initial"
        /\ status' = status /\ trans' = trans
        /\ output' = [output EXCEPT ![trans] = hostBuf'[trans]]
    BY <1>3 DEF StoreResults, IInv, CallInv, Running
  <2>2. hostBuf'[trans] = "complete"
    BY <2>1, <1>3 DEF StoreResults, IInv, CallInv, LegacyTypeOK
  <2>3. pending' = pending /\ told' = told
    BY <2>1, <1>3 DEF pending, told, Running
  <2>4. Api!Store(trans, "complete")
    BY <2>1, <2>2, <2>3, ToldFacts DEF Api!Store
  <2> QED BY <2>1, <2>4 DEF Api!ApiNext, Api!Contents
<1>4. CASE SetDone
  <2>1. /\ trans \in Trans /\ Running /\ trans' = trans /\ output' = output
        /\ output[trans] = "complete" /\ user' = "graph"
        /\ status' = [status EXCEPT ![trans] = "DONE"]
        /\ status \in [Trans -> {"CREATED", "READY", "RUNNING", "TIMEOUT", "DONE"}]
    BY <1>4 DEF SetDone, Conclude, IInv, CallInv, Running, LegacyTypeOK
  <2>2. pending' = pending
    BY <2>1, ToldFacts DEF pending
  <2>3. told' = [told EXCEPT ![trans] = "DONE"]
    BY <2>1 DEF told
  <2>4. Api!Conclude(trans, "DONE")
    BY <2>1, <2>2, <2>3, ToldFacts DEF Api!Conclude
  <2> QED BY <2>1, <2>4 DEF Api!ApiNext
<1>5. CASE WaitForGraph
  <2>1. /\ user = "graph" /\ user' = "idle" /\ trans' = trans
        /\ status' = status /\ output' = output
        /\ trans \in Trans /\ status[trans] \in {"DONE", "TIMEOUT"}
        /\ status[trans] = "DONE" => output[trans] = "complete"
    BY <1>5 DEF WaitForGraph, IInv, CallInv
  <2>2. pending' = << >> /\ told' = told
    BY <2>1 DEF pending, told, Running
  <2>3. Api!Collect(trans)
    BY <2>1, <2>2, ToldFacts DEF Api!Collect
  <2> QED BY <2>1, <2>3 DEF Api!ApiNext
<1>6. CASE \/ RunAIEGraph \/ WaitThrows \/ DeviceCompletes \/ GraphEnds \/ Destroy
           \/ \E b \in BOOLEAN : WaitForRes(b)
  <2>1. /\ trans' = trans /\ status' = status /\ output' = output
        /\ (user # "graph" /\ user' # "graph") \/ user' = user
    BY <1>6 DEF RunAIEGraph, WaitThrows, DeviceCompletes, GraphEnds, Destroy, WaitForRes
  <2> QED BY <2>1 DEF Api!apiVars, pending, told, Running
<1>7. ASSUME RunTestHarness PROVE Api!ApiNext
  BY <1>7, <1>1 DEF Api!ApiNext, RunTestHarness, Replace
<1>8. CASE TimedOut
  <2>1. /\ trans \in Trans /\ Running /\ trans' = trans /\ output' = output
        /\ user' = "graph"
        /\ status' = [status EXCEPT ![trans] = "TIMEOUT"]
        /\ status \in [Trans -> {"CREATED", "READY", "RUNNING", "TIMEOUT", "DONE"}]
    BY <1>8 DEF TimedOut, Conclude, IInv, CallInv, Running, LegacyTypeOK
  <2>2. pending' = pending
    BY <2>1, ToldFacts DEF pending
  <2>3. told' = [told EXCEPT ![trans] = "TIMEOUT"]
    BY <2>1 DEF told
  <2>4. Api!Conclude(trans, "TIMEOUT")
    BY <2>1, <2>2, <2>3, ToldFacts DEF Api!Conclude
  <2> QED BY <2>1, <2>4 DEF Api!ApiNext
<1> QED BY <1>2, <1>3, <1>4, <1>5, <1>6, <1>7, <1>8
        DEF LegacyNext, NewCall, InWait

LEMMA RefineStutter == UNCHANGED legacyVars => UNCHANGED Api!apiVars
BY DEF legacyVars, objVars, callVars, Api!apiVars, pending, told, Running

(* The manager without a server keeps the promises of ClientApi.           *)
THEOREM LegacyImplementsApi == LegacySpec => ImplementsApi
<1>1. IInv /\ IInv' /\ [LegacyNext]_legacyVars => [Api!ApiNext]_(Api!apiVars)
  BY RefineStep, RefineStutter
<1> QED BY <1>1, RefineInit, LegacyInvariance, PTL
        DEF LegacySpec, ImplementsApi, Api!ApiSpec
=============================================================================
