------------------------------ MODULE Bindings ------------------------------
(***************************************************************************)
(* The bindings of the client manager, as far as they decide about a call: *)
(* the MATLAB class converts what a method is given and calls a MEX        *)
(* function, which checks number and types of its inputs before it calls   *)
(* the manager; Python makes arguments of NumPy arrays.  Both take the     *)
(* manager's exceptions for errors of their own.                           *)
(***************************************************************************)
EXTENDS Integers, Sequences

(* What the class passes (include/matlab/test_harness.m), by method.       *)
ClassPasses == [
  test_harness |->
    <<"MATLAB_STRING", "MATLAB_STRING", "MATLAB_STRING", "UINT32", "UINT32">>,
  runAIEGraph |-> <<"UINT64", "UINT32", "UINT32">>,
  runTestHarness |-> <<"UINT64", "UINT8", "VALUE_OBJECT", "UINT32">>,
  waitForRes |-> <<"UINT64", "UINT32", "UINT32">>,
  isResultValid |-> <<"UINT64", "INT32">>,
  printPerf |-> <<"UINT64", "INT32">>,
  getDelayBetween |-> <<"UINT64", "ENUM", "ENUM", "INT32">>,
  delete |-> <<"UINT64">>]

(* What the MEX functions take (src/matlab/m_*.cpp).                       *)
MTestHarness == <<"MATLAB_STRING", "MATLAB_STRING", "MATLAB_STRING", "UINT32", "UINT32">>
MRunAIEGraph == <<"UINT64", "UINT32", "UINT32">>
MRunTestHarness == <<"UINT64", "UINT8", "VALUE_OBJECT", "UINT32">>
MWaitForRes == <<"UINT64", "UINT32", "UINT32">>
MIsResultValid == <<"UINT64", "INT32">>
MPrintPerf == <<"UINT64", "INT32">>
MGetDelayBetween == <<"UINT64", "ENUM", "ENUM", "INT32">>
MDelTestHarness == <<"UINT64">>

MexTakes == [
  test_harness |-> MTestHarness, runAIEGraph |-> MRunAIEGraph,
  runTestHarness |-> MRunTestHarness, waitForRes |-> MWaitForRes,
  isResultValid |-> MIsResultValid, printPerf |-> MPrintPerf,
  getDelayBetween |-> MGetDelayBetween, delete |-> MDelTestHarness]

(* Bytes of an element, of the types data may have.                        *)
MatlabTypes == [INT8 |-> 1, UINT8 |-> 1, INT16 |-> 2, UINT16 |-> 2, INT32 |-> 4,
                UINT32 |-> 4, INT64 |-> 8, UINT64 |-> 8, SINGLE |-> 4, DOUBLE |-> 8]
PythonTypes == [int8 |-> 1, int16 |-> 2, int32 |-> 4, int64 |-> 8, uint8 |-> 1,
                uint16 |-> 2, uint32 |-> 4, uint64 |-> 8, float32 |-> 4, float64 |-> 8]

(* Whether size_in_bytes agrees with the array, 0 meaning all of it.       *)
Fits(types, array, bytes) ==
  /\ array.type \in DOMAIN types
  /\ array.elements * types[array.type] = bytes

MatlabFits(array, bytes) ==
  array.type \in DOMAIN MatlabTypes /\ (bytes = 0 \/ Fits(MatlabTypes, array, bytes))

PythonFits(array, bytes) == Fits(PythonTypes, array, bytes)
=============================================================================
