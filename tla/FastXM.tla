------------------------------- MODULE FastXM -------------------------------
(***************************************************************************)
(* The host-side handle on the programmable-logic (PL) kernel:             *)
(* include/ps/test_harness_fastxm.hpp.  There is one PL kernel, so the     *)
(* vectors indexed by kernel (pl_k_r_hdl, bo_hdl, bo_src_ptr) have one     *)
(* entry each, and the buffer objects of one run (cfg, perf, to_aie,       *)
(* from_aie) are one entry named by the transaction that owns the memory.  *)
(* The device behind XRT is external: it executes the started runs one     *)
(* after the other, and a run may never complete (the AIE graph neither    *)
(* consumes nor produces).                                                 *)
(***************************************************************************)
EXTENDS Naturals, Sequences, Functions

CONSTANT Trans          (* the transactions, each naming its own buffers   *)

VARIABLES
  runs,                 (* pl_k_r_hdl[0]: run handles, never removed       *)
  bos,                  (* bo_src_ptr[0]: host memory fetchRes writes to   *)
  completed,            (* runs the device has completed                   *)
  hostBuf               (* what the host buffer of a transaction holds     *)

fastVars == <<runs, bos, completed, hostBuf>>

BufferContents == {"initial", "partial", "complete"}

FastTypeOK ==
  /\ runs \in Seq(Trans)
  /\ bos \in Seq(Trans)
  /\ completed \subseteq Trans
  /\ hostBuf \in [Trans -> BufferContents]

FastInit ==
  /\ runs = << >>
  /\ bos = << >>
  /\ completed = {}
  /\ hostBuf = [t \in Trans |-> "initial"]

-----------------------------------------------------------------------------
(* runPL: write the buffers to the device, remember where to read them     *)
(* back to, keep the run handle and start it.                              *)
RunPL(t) ==
  /\ runs' = Append(runs, t)
  /\ bos' = Append(bos, t)
  /\ UNCHANGED <<completed, hostBuf>>

(* XRT may throw in any line of runPL: with no buffer remembered yet, with *)
(* some (which are forgotten by nobody), or in start(), with all of them   *)
(* and the handle.  A run that did not start may count as completed or not.*)
RunPLThrows(t) ==
  /\ bos' \in {bos, Append(bos, t)}
  /\ runs' = runs \/ (runs' = Append(runs, t) /\ bos' # bos)
  /\ UNCHANGED <<completed, hostBuf>>

(* waitForTestHarness waits for EVERY handle ever started, each for the    *)
(* whole time limit, and returns false at the first that times out: it     *)
(* returns true only when all have completed, and false only while one     *)
(* has not.  How long the limit is, is left out.                           *)
WaitForTestHarness == Range(runs) \subseteq completed

(* Variant: the buffers read back stay remembered.                         *)
FetchRes_KeepsBuffers ==
  /\ hostBuf' = [t \in Trans |->
                   IF t \in Range(bos)
                   THEN IF t \in completed THEN "complete" ELSE "partial"
                   ELSE hostBuf[t]]
  /\ UNCHANGED <<runs, bos, completed>>

(* fetchRes: read every remembered buffer back and forget them all.        *)
FetchRes ==
  /\ hostBuf' = [t \in Trans |->
                   IF t \in Range(bos)
                   THEN IF t \in completed THEN "complete" ELSE "partial"
                   ELSE hostBuf[t]]
  /\ bos' = << >>
  /\ UNCHANGED <<runs, completed>>

(* XRT may throw over the n-th of them: the ones before have been read, the *)
(* n-th perhaps in part, and all stay remembered.                          *)
FetchResThrows ==
  /\ \E n \in DOMAIN bos : \E left \in {hostBuf[bos[n]], "partial"} :
       hostBuf' = [t \in Trans |->
                     IF t = bos[n] THEN left
                     ELSE IF \E i \in 1 .. n - 1 : bos[i] = t
                     THEN IF t \in completed THEN "complete" ELSE "partial"
                     ELSE hostBuf[t]]
  /\ UNCHANGED <<runs, bos, completed>>

(* resetTestHarness, from the destructor: drop handles and buffers.        *)
ResetTestHarness ==
  /\ runs' = << >>
  /\ bos' = << >>
  /\ UNCHANGED <<completed, hostBuf>>

(* The device completes the oldest run it has not completed yet.           *)
KernelComplete ==
  /\ \E i \in DOMAIN runs :
       /\ runs[i] \notin completed
       /\ \A j \in 1 .. i - 1 : runs[j] \in completed
       /\ completed' = completed \cup {runs[i]}
  /\ UNCHANGED <<runs, bos, hostBuf>>
=============================================================================
