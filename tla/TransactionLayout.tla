-------------------------- MODULE TransactionLayout -------------------------
(***************************************************************************)
(* One transaction object, include/ps/test_harness_transaction.hpp: the    *)
(* argument checks, the layout of the two device buffers and of the        *)
(* configuration in both modes, and the way back of the results.  Memory   *)
(* is a sequence of stream beats, MemRatio to a memory word; a beat <<i,k>>*)
(* is the k-th of the data of argument i.                                  *)
(***************************************************************************)
EXTENDS Integers, Sequences, FiniteSetsExt, Functions

CONSTANTS
  NumChannels,          (* num_channels, for each direction                *)
  MemRatio,             (* mMemWidth / word_size                           *)
  Depth,                (* depth: beats a channel's URAM buffer holds      *)
  Runs,                 (* modes and arguments an application may use      *)
  TimeOuts              (* limits it may give                              *)

Channels == 0 .. NumChannels - 1

ASSUME ChannelsAssumption == NumChannels \in Nat \ {0}
(* The assertions of handleInputs for the performance mode.                *)
ASSUME DepthAssumption ==
  MemRatio \in Nat \ {0} /\ Depth \in Nat \ {0} /\ Depth % MemRatio = 0
(* test_harness_args, an unsigned channel, size and repetition; whole says *)
(* that the size is a multiple of a beat.                                  *)
ASSUME RunsAssumption ==
  Runs \subseteq [mode : {"FUNC", "PERF"},
                 args : Seq([dir : {"to", "from"}, chn : Nat, beats : Nat, rep : Nat,
                             whole : BOOLEAN])]
ASSUME TimeOutsAssumption == TimeOuts \subseteq Nat

VARIABLES
  mode, args,           (* the mode, args_rec                              *)
  given, timeOut,       (* the limit of the call, mTimeOut                 *)
  status, result_valid,
  cfg_ptr, perf_ptr,
  to_aie, from_aie,     (* to_aie_ptr, from_aie_ptr                        *)
  from_mem_word_offset,
  user,                 (* what the application finds in its buffers       *)
  perf_map

callVars == <<mode, args, given, timeOut, result_valid, from_mem_word_offset>>
bufferVars == <<cfg_ptr, perf_ptr, to_aie, from_aie>>
outputVars == <<user, perf_map>>
layoutVars == <<callVars, status, bufferVars, outputVars>>

Blank == <<0, 0>>          (* zeroed memory                                *)
Outside == <<0, 1>>        (* what lies behind a buffer                    *)
Noise == <<0, 2>>          (* data made up by the kernel                   *)

(* A cycle count is abstracted to the channel it was taken for; zeroed:    *)
NoCycle == [dir |-> "none", chn |-> 0, cc |-> "none"]

(* Words that hold so many beats.                                          *)
Words(beats) == (beats + MemRatio - 1) \div MemRatio

Towards(a, d) == {i \in DOMAIN a : a[i].dir = d}

WordsOf(a) == [i \in DOMAIN a |-> Words(a[i].beats)]

(* Where argument i begins, in words: behind the earlier ones of its       *)
(* direction, or at its channel's place.                                   *)
(* Variant: residual words of the earlier ones are forgotten.              *)
Offset_RoundedDown(m, a, i) ==
  IF m = "FUNC"
    THEN SumFunctionOnSet([j \in DOMAIN a |-> a[j].beats \div MemRatio],
                          {j \in Towards(a, a[i].dir) : j < i})
    ELSE (Depth \div MemRatio) * a[i].chn

Offset(m, a, i) ==
  IF m = "FUNC"
    THEN SumFunctionOnSet(WordsOf(a), {j \in Towards(a, a[i].dir) : j < i})
    ELSE (Depth \div MemRatio) * a[i].chn

(* Beats copied between the application and the device buffer.             *)
Copied(m, a, i) == IF m = "FUNC" THEN a[i].beats ELSE Min({a[i].beats, Depth})

BufferSize(m, a, d) ==
  IF m = "FUNC" THEN MemRatio * SumFunctionOnSet(WordsOf(a), Towards(a, d))
  ELSE NumChannels * Depth

(* The argument that wrote a channel's configuration, the last one; or 0.  *)
Last(a, d, c) == Max({0} \cup {i \in Towards(a, d) : a[i].chn = c})

(* Delay (a mere wait, left out), frames, repetitions and offset.          *)
Entry(m, a, d, row, c) ==
  LET i == Last(a, d, c) IN
  IF i = 0 \/ row = 0 THEN 0
  ELSE IF row = 1 THEN a[i].beats
  ELSE IF row = 2 THEN a[i].rep
  ELSE Offset(m, a, i)

Configuration(m, a) ==
  [x \in 0 .. 8 * NumChannels |->
     IF x = 0 THEN IF m = "FUNC" THEN 0 ELSE 1
     ELSE LET y == (x - 1) % (4 * NumChannels) IN
          Entry(m, a, IF x <= 4 * NumChannels THEN "to" ELSE "from",
                y \div NumChannels, y % NumChannels)]

(* The memcpy of the inputs: a later one overwrites an earlier one.        *)
InputBuffer(m, a) ==
  [p \in 1 .. BufferSize(m, a, "to") |->
     LET Start(i) == MemRatio * Offset(m, a, i)
         writers == {i \in Towards(a, "to") :
                       Start(i) < p /\ p <= Start(i) + Copied(m, a, i)}
     IN IF writers = {} THEN Blank ELSE <<Max(writers), p - Start(Max(writers))>>]

(* check_arguments and the check for the functional mode.                  *)
ValidArguments(m, a) ==
  \A i \in DOMAIN a :
    /\ a[i].chn \in Channels
    /\ a[i].whole
    /\ m = "FUNC" => a[i].rep = 1

(* Only inputs are looked at.                                              *)
(* Variant: nothing is.                                                    *)
FitsBuffers_Always(m, a) == TRUE

FitsBuffers(m, a) == m = "PERF" => \A i \in Towards(a, "to") : a[i].beats <= Depth

LayoutInit ==
  /\ mode = "FUNC" /\ args = <<>>
  /\ given = 0 /\ timeOut = 0
  /\ status = "NONE" /\ result_valid = TRUE
  /\ cfg_ptr = <<>> /\ perf_ptr = <<>> /\ to_aie = <<>> /\ from_aie = <<>>
  /\ from_mem_word_offset = [c \in Channels |-> 0]
  /\ user = <<>> /\ perf_map = <<>>

(* The constructor, given the limit, and handleInputs; both call reset(),  *)
(* which sets mTimeOut to 0.  Invalid arguments throw.                     *)
HandleInputs(run, limit) ==
  LET m == run.mode
      a == run.args
  IN
  /\ status = "NONE"
  /\ mode' = m /\ args' = a
  /\ given' = limit /\ timeOut' = 0
  /\ IF ValidArguments(m, a)
       THEN /\ status' = "READY"
            /\ result_valid' = FitsBuffers(m, a)
            /\ cfg_ptr' = Configuration(m, a)
            /\ perf_ptr' = [x \in 0 .. 4 * NumChannels - 1 |-> NoCycle]
            /\ to_aie' = InputBuffer(m, a)
            /\ from_aie' = [p \in 1 .. BufferSize(m, a, "from") |-> Blank]
            /\ from_mem_word_offset' =
                 [c \in Channels |-> Entry(m, a, "from", 3, c)]
       ELSE /\ status' = "CREATED"
            /\ UNCHANGED <<result_valid, bufferVars, from_mem_word_offset>>
  /\ UNCHANGED outputVars

Read(memory, p) == IF p \in DOMAIN memory THEN memory[p] ELSE Outside

(* First and last cycle of a channel.                                      *)
PerfOf(d, c) ==
  IF d = "to" THEN <<perf_ptr[c], perf_ptr[c + NumChannels]>>
  ELSE <<perf_ptr[c + 2 * NumChannels], perf_ptr[c + 3 * NumChannels]>>

(* handleOutputs with clearData; what was not copied stays as it was.      *)
HandleOutputs ==
  /\ status \in {"DONE", "TIMEOUT"}
  /\ cfg_ptr # <<>>
  /\ user' = [i \in Towards(args, "from") |->
                [k \in 1 .. args[i].beats |->
                   IF k <= Copied(mode, args, i)
                     THEN Read(from_aie, MemRatio * from_mem_word_offset[args[i].chn] + k)
                     ELSE Blank]]
  /\ perf_map' = [i \in DOMAIN args |-> PerfOf(args[i].dir, args[i].chn)]
  /\ cfg_ptr' = <<>> /\ perf_ptr' = <<>> /\ to_aie' = <<>> /\ from_aie' = <<>>
  /\ from_mem_word_offset' = <<>>
  /\ UNCHANGED <<mode, args, given, timeOut, result_valid, status>>

isResultValid == status = "DONE" /\ result_valid

(* The results have been handed to the application.                        *)
Returned == status = "DONE" /\ cfg_ptr = <<>>
-----------------------------------------------------------------------------
(* The limit given to runTestHarness is the one sent to the server with    *)
(* the transaction, as sw_apis.rst documents the parameter.  The code does *)
(* not keep this promise: reset() forgets the limit.                       *)
LimitKept == status = "RUNNING" => timeOut = given
=============================================================================
