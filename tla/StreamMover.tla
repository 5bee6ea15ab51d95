----------------------------- MODULE StreamMover ----------------------------
(***************************************************************************)
(* The PL data mover, include/pl/test_harness.hpp as wired by              *)
(* src/pl/vck190_test_harness.cpp, between the two ends of a transaction   *)
(* (TransactionLayout).  In functional mode load_memories deals the        *)
(* channels' words from memory to their FIFOs in bursts, feed splits words *)
(* into stream beats for the AIE graph, get packs the graph's beats into   *)
(* words again and store_memories writes them back, all concurrently.  In  *)
(* performance mode the data are held in a URAM buffer per channel.        *)
(*                                                                         *)
(* The AIE graph is external: it gives back the beats of a channel in      *)
(* order, and on the channels in stalled it takes and gives nothing.  The  *)
(* server and the device memory between host and kernel are transparent    *)
(* here; they are the subject of HarnessPipeline.                          *)
(***************************************************************************)
EXTENDS TransactionLayout

CONSTANTS
  BurstLen,             (* BURST_LEN, in words                             *)
  AieDepth              (* beats the graph holds for a channel             *)

ASSUME BurstAssumption == BurstLen \in Nat \ {0}
ASSUME AieAssumption == AieDepth \in Nat /\ AieDepth >= MemRatio

VARIABLES
  stalled,              (* channels on which the graph does nothing        *)
  kernel,               (* "idle", "running" or "ended"                    *)
  inst,                 (* mode and what load_cfg reads for each channel   *)
  buff,                 (* the URAM buffers                                *)
  loadRegs, loadValid,  (* load_memories: channel_regs, num_valid_channels *)
  loaded,               (* load_memories: frame_idx                        *)
  toStrm,               (* to_aie_strm: words on their way to feed         *)
  fed,                  (* words, in performance mode beats, feed has read *)
  aie,                  (* beats inside the graph                          *)
  gotten,               (* words or beats get has passed on                *)
  fromStrm,             (* from_aie_strm: words on their way to memory     *)
  storeRegs, storeValid, stored           (* the same for store_memories   *)

loadVars == <<loadRegs, loadValid, loaded>>
storeVars == <<storeRegs, storeValid, stored>>
streamVars == <<toStrm, fed, aie, gotten, fromStrm>>
moverVars == <<layoutVars, stalled, kernel, inst, buff, loadVars, storeVars,
               streamVars>>

Capacity == 2 * BurstLen
Sides == {"to", "from"}

Frames(d, c) == inst.numFrames[d][c]

(* What feed and get have to do for channel c.                             *)
Total(d, c) ==
  IF inst.mode = "FUNC" THEN Words(Frames(d, c)) ELSE inst.numRep[d][c] * Frames(d, c)

(* Beats in the w-th of the words: the last may be a residual.             *)
FramesIn(frames, w) == IF w <= frames \div MemRatio THEN MemRatio ELSE frames % MemRatio

MemWord(memory, w) == [b \in 1 .. MemRatio |-> Read(memory, MemRatio * w + b)]

(* A word whose first beats are given; the rest is zero.                   *)
Padded(beats) ==
  [b \in 1 .. MemRatio |-> IF b <= Len(beats) THEN beats[b] ELSE Blank]

(* Words written from word base on; outside of the buffer we lose sight.   *)
WriteWords(memory, base, ws) ==
  [p \in DOMAIN memory |->
     LET w == (p - 1) \div MemRatio IN
     IF w - base + 1 \in DOMAIN ws
       THEN ws[w - base + 1][((p - 1) % MemRatio) + 1]
       ELSE memory[p]]

ChannelZero == [c \in Channels |-> 0]
ChannelEmpty == [c \in Channels |-> <<>>]
Turns == 1 .. NumChannels

(* channel_regs after shifting in 0, 1, ... : the first channel is deepest.*)
FilledRegs == [i \in Turns |-> NumChannels - i]

(* ap_shift_reg::shift.                                                    *)
Shift(regs, c) == [i \in Turns |-> IF i = 1 THEN c ELSE regs[i - 1]]

(* A beat of an argument, or one of the three that are of none.            *)
Longest(a) == Max({0} \cup {a[i].beats : i \in DOMAIN a})
BeatsOf(a) ==
  {Blank, Outside, Noise} \cup {<<i, k>> : i \in DOMAIN a, k \in 1 .. Longest(a)}

MoverTypeOK ==
  LET Regs == [Turns -> Channels]
      Beats == BeatsOf(args)
  IN
  /\ stalled \subseteq Channels
  /\ kernel \in {"idle", "running", "ended"}
  /\ status \in {"NONE", "CREATED", "READY", "RUNNING", "TIMEOUT", "DONE"}
  /\ loadRegs \in Regs /\ storeRegs \in Regs
  /\ loadValid \in 0 .. NumChannels /\ storeValid \in 0 .. NumChannels
  /\ \A c \in Channels :
       /\ inst.mode = "FUNC" => fed[c] <= loaded[c] /\ stored[c] <= gotten[c]
       /\ fed[c] <= Total("to", c) /\ loaded[c] <= Words(Frames("to", c))
       /\ gotten[c] <= Total("from", c)
       /\ aie[c] \in Seq(Beats)
       /\ toStrm[c] \in Seq([1 .. MemRatio -> Beats]) /\ Len(toStrm[c]) <= Capacity
       /\ fromStrm[c] \in Seq([1 .. MemRatio -> Beats]) /\ Len(fromStrm[c]) <= Capacity
       /\ \A d \in Sides : buff[d][c] \in [0 .. Depth - 1 -> Beats]
  /\ \A p \in DOMAIN from_aie : from_aie[p] \in Beats

MoverInit ==
  /\ LayoutInit
  /\ stalled \in SUBSET Channels
  /\ kernel = "idle"
  /\ LET zero == [d \in Sides |-> ChannelZero]
     IN inst = [mode |-> "FUNC", numFrames |-> zero, numRep |-> zero, offsets |-> zero]
  /\ buff = [d \in Sides |-> [c \in Channels |-> [x \in 0 .. Depth - 1 |-> Noise]]]
  /\ loadRegs = FilledRegs /\ storeRegs = FilledRegs
  /\ loadValid = 0 /\ storeValid = 0
  /\ loaded = ChannelZero /\ stored = ChannelZero
  /\ fed = ChannelZero /\ gotten = ChannelZero
  /\ toStrm = ChannelEmpty /\ fromStrm = ChannelEmpty
  /\ aie = ChannelEmpty
-----------------------------------------------------------------------------
(* The call and the start of the kernel.                                   *)

Call ==
  /\ \E run \in Runs, limit \in TimeOuts : HandleInputs(run, limit)
  /\ UNCHANGED <<stalled, kernel, inst, buff, loadVars, storeVars, streamVars>>

(* The rows of the configuration: delays, numFrames, numRep, offsets.      *)
CfgRow(d, row) ==
  [c \in Channels |->
     cfg_ptr[1 + (IF d = "to" THEN 0 ELSE 4 * NumChannels) + row * NumChannels + c]]

LoadCfg ==
  [mode |-> IF cfg_ptr[0] = 0 THEN "FUNC" ELSE "PERF",
   numFrames |-> [d \in Sides |-> CfgRow(d, 1)],
   numRep |-> [d \in Sides |-> CfgRow(d, 2)],
   offsets |-> [d \in Sides |-> CfgRow(d, 3)]]

(* load_buff of channel c.                                                 *)
LoadBuff(cfg, c) ==
  [x \in 0 .. Depth - 1 |->
     IF cfg.mode = "PERF" /\ x < cfg.numFrames["to"][c]
       THEN Read(to_aie, MemRatio * cfg.offsets["to"][c] + x + 1)
       ELSE buff["to"][c][x]]

(* load_cfg, load_buffs, and the entry of the movers' loops, which         *)
(* performance mode passes over.                                           *)
KernelStart ==
  LET valid == IF LoadCfg.mode = "FUNC" THEN NumChannels ELSE 0 IN
  /\ status = "READY"
  /\ status' = "RUNNING"
  /\ kernel' = "running"
  /\ inst' = LoadCfg
  /\ buff' = [buff EXCEPT !["to"] = [c \in Channels |-> LoadBuff(LoadCfg, c)]]
  /\ loadValid' = valid /\ storeValid' = valid
  /\ UNCHANGED <<callVars, bufferVars, outputVars, stalled, loadRegs, loaded,
                 storeRegs, stored, streamVars>>

(* A process of the kernel moves; after a time-out it is no longer followed.*)
Running == kernel = "running" /\ status = "RUNNING"
-----------------------------------------------------------------------------
(* load_memories.                                                          *)

LoadLeft(c) == Words(Frames("to", c)) - loaded[c]

(* How many words go into the FIFO now: a burst, the rest, or none.        *)
LoadAmount(c) ==
  LET size == Len(toStrm[c])
      left == LoadLeft(c)
  IN IF left >= BurstLen /\ size + BurstLen <= Capacity THEN BurstLen
     ELSE IF size + left <= Capacity THEN left
     ELSE 0

(* write_nb drops what does not fit.                                       *)
WriteNB(strm, ws) == SubSeq(strm \o ws, 1, Min({Len(strm) + Len(ws), Capacity}))

loadUnchanged == <<layoutVars, stalled, kernel, inst, buff, storeVars, fed, aie,
                   gotten, fromStrm>>

(* A finished channel leaves the window of valid ones.                     *)
LoadSkip ==
  /\ Running
  /\ loadValid # 0
  /\ LoadLeft(loadRegs[loadValid]) = 0
  /\ loadValid' = loadValid - 1
  /\ UNCHANGED <<loadRegs, loaded, toStrm, loadUnchanged>>

LoadWords(regs) ==
  LET c == loadRegs[loadValid]
      n == LoadAmount(c)
  IN
  /\ Running
  /\ loadValid # 0
  /\ LoadLeft(c) # 0
  /\ loadRegs' = regs
  /\ toStrm' = [toStrm EXCEPT ![c] = WriteNB(@, [j \in 1 .. n |->
                  MemWord(to_aie, inst.offsets["to"][c] + loaded[c] + j - 1)])]
  /\ loaded' = [loaded EXCEPT ![c] = @ + n]
  /\ UNCHANGED <<loadValid, loadUnchanged>>

(* Variant: a channel keeps its turn until it is finished.                 *)
LoadTurn_NoShift == LoadWords(loadRegs)

LoadTurn == LoadWords(Shift(loadRegs, loadRegs[loadValid]))
-----------------------------------------------------------------------------
(* feed and get of channel c: in functional mode a word at a time, in      *)
(* performance mode a beat, several times over and by way of the URAM.     *)

feedUnchanged == <<layoutVars, stalled, kernel, inst, buff, loadVars, storeVars,
                   gotten, fromStrm>>

Feed(c) ==
  /\ Running
  /\ inst.mode = "FUNC"
  /\ c \notin stalled
  /\ toStrm[c] # <<>>
  /\ fed[c] < Total("to", c)
  /\ LET beats == SubSeq(Head(toStrm[c]), 1, FramesIn(Frames("to", c), fed[c] + 1)) IN
       /\ Len(aie[c]) + Len(beats) <= AieDepth
       /\ aie' = [aie EXCEPT ![c] = @ \o beats]
  /\ toStrm' = [toStrm EXCEPT ![c] = Tail(@)]
  /\ fed' = [fed EXCEPT ![c] = @ + 1]
  /\ UNCHANGED feedUnchanged

(* From the second round through the buffer on, data are altered.          *)
FeedPerf(c) ==
  /\ Running
  /\ inst.mode = "PERF"
  /\ c \notin stalled
  /\ fed[c] < Total("to", c)
  /\ Len(aie[c]) < AieDepth
  /\ LET idx == fed[c] % Frames("to", c) IN
       aie' = [aie EXCEPT ![c] =
                 Append(@, IF idx < Depth THEN buff["to"][c][idx] ELSE Noise)]
  /\ fed' = [fed EXCEPT ![c] = @ + 1]
  /\ UNCHANGED <<toStrm, feedUnchanged>>

getUnchanged == <<layoutVars, stalled, kernel, inst, loadVars, storeVars, toStrm, fed>>

Get(c) ==
  /\ Running
  /\ inst.mode = "FUNC"
  /\ c \notin stalled
  /\ gotten[c] < Total("from", c)
  /\ Len(fromStrm[c]) < Capacity
  /\ LET n == FramesIn(Frames("from", c), gotten[c] + 1) IN
       /\ Len(aie[c]) >= n
       /\ fromStrm' = [fromStrm EXCEPT ![c] = Append(@, Padded(SubSeq(aie[c], 1, n)))]
       /\ aie' = [aie EXCEPT ![c] = SubSeq(@, n + 1, Len(@))]
  /\ gotten' = [gotten EXCEPT ![c] = @ + 1]
  /\ UNCHANGED <<buff, getUnchanged>>

GetPerf(c) ==
  /\ Running
  /\ inst.mode = "PERF"
  /\ c \notin stalled
  /\ gotten[c] < Total("from", c)
  /\ aie[c] # <<>>
  /\ buff' = [buff EXCEPT !["from"][c][(gotten[c] % Frames("from", c)) % Depth]
                            = Head(aie[c])]
  /\ aie' = [aie EXCEPT ![c] = Tail(@)]
  /\ gotten' = [gotten EXCEPT ![c] = @ + 1]
  /\ UNCHANGED <<fromStrm, getUnchanged>>
-----------------------------------------------------------------------------
(* store_memories.                                                         *)

StoreLeft(c) == Words(Frames("from", c)) - stored[c]

(* A burst, the rest once all of it has arrived, or none.                  *)
(* Variant: the rest as soon as anything has arrived.                      *)
StoreAmount_Eager(c) ==
  LET size == Len(fromStrm[c])
      left == StoreLeft(c)
  IN IF left >= BurstLen /\ size >= BurstLen THEN BurstLen
     ELSE IF size # 0 THEN left
     ELSE 0

StoreAmount(c) ==
  LET size == Len(fromStrm[c])
      left == StoreLeft(c)
  IN IF left >= BurstLen /\ size >= BurstLen THEN BurstLen
     ELSE IF size = left THEN left
     ELSE 0

(* read_nb leaves an uninitialised word when the FIFO is empty.            *)
ReadNB(strm, j) ==
  IF j <= Len(strm) THEN strm[j] ELSE [b \in 1 .. MemRatio |-> Noise]

storeUnchanged == <<callVars, status, cfg_ptr, perf_ptr, to_aie, outputVars, stalled,
                    kernel, inst, buff, loadVars, toStrm, fed, aie, gotten>>

StoreSkip ==
  /\ Running
  /\ storeValid # 0
  /\ StoreLeft(storeRegs[storeValid]) = 0
  /\ storeValid' = storeValid - 1
  /\ UNCHANGED <<fromStrm, storeRegs, stored, from_aie, storeUnchanged>>

StoreTurn ==
  LET c == storeRegs[storeValid]
      n == StoreAmount(c)
  IN
  /\ Running
  /\ storeValid # 0
  /\ StoreLeft(c) # 0
  /\ storeRegs' = Shift(storeRegs, c)
  /\ from_aie' = WriteWords(from_aie, inst.offsets["from"][c] + stored[c],
                            [j \in 1 .. n |-> ReadNB(fromStrm[c], j)])
  /\ fromStrm' = [fromStrm EXCEPT ![c] = SubSeq(@, n + 1, Len(@))]
  /\ stored' = [stored EXCEPT ![c] = @ + n]
  /\ UNCHANGED <<storeValid, storeUnchanged>>
-----------------------------------------------------------------------------
(* The end of the kernel and of the transaction.                           *)

ProcessesEnded ==
  /\ loadValid = 0 /\ storeValid = 0
  /\ \A c \in Channels : fed[c] = Total("to", c) /\ gotten[c] = Total("from", c)

(* The w-th word store_buff writes for channel c.                          *)
BuffWord(c, w) ==
  LET n == Min({Frames("from", c), Depth}) IN
  Padded([b \in 1 .. FramesIn(n, w) |-> buff["from"][c][(w - 1) * MemRatio + b - 1]])

(* store_buffs, channel by channel.                                        *)
StoreBuffs ==
  [p \in DOMAIN from_aie |->
     LET Place(c) == MemRatio * inst.offsets["from"][c]
         writers == {c \in Channels :
                       Place(c) < p /\ p <= Place(c)
                         + MemRatio * Words(Min({Frames("from", c), Depth}))}
         last == Max(writers)
         x == p - Place(last) - 1
     IN IF inst.mode = "FUNC" \/ writers = {} THEN from_aie[p]
        ELSE BuffWord(last, x \div MemRatio + 1)[(x % MemRatio) + 1]]

(* store_perf: firstcc and lastcc, abstracted to whose cycle they are.     *)
(* Variant: the two are interleaved.                                       *)
StorePerf_Interleaved ==
  [x \in 0 .. 4 * NumChannels - 1 |->
     [dir |-> IF x < 2 * NumChannels THEN "to" ELSE "from",
      chn |-> (x % (2 * NumChannels)) \div 2,
      cc |-> IF x % 2 = 0 THEN "first" ELSE "last"]]

StorePerf ==
  [x \in 0 .. 4 * NumChannels - 1 |->
     [dir |-> IF x < 2 * NumChannels THEN "to" ELSE "from",
      chn |-> x % NumChannels,
      cc |-> IF (x \div NumChannels) % 2 = 0 THEN "first" ELSE "last"]]

KernelEnd ==
  /\ Running
  /\ ProcessesEnded
  /\ kernel' = "ended"
  /\ from_aie' = StoreBuffs
  /\ perf_ptr' = StorePerf
  /\ UNCHANGED <<callVars, status, cfg_ptr, to_aie, outputVars, stalled, inst, buff,
                 loadVars, storeVars, streamVars>>

(* The server's answer: DONE, or TIMEOUT if the limit of waitForRes ends.  *)
Answer ==
  /\ status = "RUNNING"
  /\ status' \in IF kernel = "ended" THEN {"DONE"} ELSE {"TIMEOUT"}
  /\ UNCHANGED <<callVars, bufferVars, outputVars, stalled, kernel, inst, buff,
                 loadVars, storeVars, streamVars>>

Finish ==
  /\ HandleOutputs
  /\ UNCHANGED <<stalled, kernel, inst, buff, loadVars, storeVars, streamVars>>

MoverNext ==
  \/ Call \/ KernelStart
  \/ LoadSkip \/ LoadTurn
  \/ \E c \in Channels : Feed(c) \/ FeedPerf(c) \/ Get(c) \/ GetPerf(c)
  \/ StoreSkip \/ StoreTurn
  \/ KernelEnd \/ Answer \/ Finish

MoverSpec == MoverInit /\ [][MoverNext]_moverVars

(* Hardware processes: each runs whenever it can.                          *)
MoverFairSpec ==
  /\ MoverSpec
  /\ WF_moverVars(KernelStart) /\ WF_moverVars(KernelEnd)
  /\ WF_moverVars(LoadSkip \/ LoadTurn)
  /\ WF_moverVars(StoreSkip \/ StoreTurn)
  /\ \A c \in Channels : WF_moverVars(Feed(c) \/ FeedPerf(c))
                           /\ WF_moverVars(Get(c) \/ GetPerf(c))
-----------------------------------------------------------------------------
(* Properties.                                                             *)

(* No channel is used by two arguments of a direction.                     *)
DistinctChannels ==
  \A i, j \in DOMAIN args :
    args[i].dir = args[j].dir /\ args[i].chn = args[j].chn => i = j

(* The k-th beat the graph gives back on channel c.                        *)
Echo(c, k) ==
  LET i == Last(args, "to", c) IN <<i, ((k - 1) % args[i].beats) + 1>>

(* In functional mode, whatever the order in which channels get their      *)
(* turns, every word stored so far is the channel's own, in its place and  *)
(* whole, and nothing else in the result buffer has been touched.          *)
ResultsInPlace ==
  (inst.mode = "FUNC" /\ kernel # "idle") =>
    \A p \in DOMAIN from_aie :
      LET Start(i) == MemRatio * Offset("FUNC", args, i)
          owners == {i \in Towards(args, "from") :
                       Start(i) < p /\ p <= Start(i) + MemRatio * Words(args[i].beats)}
          Right(i) ==
            LET c == args[i].chn
                k == p - Start(i)
                there == /\ i = Last(args, "from", c)
                         /\ k <= Min({MemRatio * stored[c], args[i].beats})
            IN from_aie[p] = IF there THEN Echo(c, k) ELSE Blank
      IN owners # {} /\ \A i \in owners : Right(i)

(* What the application finds for output i is what went in on its channel, *)
(* in performance mode what went in last.                                  *)
Delivered(i) ==
  \A k \in 1 .. args[i].beats :
    user[i][k] = Echo(args[i].chn, (args[i].rep - 1) * args[i].beats + k)

(* From the application's buffers through layout, mover, graph and back:   *)
(* when isResultValid says so and the outputs fit into the URAM and are    *)
(* asked for at least once, every output is complete and its own, for any  *)
(* order and sizes of arguments.                                           *)
DeliveredIfOutputsFit ==
  (/\ Returned
   /\ isResultValid
   /\ DistinctChannels
   /\ mode = "PERF" =>
        \A i \in Towards(args, "from") : args[i].beats <= Depth /\ args[i].rep # 0)
  => \A i \in Towards(args, "from") : Delivered(i)

(* The same for all outputs, as sw_apis.rst:151 has it.  It fails: only    *)
(* the sizes of the inputs are compared with the URAM buffer.              *)
ValidMeansDelivered ==
  (Returned /\ isResultValid /\ DistinctChannels)
    => \A i \in Towards(args, "from") : Delivered(i)

(* The first and last cycle reported for an argument are those of its own  *)
(* channel and direction: perf_map and store_perf agree on the places.     *)
PerfOfOwnChannel ==
  Returned =>
    \A i \in DOMAIN args :
      LET Cycle(cc) == [dir |-> args[i].dir, chn |-> args[i].chn, cc |-> cc]
      IN perf_map[i] = <<Cycle("first"), Cycle("last")>>

(* As many beats are expected back on a channel as are sent.               *)
Balanced(c) ==
  IF inst.mode = "FUNC" THEN Frames("to", c) = Frames("from", c)
  ELSE Total("to", c) = Total("from", c)

ChannelStored(c) ==
  gotten[c] = Total("from", c) /\ (inst.mode = "FUNC" => StoreLeft(c) = 0)

(* A channel the graph serves gets all its results, even when the graph    *)
(* never touches some of the others, unless the limit ends first.          *)
ServedChannelsFinish ==
  \A c \in Channels :
    kernel = "running" /\ c \notin stalled /\ Balanced(c)
      ~> ChannelStored(c) \/ status = "TIMEOUT"

=============================================================================
