---------------------------- MODULE ExampleGraphs ---------------------------
(***************************************************************************)
(* The AIE graphs of examples/: kernels that take from queues and put into *)
(* queues, a fixed round of moves over and over.  Data are told apart by a *)
(* stamp, the place in the stream (or the frame) they come from, and a     *)
(* token of a queue is what one move takes: a window, a tile of a frame or *)
(* a vector of samples.  The number of tokens in a window and of rounds in *)
(* an iteration is cut down (Window, Rounds), ratios are kept.             *)
(***************************************************************************)
EXTENDS Integers, Sequences

CONSTANTS
  Window,               (* vectors in a window of the dmafifo example, and *)
                        (* in an iteration of the streaming adder          *)
  FifoDepth,            (* vectors in its FIFO, fifo_depth(net1)           *)
  Rounds                (* rounds of a channelizer kernel in an iteration  *)

ASSUME WindowAssumption == Window \in Nat \ {0}
ASSUME FifoDepthAssumption == FifoDepth \in Nat
ASSUME RoundsAssumption == Rounds \in Nat \ {0}

(* Functions by their values, as TLC.tla has them; its own definitions are *)
(* beyond the provers.                                                     *)
e :> v == [x \in {e} |-> v]
f @@ g == [x \in DOMAIN f \cup DOMAIN g |-> IF x \in DOMAIN f THEN f[x] ELSE g[x]]

(* Queues are named <<kind, number, reader>>.                              *)
In(port) == <<"to", port, 1>>
Out(port) == <<"from", port, 1>>
Net(n) == <<"net", n, 1>>
Nothing == << >>
Kept == <<Net(0), 0>>     (* the kernel's static data                        *)

Vectors == 1 .. Window

(* A move of a kernel: which tokens it must have (windows it holds), which *)
(* it takes out, how much room it must have (windows it fills), what it    *)
(* puts (each token with the set of its sources), what it keeps.           *)
Holding(need, get, room, put, keep) ==
  [need |-> need, get |-> get, room |-> room, put |-> put, keep |-> keep]

Streaming(get, put, keep) == Holding(get, get, Nothing, put, keep)

First(e) == <<e, 1>>
One(e) == e :> 1
PutOne(e, sources) == e :> <<sources>>

-----------------------------------------------------------------------------
(* adder_perf: one kernel adds the windows of its two inputs.              *)
Vck190AdderKernel ==
  << Streaming(One(In(1)) @@ One(In(3)),
               PutOne(Out(2), {First(In(1)), First(In(3))}), {}) >>

(* The same kernel and graph are built for the other boards.               *)
Vek280AdderKernel == Vck190AdderKernel
Vek385AdderKernel == Vck190AdderKernel

(* Ports, capacities (windows are doubled), kernels and the moves of each  *)
(* in an iteration of the graph.                                           *)
Vck190AdderGraph == [
  inputs |-> [port \in {1, 3} |-> {In(port)}],
  outputs |-> [port \in {2} |-> Out(port)],
  capacity |-> [e \in {In(1), In(3), Out(2)} |-> 2],
  kernels |-> "adder" :> Vck190AdderKernel,
  moves |-> "adder" :> 1]

Vek280AdderGraph == [Vck190AdderGraph EXCEPT !.kernels = "adder" :> Vek280AdderKernel]
Vek385AdderGraph == [Vck190AdderGraph EXCEPT !.kernels = "adder" :> Vek385AdderKernel]

(* The adder of the bindings' examples reads and writes streams.           *)
StreamAdderGraph == [
  Vck190AdderGraph EXCEPT
    !.capacity = [e \in DOMAIN Vck190AdderGraph.capacity |-> 1],
    !.moves = "adder" :> Window]

-----------------------------------------------------------------------------
(* testcase_dmafifo_opt: the first kernel copies its window to a stream    *)
(* and to a window, the second adds the two.                               *)
AieDest1 ==
  [i \in Vectors |->
     LET last == i = Window IN
     Holding(In(1) :> Window,
             IF last THEN In(1) :> Window ELSE Nothing,
             Net(2) :> Window,
             PutOne(Net(1), {<<In(1), i>>})
               @@ IF last THEN Net(2) :> [j \in Vectors |-> {<<In(1), j>>}] ELSE Nothing,
             {})]

AieDest2 ==
  [i \in Vectors |->
     Holding(Net(2) :> Window @@ One(Net(1)),
             One(Net(1)) @@ IF i = Window THEN Net(2) :> Window ELSE Nothing,
             Nothing,
             PutOne(Out(1), {First(Net(1)), <<Net(2), i>>}), {})]

(* Variant: fifo_depth is left out; the stream holds a vector.             *)
DmaFifoGraph_Shallow == [
  inputs |-> 1 :> {In(1)},
  outputs |-> 1 :> Out(1),
  capacity |-> In(1) :> 2 * Window @@ Net(1) :> 1 @@ Net(2) :> 2 * Window @@ Out(1) :> 1,
  kernels |-> [k0 |-> AieDest1, k1 |-> AieDest2],
  moves |-> [k0 |-> Window, k1 |-> Window]]

DmaFifoGraph == [
  inputs |-> 1 :> {In(1)},
  outputs |-> 1 :> Out(1),
  capacity |-> In(1) :> 2 * Window @@ Net(1) :> FifoDepth
                 @@ Net(2) :> 2 * Window @@ Out(1) :> 1,
  kernels |-> [k0 |-> AieDest1, k1 |-> AieDest2],
  moves |-> [k0 |-> Window, k1 |-> Window]]

-----------------------------------------------------------------------------
(* normalization_v2: a frame of REPEAT tiles in a shared buffer is read by *)
(* three kernels: for its mean, for its deviation and to be normalised.    *)
Repeat == 6
Tiles == 1 .. Repeat
Reader == [mean |-> <<"mtxA", 1, 1>>, deviation |-> <<"mtxA", 1, 2>>,
           norm |-> <<"mtxA", 1, 3>>]
Readers == {Reader.mean, Reader.deviation, Reader.norm}

Mean ==
  [i \in Tiles |->
     Streaming(One(Reader.mean),
               IF i = Repeat THEN PutOne(Net(1), {Kept, First(Reader.mean)}) ELSE Nothing,
               IF i = Repeat THEN {} ELSE {Kept, First(Reader.mean)})]

Deviation ==
  [i \in Tiles |->
     LET own == {Kept, First(Reader.deviation)}
                  \cup IF i = 1 THEN {First(Net(1))} ELSE {} IN
     Streaming(One(Reader.deviation) @@ IF i = 1 THEN One(Net(1)) ELSE Nothing,
               IF i = Repeat THEN PutOne(Net(2), own) ELSE Nothing,
               IF i = Repeat THEN {} ELSE own)]

(* Variant: the statistics are not acquired anew for each frame.           *)
Norm_AcquiresOnce ==
  << Streaming(One(Reader.norm) @@ One(Net(2)),
               PutOne(Out(2), {First(Reader.norm), First(Net(2))}), {First(Net(2))}) >>
  \o [i \in 1 .. 2 * Repeat - 1 |->
        Streaming(One(Reader.norm), PutOne(Out(2), {First(Reader.norm), Kept}), {Kept})]

Norm ==
  [i \in Tiles |->
     LET statistics == IF i = 1 THEN First(Net(2)) ELSE Kept IN
     Streaming(One(Reader.norm) @@ IF i = 1 THEN One(Net(2)) ELSE Nothing,
               PutOne(Out(2), {First(Reader.norm), statistics}), {statistics})]

(* External: the buffer is single, filled when its three readers are done. *)
SharedBuffer ==
  [i \in Tiles |->
     LET tile == {Kept, First(In(1))} IN
     Holding(One(In(1)), One(In(1)), [e \in Readers |-> Repeat],
             IF i = Repeat THEN [e \in Readers |-> [j \in Tiles |-> tile]] ELSE Nothing,
             IF i = Repeat THEN {} ELSE tile)]

NormalizationGraph == [
  inputs |-> 1 :> {In(1)},
  outputs |-> 2 :> Out(2),
  capacity |-> [e \in Readers |-> Repeat] @@ In(1) :> 1
                 @@ [e \in {Net(1), Net(2), Out(2)} |-> 2],
  kernels |-> [mtxA |-> SharedBuffer, mean |-> Mean, deviation |-> Deviation,
               norm |-> Norm],
  moves |-> [mtxA |-> 0, mean |-> Repeat, deviation |-> Repeat, norm |-> Repeat]]
-----------------------------------------------------------------------------
(* channelizer: DFT widgets, each a row of tiles joined by cascades, all of*)
(* them reading every signal, next to a bank of filters, one per signal.   *)
(* The numbers of tiles, widgets and filters (4, 4 and 8) are parameters.  *)
Signal(i, widget) == <<"to", 2 * i + 1, widget>>
Cascade(widget, tile) == <<"acc", widget, tile>>

(* A tile takes a vector from each of its two signals in a move.           *)
TileSignals(widget, tile) == {Signal(2 * tile, widget), Signal(2 * tile + 1, widget)}
TakeSignals(widget, tile) == [e \in TileSignals(widget, tile) |-> 1]
Sources(widget, tile) == {First(e) : e \in TileSignals(widget, tile)}

(* Two accumulators, each with the partial sum passed on so far.           *)
Partial(widget, tile) == [j \in 1 .. 2 |-> Sources(widget, tile)
                                             \cup {<<Cascade(widget, tile - 1), j>>}]

RunInput(widget) ==
  << Streaming(TakeSignals(widget, 0),
               Cascade(widget, 0) :> [j \in 1 .. 2 |-> Sources(widget, 0)], {}) >>

RunMiddle(widget, tile) ==
  << Streaming(TakeSignals(widget, tile) @@ Cascade(widget, tile - 1) :> 2,
               Cascade(widget, tile) :> Partial(widget, tile), {}) >>

RunOutput(widget, tile) ==
  << Streaming(TakeSignals(widget, tile) @@ Cascade(widget, tile - 1) :> 2,
               [e \in {Out(4 * widget + 2), Out(4 * widget + 4)} |->
                  << Partial(widget, tile)[(e[2] - 4 * widget) \div 2] >>], {}) >>

DftWidget(widget, tiles) ==
  [k \in {<<"dft", widget, tile>> : tile \in 0 .. tiles - 1} |->
     IF k[3] = 0 THEN RunInput(widget)
     ELSE IF k[3] = tiles - 1 THEN RunOutput(widget, k[3])
     ELSE RunMiddle(widget, k[3])]

(* Every pattern of the filter takes four samples and gives four.          *)
PolyphaseFir(i) == << Streaming(One(In(17 + 2 * i)),
                                PutOne(Out(18 + 2 * i), {First(In(17 + 2 * i))}), {}) >>

Filterbank(firs) == [k \in {<<"fir", 0, i>> : i \in 0 .. firs - 1} |-> PolyphaseFir(k[3])]

DftPorts(tiles, widgets) ==
  [port \in {2 * i + 1 : i \in 0 .. 2 * tiles - 1} |->
     {<<"to", port, widget>> : widget \in 0 .. widgets - 1}]

ChannelizerGraph(tiles, widgets, firs) ==
  LET inputs == DftPorts(tiles, widgets)
                  @@ [port \in {17 + 2 * i : i \in 0 .. firs - 1} |-> {In(port)}]
      outputs == [port \in {2 * i : i \in 1 .. 2 * widgets}
                           \cup {18 + 2 * i : i \in 0 .. firs - 1} |-> Out(port)]
      cascades == {Cascade(widget, tile) :
                     widget \in 0 .. widgets - 1, tile \in 0 .. tiles - 2}
      kernels == [k \in UNION {DOMAIN DftWidget(widget, tiles) : widget \in 0 .. widgets - 1}
                    |-> DftWidget(k[2], tiles)[k]] @@ Filterbank(firs)
  IN [inputs |-> inputs,
      outputs |-> outputs,
      capacity |-> [e \in cascades |-> 2]
                     @@ [e \in (UNION {inputs[port] : port \in DOMAIN inputs})
                              \cup {outputs[port] : port \in DOMAIN outputs} |-> 1],
      kernels |-> kernels,
      moves |-> [k \in DOMAIN kernels |-> Rounds]]
=============================================================================
