----------------------------- MODULE ExampleApps ----------------------------
(***************************************************************************)
(* The client programs of examples/ (client/tb.cpp) on the harness: they   *)
(* start the AIE graph, start a transaction on the channels the graph is   *)
(* wired to, wait for both and compare what came back.  Whether a program  *)
(* ends depends on the sizes it gives to transfers, on the iterations it   *)
(* gives to the graph, on the rates and the queues of the graph and on the *)
(* wires between them, each written in a file of its own.                  *)
(*                                                                         *)
(* Client, server and network are transparent here (HarnessPipeline), and  *)
(* so are the memories between server and channels (StreamMover): every    *)
(* channel moves its items in order, at its own pace.                      *)
(***************************************************************************)
EXTENDS ExampleGraphs, HarnessBoards, Bindings, FiniteSets

CONSTANT Programs       (* a sequence of programs, as defined below        *)

VARIABLES
  program, phase, pc,   (* the program that runs, and where in it it is    *)
  queue,                (* tokens in each queue of the graph               *)
  at, left, kept,       (* of a kernel: next move, moves left, static data *)
  submitted, done,      (* transactions of this phase handed over, ended   *)
  moved,                (* items each argument's channel has transferred   *)
  got,                  (* tokens each argument's channel has brought back *)
  bufs,                 (* the program's vectors                           *)
  errorCount            (* whether it is positive                          *)

graphVars == <<queue, at, left, kept>>
runVars == <<submitted, done, moved, got>>
vars == <<program, phase, pc, graphVars, runVars, bufs, errorCount>>

-----------------------------------------------------------------------------
(* The programs.  An argument of runTestHarness is about items of a vector *)
(* after the first skip; an item stands for bytes/items bytes.  A vector   *)
(* starts with its own places (input) or with zeroes.                      *)

Arg(dir, plio, items, bytes, rep, buf) ==
  [dir |-> dir, plio |-> plio, items |-> items, bytes |-> bytes, rep |-> rep,
   buf |-> buf, skip |-> 0]

Input(items, span) == [i \in 1 .. items |-> (i - 1) \div span + 1]
Zeroes(items) == [i \in 1 .. items |-> 0]

(* How a phase decides whether to compare: it asks isResultValid, it looks *)
(* at a variable nothing has been assigned to, or it always does.          *)
Phase(mode, iterations, asks, golden, transactions) ==
  [mode |-> mode, iterations |-> iterations, asks |-> asks, golden |-> golden,
   transactions |-> transactions]

Program(device, graph, binding, span, data, phases) ==
  [device |-> device, graph |-> graph, binding |-> binding, span |-> span,
   data |-> data, phases |-> phases]

AdderArgs(items, bytes, reps, to) ==
  <<Arg("to", 1, items, bytes, reps, "a"), Arg("to", 3, items, bytes, reps, "b"),
    Arg("from", 2, items, bytes, reps, to)>>
AdderData(items) == [a |-> Input(items, 1), b |-> Input(items, 1), s |-> Zeroes(items)]

(* Functional mode is passed over if repetitions are asked for.            *)
AdderModes(reps) == IF reps = 1 THEN <<"FUNC", "PERF">> ELSE <<"PERF">>

AdderPhases(iters, reps) ==
  [i \in DOMAIN AdderModes(reps) |->
     Phase(AdderModes(reps)[i], iters * reps, "valid", {"s"},
           <<AdderArgs(iters, iters * 16384, reps, "s")>>)]

Vck190Adder(iters, reps) ==
  Program("vck190", Vck190AdderGraph, "none", 1, AdderData(iters), AdderPhases(iters, reps))
Vek280Adder(iters, reps) ==
  Program("vek280", Vek280AdderGraph, "none", 1, AdderData(iters), AdderPhases(iters, reps))
Vek385Adder(iters, reps) ==
  Program("vek385", Vek385AdderGraph, "none", 1, AdderData(iters), AdderPhases(iters, reps))

(* The results of the first phase are the input of the second; the first   *)
(* looks at is_valid before anything has been assigned to it.              *)
DmaFifo(iters, reps) ==
  LET items == iters * Window
      DmaPhase(mode, asks, from, to) ==
        Phase(mode, iters * reps, asks, {to},
              << <<Arg("to", 1, items, iters * 4096, reps, from),
                   Arg("from", 1, items, iters * 4096, reps, to)>> >>)
  IN Program("vck190", DmaFifoGraph, "none", 1,
             [a |-> Input(items, 1), s |-> Zeroes(items), s2 |-> Zeroes(items)],
             <<DmaPhase("FUNC", "unset", "a", "s"), DmaPhase("PERF", "valid", "s", "s2")>>)

(* Variant: the input is repeated once more than the output.               *)
NormalizationArgs_Uneven(items, bytes, reps) ==
  <<Arg("to", 1, items, bytes, reps + 1, "a"), Arg("from", 2, items, bytes, reps, "s")>>

NormalizationArgs(items, bytes, reps) ==
  <<Arg("to", 1, items, bytes, reps, "a"), Arg("from", 2, items, bytes, reps, "s")>>

(* Frames of 256 x 384 values of two bytes; values are not compared.       *)
Normalization(iters, reps) ==
  LET items == iters * Repeat IN
  Program("vek280", NormalizationGraph, "none", Repeat,
          [a |-> Input(items, Repeat), s |-> Zeroes(items)],
          <<Phase("PERF", iters * reps, "valid", {},
                  <<NormalizationArgs(items, iters * 256 * 384 * 2, reps)>>)>>)

(* Two iterations of the graph, 4096 * 16 bytes on every channel.          *)
ChannelizerArgs(tiles, widgets, firs) ==
  LET items == 2 * Rounds
      bytes == 4096 * 16
  IN [i \in 1 .. 2 * tiles |-> Arg("to", 2 * i - 1, items, bytes, 1, <<"in_dft", i>>)]
     \o [i \in 1 .. firs |-> Arg("to", 15 + 2 * i, items, bytes, 1, <<"in_fir", i>>)]
     \o [i \in 1 .. 2 * widgets |-> Arg("from", 2 * i, items, bytes, 1, <<"out_dft", i>>)]
     \o [i \in 1 .. firs |-> Arg("from", 16 + 2 * i, items, bytes, 1, <<"out_fir", i>>)]

ChannelizerBuffers(dir, args) == {args[i].buf : i \in {j \in DOMAIN args : args[j].dir = dir}}

Channelizer(tiles, widgets, firs) ==
  LET args == ChannelizerArgs(tiles, widgets, firs) IN
  Program("vck190", ChannelizerGraph(tiles, widgets, firs), "none", 1,
          [b \in ChannelizerBuffers("to", args) |-> Input(2 * Rounds, 1)]
            @@ [b \in ChannelizerBuffers("from", args) |-> Zeroes(2 * Rounds)],
          <<Phase("PERF", 2, "valid", ChannelizerBuffers("from", args), <<args>>)>>)

(* 65536 values in an iteration; in functional mode no validity is asked.  *)
MatlabAdder(iters) ==
  LET items == iters * Window
      MatlabPhase(mode, asks) ==
        Phase(mode, iters, asks, {"s"}, <<AdderArgs(items, iters * 262144, 1, "s")>>)
  IN Program("vck190", StreamAdderGraph, "matlab", 1, AdderData(items),
             <<MatlabPhase("FUNC", "always"), MatlabPhase("PERF", "valid")>>)

(* A new result array for each mode.                                       *)
PythonAdder(iters) ==
  LET items == iters * Window
      PythonPhase(mode, to) ==
        Phase(mode, iters, "valid", {to}, <<AdderArgs(items, iters * 262144, 1, to)>>)
  IN Program("vck190", StreamAdderGraph, "python", 1,
             AdderData(items) @@ [t |-> Zeroes(items)],
             <<PythonPhase("FUNC", "s"), PythonPhase("PERF", "t")>>)

(* One run of the graph, a transaction for each part of the arrays.        *)
PythonPipelined(transactions, iters) ==
  LET items == iters * Window
      Part(n) == [i \in 1 .. 3 |-> [AdderArgs(items, iters * 262144, 1, "s")[i]
                                      EXCEPT !.skip = (n - 1) * items]]
  IN Program("vck190", StreamAdderGraph, "python", 1, AdderData(transactions * items),
             <<Phase("FUNC", transactions * iters, "always", {"s"},
                     [n \in 1 .. transactions |-> Part(n)])>>)

ASSUME ProgramsAssumption == DOMAIN Programs = 1 .. Len(Programs)

-----------------------------------------------------------------------------
Graph == program.graph
Board == Boards[program.device]
Span == program.span
Now == program.phases[phase]
Args == Now.transactions[done + 1]         (* of the transaction that runs *)

Capacity == Board.depth * 16               (* bytes of a channel's URAM    *)
Items(i) == Args[i].items * Args[i].rep
Overflows(arg) == Now.mode = "PERF" /\ arg.bytes > Capacity

(* A token has the place it is sent at and the value it carries, the place *)
(* in the program's vector; 0 is any other value.                          *)
Place(n) == <<phase, done + 1, (n - 1) \div Span + 1>>
NoPlace == <<0, 0, 0>>
Token(place, value) == [place |-> place, value |-> value]
Common(S, none) == IF Cardinality(S) = 1 THEN CHOOSE x \in S : TRUE ELSE none
Combined(tokens) ==
  Token(Common({t.place : t \in tokens}, NoPlace), Common({t.value : t \in tokens}, 0))

Init ==
  /\ \E i \in DOMAIN Programs : program = Programs[i]
  /\ phase = 1
  /\ pc = "start"
  /\ queue = [e \in DOMAIN Graph.capacity |-> << >>]
  /\ at = [k \in DOMAIN Graph.kernels |-> 1]
  /\ left = [k \in DOMAIN Graph.kernels |-> 0]
  /\ kept = [k \in DOMAIN Graph.kernels |-> {}]
  /\ submitted = 0 /\ done = 0
  /\ moved = << >> /\ got = << >>
  /\ bufs = program.data
  /\ errorCount = FALSE

-----------------------------------------------------------------------------
(* The program.                                                            *)

(* The methods called at each place.                                       *)
Calls == [start |-> {"test_harness"}, ready |-> {"runAIEGraph"},
          graph |-> {"runTestHarness"}, submitted |-> {"waitForRes"},
          waited |-> {"printPerf", "getDelayBetween", "isResultValid"},
          closing |-> {"delete"}]

(* handleInputs refuses repetitions in functional mode.                    *)
RepetitionsRefused ==
  /\ Now.mode = "FUNC"
  /\ \E n \in DOMAIN Now.transactions :
       \E i \in DOMAIN Now.transactions[n] : Now.transactions[n][i].rep # 1

(* The bindings' examples have arrays of int32.                            *)
ArrayFits(arg) ==
  LET Int32(type) == [type |-> type, elements |-> (arg.items * 65536) \div Window] IN
  CASE program.binding = "matlab" -> MatlabFits(Int32("INT32"), arg.bytes)
    [] program.binding = "python" -> PythonFits(Int32("int32"), arg.bytes)
    [] program.binding = "none" -> TRUE

Refused(call) ==
  \/ program.binding = "matlab" /\ ClassPasses[call] # MexTakes[call]
  \/ /\ call = "runTestHarness"
     /\ \/ RepetitionsRefused
        \/ \E i \in DOMAIN Now.transactions[1] : ~ArrayFits(Now.transactions[1][i])

Enters(place) == pc = place /\ \A call \in Calls[place] : ~Refused(call)

(* Nobody catches the exception.                                           *)
Throw ==
  /\ pc \in DOMAIN Calls
  /\ \E call \in Calls[pc] : Refused(call)
  /\ pc' = "thrown"
  /\ UNCHANGED <<program, phase, graphVars, runVars, bufs, errorCount>>

Construct ==
  /\ Enters("start")
  /\ pc' = "ready"
  /\ UNCHANGED <<program, phase, graphVars, runVars, bufs, errorCount>>

RunAIEGraph ==
  /\ Enters("ready")
  /\ pc' = "graph"
  /\ left' = [k \in DOMAIN left |-> Now.iterations * Graph.moves[k]]
  /\ UNCHANGED <<program, phase, queue, at, kept, runVars, bufs, errorCount>>

RunTestHarness ==
  /\ Enters("graph")
  /\ submitted' = submitted + 1
  /\ pc' = IF submitted' = Len(Now.transactions) THEN "submitted" ELSE "graph"
  /\ UNCHANGED <<program, phase, graphVars, done, moved, got, bufs, errorCount>>

WaitForRes ==
  /\ Enters("submitted")
  /\ done = submitted
  /\ pc' = "joined"
  /\ UNCHANGED <<program, phase, graphVars, runVars, bufs, errorCount>>

WaitForGraph ==
  /\ pc = "joined"
  /\ \A k \in DOMAIN left : left[k] = 0
  /\ pc' = "waited"
  /\ UNCHANGED <<program, phase, graphVars, runVars, bufs, errorCount>>

(* isResultValid of the last transaction: of the inputs' sizes, in         *)
(* performance mode.                                                       *)
IsResultValid ==
  LET args == Now.transactions[Len(Now.transactions)] IN
  \A i \in DOMAIN args : args[i].dir = "to" => ~Overflows(args[i])

Validity ==
  CASE Now.asks = "valid" -> {IsResultValid}
    [] Now.asks = "unset" -> BOOLEAN
    [] Now.asks = "always" -> {TRUE}

(* The programs of the bindings leave at the first error.                  *)
Compare ==
  /\ Enters("waited")
  /\ \E is_valid \in Validity :
       errorCount' = \/ errorCount
                     \/ /\ is_valid
                        /\ \E b \in Now.golden : bufs[b] # Input(Len(bufs[b]), Span)
  /\ submitted' = 0 /\ done' = 0
  /\ IF phase < Len(program.phases) /\ ~(program.binding # "none" /\ errorCount')
       THEN phase' = phase + 1 /\ pc' = "ready"
       ELSE pc' = "closing" /\ UNCHANGED phase
  /\ UNCHANGED <<program, graphVars, moved, got, bufs>>

Close ==
  /\ Enters("closing")
  /\ pc' = "exited"
  /\ UNCHANGED <<program, phase, graphVars, runVars, bufs, errorCount>>

-----------------------------------------------------------------------------
(* The transactions, one after the other (TransactionQueue), and the       *)
(* channels of the data mover, one for each argument.                      *)

Moving == done < submitted /\ moved # << >>

StartTransaction ==
  /\ done < submitted
  /\ moved = << >>
  /\ moved' = [i \in DOMAIN Args |-> 0]
  /\ got' = [i \in DOMAIN Args |-> << >>]
  /\ UNCHANGED <<program, phase, pc, graphVars, submitted, done, bufs, errorCount>>

(* What handleOutputs copies: the last repetition; an output beyond the    *)
(* URAM has been written over.                                             *)
Result(i, n) ==
  IF Overflows(Args[i]) THEN 0 ELSE got[i][Items(i) - Args[i].items + n].value

(* Variant: results go to the beginning of the vector.                     *)
Stored_NoOffset(b) ==
  [p \in DOMAIN bufs[b] |->
     LET writers == {i \in DOMAIN Args : /\ Args[i].dir = "from" /\ Args[i].buf = b
                                         /\ p \in 1 .. Args[i].items}
     IN IF writers = {} THEN bufs[b][p] ELSE Result(CHOOSE i \in writers : TRUE, p)]

Stored(b) ==
  [p \in DOMAIN bufs[b] |->
     LET writers == {i \in DOMAIN Args : /\ Args[i].dir = "from" /\ Args[i].buf = b
                                         /\ p - Args[i].skip \in 1 .. Args[i].items}
         i == CHOOSE j \in writers : TRUE
     IN IF writers = {} THEN bufs[b][p] ELSE Result(i, p - Args[i].skip)]

FinishTransaction ==
  /\ Moving
  /\ \A i \in DOMAIN Args : moved[i] = Items(i)
  /\ bufs' = [b \in DOMAIN bufs |-> Stored(b)]
  /\ done' = done + 1
  /\ moved' = << >> /\ got' = << >>
  /\ UNCHANGED <<program, phase, pc, graphVars, submitted, errorCount>>

(* In performance mode what lies beyond the URAM cannot be sent.           *)
Sent(i) ==
  LET idx == moved[i] % Args[i].items
      lost == Now.mode = "PERF" /\ (idx + 1) * (Args[i].bytes \div Args[i].items) > Capacity
  IN Token(Place(moved[i] + 1),
           IF lost THEN 0 ELSE bufs[Args[i].buf][Args[i].skip + idx + 1])

Feed(i) ==
  /\ Moving
  /\ Args[i].dir = "to"
  /\ moved[i] < Items(i)
  /\ LET port == Board.to[Args[i].plio - 1] IN
       /\ port \in DOMAIN Graph.inputs
       /\ \A e \in Graph.inputs[port] : Len(queue[e]) < Graph.capacity[e]
       /\ queue' = [e \in DOMAIN queue |-> IF e \in Graph.inputs[port]
                                             THEN Append(queue[e], Sent(i)) ELSE queue[e]]
  /\ moved' = [moved EXCEPT ![i] = @ + 1]
  /\ UNCHANGED <<program, phase, pc, at, left, kept, submitted, done, got, bufs, errorCount>>

GetBack(i) ==
  /\ Moving
  /\ Args[i].dir = "from"
  /\ moved[i] < Items(i)
  /\ LET port == Board.from[Args[i].plio - 1] IN
       /\ port \in DOMAIN Graph.outputs
       /\ queue[Graph.outputs[port]] # << >>
       /\ got' = [got EXCEPT ![i] = Append(@, Head(queue[Graph.outputs[port]]))]
       /\ queue' = [queue EXCEPT ![Graph.outputs[port]] = Tail(@)]
  /\ moved' = [moved EXCEPT ![i] = @ + 1]
  /\ UNCHANGED <<program, phase, pc, at, left, kept, submitted, done, bufs, errorCount>>

-----------------------------------------------------------------------------
(* The graph: external, as the tools build it from ExampleGraphs.          *)

Amount(amounts, e) == IF e \in DOMAIN amounts THEN amounts[e] ELSE 0
Output(move, e) == IF e \in DOMAIN move.put THEN move.put[e] ELSE << >>

TokensOf(k, sources) ==
  UNION {IF s = Kept THEN kept[k] ELSE {queue[s[1]][s[2]]} : s \in sources}

KernelMove(k) ==
  LET move == Graph.kernels[k][at[k]]
      Room(e) == Graph.capacity[e] - Len(queue[e])
  IN
  /\ left[k] > 0 \/ Graph.moves[k] = 0
  /\ \A e \in DOMAIN queue :
       /\ Len(queue[e]) >= Amount(move.need, e)
       /\ Room(e) >= Amount(move.room, e)
       /\ Room(e) >= Len(Output(move, e))
  /\ queue' = [e \in DOMAIN queue |->
                 SubSeq(queue[e], Amount(move.get, e) + 1, Len(queue[e]))
                   \o [j \in DOMAIN Output(move, e) |->
                         Combined(TokensOf(k, Output(move, e)[j]))]]
  /\ kept' = [kept EXCEPT ![k] = TokensOf(k, move.keep)]
  /\ at' = [at EXCEPT ![k] = (@ % Len(Graph.kernels[k])) + 1]
  /\ left' = [left EXCEPT ![k] = IF Graph.moves[k] = 0 THEN 0 ELSE @ - 1]
  /\ UNCHANGED <<program, phase, pc, runVars, bufs, errorCount>>

Next ==
  \/ Construct \/ RunAIEGraph \/ RunTestHarness \/ WaitForRes \/ WaitForGraph
  \/ Compare \/ Close \/ Throw
  \/ StartTransaction \/ FinishTransaction
  \/ \E i \in DOMAIN moved : Feed(i) \/ GetBack(i)
  \/ \E k \in DOMAIN at : KernelMove(k)

(* Something that can happen happens: no process is trusted to be faster.  *)
Spec == Init /\ [][Next]_vars /\ WF_vars(Next)

-----------------------------------------------------------------------------
(* Properties.                                                             *)

(* Every program ends, whatever the paces of channels and kernels: sizes,  *)
(* iterations, rates, queues and wires of the examples fit together, and   *)
(* only the repetitions that functional mode does not have are refused.    *)
ProgramsEnd == <>(pc = "exited" \/ (pc = "thrown" /\ RepetitionsRefused))

(* The n-th item that comes back on a channel was made from the n-th place *)
(* of every input that takes part in it, and of the same transaction.      *)
StreamsInStep ==
  \A i \in DOMAIN got : \A n \in DOMAIN got[i] : got[i][n].place = Place(n)

(* When the program has waited for the graph, no data are on their way and *)
(* every kernel is back at its beginning: the next transaction gets        *)
(* nothing that was left by this one.                                      *)
NothingLeftOver ==
  pc = "waited" => /\ \A e \in DOMAIN queue : queue[e] = << >>
                   /\ \A k \in DOMAIN at : at[k] = 1

(* No comparison with the golden data fails, where one is made: what the   *)
(* harness calls valid is whole and in its place, transactions that were   *)
(* pipelined included.                                                     *)
ResultsGolden == ~errorCount
=============================================================================
