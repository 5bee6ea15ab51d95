# AI Engine Test Harness: a TLA+ model

This directory models the host and server software of the AI Engine Test
Harness (`src/src/ps`, `src/include/ps`), the data mover it runs in the
programmable logic (`src/include/pl`, `src/src/pl`), the bindings and the example
programs with their AIE graphs (`src/examples`), checks the models with TLC and
proves with TLAPS, for every instance, the safety properties of the server
program, the server manager, the session watchdog, the client manager with the
server behind it, the in-process manager, the data mover with the memory
layout it shares with the host, and the example programs on their graphs; and
that the managers implement their abstract specifications. Paths below are relative to the source root; the abbreviations used for the longest ones are

| short | file |
|---|---|
| `mgr_server.cpp` | `src/ps/test_harness_mgr_server.cpp` |
| `mgr_client.hpp` | `include/ps/test_harness_mgr_client.hpp` |
| `session.cpp` | `src/ps/test_harness_session.cpp` |
| `main.cpp` | `src/ps/test_harness_main.cpp` |
| `fastxm.hpp` | `include/ps/test_harness_fastxm.hpp` |
| `transaction.hpp` | `include/ps/test_harness_transaction.hpp` |
| `test_harness.hpp` | `include/pl/test_harness.hpp` |

## 1. The system

A client application feeds test data to an AIE graph on a board and collects
the graph's output. It links the client manager, which talks over one TCP
connection to a session process on the board. The session process drives the
one PL kernel through XRT; the kernel moves data between device memory and the
graph's streams.

    application -- test_harness_mgr_client == socket == test_harness_session
                      (waiter threads)                     |  request loop
                                                           |  watchdog
                                                    test_harness_mgr_server
                                                      (one PL thread per transaction)
                                                           |
                                                        fastXM -- XRT -- PL kernel -- AIE graph

| component | state it keeps | operations | interacts with | what makes it correct |
|---|---|---|---|---|
| Server manager `mgr_server.cpp` | deque `transactions`, map `id2trans`, map `pl_threads`, `memorySize`, `pl_mtx`, status and time limit of each transaction | `runTestHarness`, `queryTransactionStatus`, `waitForTestHarness`, `waitForGraph`, `runAIEGraph`, destructor; thread body `runPL` | session thread calls it, PL threads share the deque and the transactions with it, fastXM below | one thread drives the device; submission order; a delivery touches nothing deleted, and the destructor finds no thread if everything was collected; memory is accounted for; a wait is answered |
| fastXM `fastxm.hpp` | run handles `pl_k_r_hdl`, buffers `bo_hdl` with host pointers `bo_src_ptr` | `runPL`, `waitForTestHarness`, `fetchRes`, `resetTestHarness` | XRT and the kernel | results are copied into the run's own buffers |
| Transaction `transaction.hpp` | status, time limit, the four buffers, the performance map | `handleInputs`, `handleOutputs`, `getMemoryUsage`, accessors | filled by the client, mirrored on the server | host layout and kernel agree on where a channel's words are |
| Client manager `mgr_client.hpp` | `transactions`, `pending_transactions`, `transaction_threads`, `req_mtx`, `query_mtx`, `trans_id` | `runTestHarness`, `waitForRes`, waiter thread `waitForTestHarness`, time-out requests, destructor, accessors | application thread and waiters share the socket | answers reach the right thread; results are stored before the call returns; calls return |
| Session `session.cpp` | `mgr`, `mActive`, `mDone`, `monitorInterval` | request loop `run`, watchdog `monitor` | two threads sharing these fields | idle sessions end, busy ones survive |
| Server main loop `main.cpp` | listening socket, `mSessionId`, the accepted connection | accept, handshake, session directory, configuration and log files | forks the reset of the device and the session process; restarted by `scripts/run_server.sh` | one user of the device; sessions start after a reset; no client hangs; one client's failure does not end the service |
| Socket framing `include/ps/test_harness_sockets.hpp` | the descriptor | length-prefixed send and receive | everybody | whole messages |
| In-process (legacy) manager `include/ps/test_harness_mgr.hpp` | one transaction, `graph_started`, a fastXM | `runAIEGraph`, `runTestHarness`, `waitForRes`, destructor | fastXM, the calling program | what fastXM remembers outlives the transaction only after a time-out or a failed start; the graph is accounted for; it keeps the promises of the client API |
| PL data mover `test_harness.hpp` | per channel counters, FIFOs, shift registers, URAM buffers, cycle counters | `load_cfg`, `load_memories`, `feed`, `get`, `store_memories`, PERF mode, `counter` | device memory, AIE streams | every word in its place; a stalled channel starves nobody |
| AIE graph control | `graph_started` | run, wait, read and write ports | fastXM graph handles | a graph that runs is known and waited for |
| Bindings (Python, MATLAB) | the manager's handle | convert a call and its arrays, check types and sizes | client manager | what one side passes the other takes |
| Example programs `examples/*/*/client` and their graphs `examples/*/*/aie` | the data, the arguments, the graph's kernels and queues | a phase for each mode: run graph, run transactions, wait, compare | client manager or bindings, PL channels, ports of the array | sizes, iterations, rates, queues and wires fit together |
| Logger, utilities, build scripts | none that matters | output | everybody | not modelled |

### What is hard

* The PL threads and the session thread share the deque and the transaction
  objects; only a spin on the front, one mutex and a join keep them apart.
* fastXM never forgets a run handle: each wait covers all earlier runs, those
  that timed out included.
* The client's waiters contend for two mutexes, while the server answers in
  submission order only and its session thread blocks in a join.
* The watchdog's flag is read, acted on and cleared in separate steps.
* The server program, its children, the script that restarts it and clients that
  leave at any moment share the device, the listening socket and the connection.
* The data mover's checks of FIFO sizes precede non-blocking transfers, and its
  round robin drops channels from a rotating window.
* How much a program transfers, how often it lets its graph run, what each kernel
  takes and gives and how much the queues between them hold is written in
  different files; the program hangs if two of them disagree.

`PROJECT.json` lists these and the other hazards with the line where each bites
and the properties about it.

## 2. Modules

| module | models | state and actions |
|---|---|---|
| `FastXM` | `fastxm.hpp` | `runs` is `pl_k_r_hdl[0]`, `bos` is `bo_src_ptr[0]`, `hostBuf` abstracts a transaction's output buffer to initial, partial or complete; one operator per method, plus `KernelComplete` for the device (external) |
| `HarnessServerMgr` | `mgr_server.cpp`, with FastXM below it | the session thread's handlers cut where other threads can interfere (before and after receiving the data, before and after the join); each PL thread has a program counter over the lines of `runPL`; the destructor goes statement by statement while PL threads go on; the client is any sequence of requests, the connection may break |
| `TransactionQueue` | the promise of the server, abstractly | a FIFO queue: jobs run one at a time in order, are answered at most once and in that order, DONE only with complete output |
| `HarnessPipeline` | `mgr_client.hpp` composed with HarnessServerMgr | application thread, waiter threads, `req_mtx`, `query_mtx`, the socket as two sequences of messages; each `Serve...` action is a HarnessServerMgr action fed with the message at the head of the socket |
| `SessionWatchdog` | `session.cpp` | the request loop and every statement of `monitor` as a step; time is counted in the watchdog's one-second sleeps |
| `ServerMain` | `main.cpp`, `test_harness_server.cpp`, `run_server.sh`; the session and the client as far as they talk to it | program counter over `run()`, the reset child, the set of session processes, the listen queue, a sequence of messages each way per connection; clients may leave, processes be killed, the file system and the reset fail (`Faults`) |
| `TransactionLayout` | `transaction.hpp` | memory as a sequence of beats; `handleInputs` (checks, both layouts, the configuration words) and `handleOutputs` as one action each |
| `StreamMover` | `test_harness.hpp` on top of TransactionLayout | the kernel reads the configuration words the host wrote; `load_memories` and `store_memories` with shift register and window, `feed` and `get` of every channel in both modes, the URAM buffers, the performance words; an echoing AIE graph that may ignore some channels (external) |
| `ClientApi` | the promise of either manager to the program, abstractly | runs are collected in order, each is told its end once, DONE is collected only with the whole output |
| `LegacyMgr` | `test_harness_mgr.hpp`, with FastXM below it | `waitForRes` is cut where a limit may expire and where the device or the graph may go on; any sequence of calls, arguments that are rejected, exceptions of XRT out of `runPL`, `wait2` and `fetchRes` |
| `HarnessBoards` | `src/pl/<board>_test_harness.cpp`, `cfg/<board>_system.cfg`, `common.mk` | for each board the way from channel object to stream, kernel argument and port of the array, the number of channels and their depth |
| `ExampleGraphs` | `examples/*/*/aie` | each kernel as a cycle of moves (what it needs, takes, gives and keeps), each graph as ports, queue capacities, kernels and moves in an iteration |
| `Bindings` | `include/matlab`, `src/matlab`, `include/python`, `src/python` | which types the MATLAB class passes and the MEX functions take, element types and size checks |
| `ExampleApps` | `examples/*/*/client` on the three modules above | a program counter over `main`, the transactions in order, each channel and each kernel a process of its own |
| `HarnessServerMgr_proofs`, `HarnessPipeline_proofs`, `SessionWatchdog_proofs`, `ServerMain_proofs`, `LegacyMgr_proofs`, `StreamMover_proofs`, `ExampleApps_proofs` | | the theorems of section 5 |
| `SumTheorems` | | lemmas about division, and about sums over finite sets, maxima and minima |
| `MC...` | | the instances TLC checks |

Operators named `X_Variant` next to an operator `X` (for example
`DeliverResult_NoJoin`) are deliberately wrong versions of `X`. No
specification uses them: they record, for each property, a change of the code
that the property notices.

### Abstractions

* Buffers are the state of the copy, not their bytes, except in TransactionLayout
  and StreamMover, where memory is a sequence of beats and a beat is its argument
  and position. Sizes are small numbers.
* In StreamMover the way between host and kernel is transparent, a cycle count is
  the channel it was taken for, the data the kernel makes up beyond the URAM buffer
  are one value, and the kernel is not followed after a time-out (what it does
  to later transactions is in FastXM). The delays are mere waiting.
* `transactions.front()` in `runPL` (`mgr_server.cpp:173`) races with
  `push_back` and `pop_front`; the model reads the front before or after the
  concurrent operation and not in the middle of one.
* The destructor of the server manager (`mgr_server.cpp:297-304`) joins nobody, so
  it is a sequence of steps between which PL threads go on: `fastObj.reset()`,
  each `delete`, `transactions.clear()`, and the destruction of the members
  (`DestroyMgr`, `DeleteQueued`, `ClearDeque`, `DestroyThreads`). A PL thread that
  is still joinable when `pl_threads` is destroyed ends the process
  (`session = "terminated"`). A line of `runPL` that meanwhile uses what is gone,
  the null `fastObj`, a deleted transaction or the front of the cleared deque, is
  undefined: `Stray` lets the process crash there or the thread go on to any line
  that may come next, and writes nothing the manager still reads. A heap corrupted by
  it is not followed further. The removal of the received files is left out.
* In the server no exception of XRT is modelled: one in a PL thread would end the
  process, one in the session thread is like any other failure of a request. In
  LegacyMgr, where the program may catch it and go on, `runPL`, `wait2` and
  `fetchRes` throw anywhere half way.
* After an exception the session thread is `failed`: the manager stays until
  the session object is destroyed. The watchdog's part of that story is
  SessionWatchdog; the two are not composed, so the pipeline's server is
  never killed by its watchdog. The pipeline sets and reads the interval all
  the same.
* XRT completes the started runs in order; a run may never complete.
* In HarnessPipeline the connection does not break (it does in HarnessServerMgr
  and SessionWatchdog), the application calls the API as documented, and it
  destroys the manager only with no call in progress. It may do so with
  transactions pending: their waiters are then joinable threads that are
  destroyed, so the client's process ends, but the server has been told to
  destroy its manager all the same. The application
  may pick any limit and any number of transactions.
* In LegacyMgr a call that throws before it has changed anything is no step; one
  that throws later is a step of its own with what has been changed by then. The
  graph is external: it ends sooner or later or never, and a limited wait ends it.
* In ExampleGraphs and ExampleApps a datum is a stamp, the place in the
  program's vector it comes from, and a token carries the stamp all its sources
  agree on. A token is what a kernel takes at a time: a window of the adder, a
  vector of the streaming kernels, a tile of a frame. Windows, rounds and the
  channelizer's rows are cut down to the constants and parameters below with
  their ratios kept; the arithmetic, filter taps included, is abstracted. The
  client, server and network between the program and the channels are transparent
  (HarnessPipeline), and so are the memories behind the channels (StreamMover): an
  item that does not fit into the URAM has an unknown value. The graph goes on
  with what it has, its processes at any pace. The first comparison of the
  dmafifo program reads `is_valid` before it is assigned
  (`examples/vck190/testcase_dmafifo_opt/client/tb.cpp:93`): either value is
  possible.
* In ServerMain a reset ends with the child that runs it: that the child is killed
  and leaves `xrt-smi` running behind is left out.
* The announced size is a size from `Declared` in HarnessServerMgr (honest or
  not); overflow of `memorySize + trans_size` for absurd sizes is left out.
* The waiters' range-for over a deque whose front is popped in the loop
  (`mgr_client.hpp:322`) is modelled by the outcome libstdc++ produces.

## 3. Runs

| run | instance | shows |
|---|---|---|
| `server_manager` | 3 transactions, memory for any two, limits {none, some}, dishonest sizes, fair threads | exclusive use of the device, transactions deleted under their threads in the destructor only, accounting, the assertion of `runPL`, refinement of TransactionQueue; a wait with a limit is always answered; one without is if the device completes |
| `pipeline_safety` | 3 transactions, memory for any two, watchdog on | the client never provokes a server exception, gets each answer in the thread that asked, stores results before dropping a transaction, is refused only after its own warning, restores the watchdog interval, closes cleanly, never queries a deleted transaction, and implements ClientApi |
| `pipeline_liveness` | 2 transactions, fair | `waitForRes` returns, if the waiters get `query_mtx` in the order they were created |
| `pipeline_overtaking` | as above, without that condition | violated: a younger waiter that takes `query_mtx` first polls for ever and the limit is never looked at |
| `session_watchdog` | intervals 0 and 2, limits 0, 1, 3 | the countdown runs out only after the configured idle time; limited requests survive; quiet sessions end |
| `server_main` | 2 clients, 1 or 2 sessions per server, all faults | one user of the device, a reset before each session and a fresh start if it worked, the bound on sessions, messages in turn, nobody hangs |
| `server_continuity` | 1 client, no faults | violated: a client that leaves after its confirmation ends the server |
| `stream_mover` | 3 channels, words of 2 beats, bursts of 2 words, URAM of 4 beats, 10 sets of arguments in both modes | results in place; delivery from buffer to buffer; performance words of the right channel; no channel starved by others that stall |
| `mover_valid` | one output of twice the URAM | violated: `isResultValid()` is true of an incomplete output |
| `mover_limit` | one beat, with and without a limit | violated: the limit given to `runTestHarness` is reset to 0 |
| `legacy_manager` | 3 transactions, limited and unlimited waits, rejected arguments, exceptions of XRT, a graph that ends or not | freed vectors stay remembered only after a time-out or a `runPL` that threw; a graph that runs is known; limited waits return; ClientApi is implemented |
| `examples` | 17 configurations of the example programs | every program ends; what comes back was made from the same place of every input; nothing is left in the graph for the next phase; no comparison fails |

The violations are real disagreements between the code and its documentation;
`PROJECT.json` quotes both sides under `findings`.

### Bounds and why they are enough

* Three transactions (`Trans`): one driven, one waiting behind it, one that
  does not fit or is submitted while the others are answered; every conflict in
  the code is between the front, a successor and the session thread. The
  liveness runs use two, a front and a successor.
* `MemUse` and `MemorySizeMax`: two sizes, any two transactions fit and three
  do not, so refusal, retry after an answer and exact fit all happen.
* `TimeOuts = {0, 5}`: the code only distinguishes zero from non-zero; how long
  a limit lasts is left to the interleaving.
* `UnknownMax = 2` instead of the code's 10 tolerated requests: the counter's
  boundary is reached either way.
* `Intervals`, `Limits`: a limit shorter and one longer than the interval.
* StreamMover: `BurstLen = 2` for 16 and `MemRatio = 2` for 4. `Functional` has
  a channel of several bursts and a residual word of one beat, so the FIFO of four
  words fills; one shorter than a burst; and one that is empty, with the
  arguments in another order than the channels. `Awkward` gives a channel twice
  and expects more than is sent, `Refused` has the arguments that throw,
  `Performance` repetitions, none among them, residuals, different shapes of input
  and output and an input beyond the URAM (`Depth = 4`). `AieDepth` is what the graph holds,
  a word.
* LegacyMgr: one transaction that is replaced, one that replaces it and one
  whose fetch meets what a time-out or a failed start of either left behind.
* ExampleApps: the adder on each board, with one repetition, two, and with more
  than a URAM holds; the other programs with one and two iterations or
  repetitions; two pipelined transactions. `Window = 4` vectors for the 1024
  values of the dmafifo's window with `FifoDepth = 4` in the same ratio: the FIFO
  holds just one window, which is where the graph could stop. `Rounds = 2` for
  the loop of a channelizer kernel. The channelizer is taken in three parts: three
  tiles of a widget next to a filter, two such widgets that share their signals,
  and a widget with all four tiles; what the full graph adds are more of the
  same rows next to each other.
* ServerMain: two clients, one served while the other queues;
  `SessionLimits = {1, 2}`: with one, the loop ends after a session and the
  script restarts the server; with two, a second session follows in the same
  process. A backlog of two instead of three; two attempts at a directory for
  the code's six; one request each.

### Fairness

* Threads are scheduled: weak fairness of each PL thread, of the session
  thread, of each waiter and of the application inside a call. Timed waits
  return, which is what makes `SliceEnds` and `LimitEnds` always enabled.
* `std::mutex` is not first come first served. The pipeline assumes strong
  fairness for each thread that wants a mutex: one that is released again and
  again is eventually got, which the sleeps of the polling waiters justify.
  That says nothing about the order, and a waiter that holds `query_mtx` while
  it polls need not release it. `LimitedCallReturns` and `UnlimitedCallReturns`
  therefore have the premise `[]PollingInOrder`, and `pipeline_overtaking`
  shows that it is needed.
* The device is fair only where a property says so (`WF_vars(Device)` as a
  premise). Nothing makes a client send.
* The server's and session's processes run, and a client that has connected goes
  on with its part; nothing makes a client connect, time out or leave, a
  process be killed or the watchdog fire (ServerMain).
* The processes of the PL kernel are hardware: each moves when it can. Channels
  in `stalled` are never served.
* The thread of the in-process manager goes on within a call whenever it can
  (`WF(InWait)`); neither the device nor the graph need end.
* In ExampleApps something that can happen happens (`WF(Next)`); since every
  program is finite this is enough, and no channel or kernel is assumed faster
  than another.
* In SessionWatchdog the watchdog is scheduled and a request with a limit ends;
  one without need not.

`CHECK_DEADLOCK FALSE` is set everywhere: a closed session, a terminated
process and a finished kernel really stop.

## 4. Properties worth reading first

`DriverIsFront`, `NoUseAfterDelete`, `ThreadPerTransaction` and
`ImplementsQueue` (HarnessServerMgr); `NoServerFault`, `JoinedMeansStored`,
`PipelineImplementsApi` and `LimitedCallReturns` (HarnessPipeline);
`RunsOutOnlyWhenIdle` and `SparesLimitedRequests` (SessionWatchdog);
`ResultsInPlace`, `DeliveredIfOutputsFit` and `ServedChannelsFinish`
(StreamMover); `OneUser`, `FreshStart` and `NobodyHangs` (ServerMain);
`StaleOnlyAfterFailure` and `ImplementsApi` (LegacyMgr); `ProgramsEnd` and
`StreamsInStep` (ExampleApps). Each is preceded by a comment saying which
behaviour of the code it is about.

Behaviours to know of that no run is devoted to:

* A transaction's status is DONE on the client before its results have been
  received and stored (`mgr_client.hpp:381`), so `isResultValid` may be true of a
  buffer that is still empty; only what `waitForRes` has collected is complete
  (`JoinedMeansStored`). ClientApi therefore tells the end and the output in
  either order, and binds them at the collection.
* With the watchdog disabled `waitForRes` with a limit collects everything and then
  throws: it restores the interval the session reported, 0, and `setServerTimeOut`
  refuses 0 (`mgr_client.hpp:335`, `:428`).
* When the client breaks off or closes before everything was collected, PL threads
  go on inside the destructor of the server manager over a null `fastObj` and deleted
  transactions, until the destruction of `pl_threads` ends the process. `NoUseAfterDelete` says that this is the only
  place, `CleanClose` that a client that has collected everything does not lead
  there.
* The result of `xrt-smi reset` is ignored (`main.cpp:157`), and so is how the child
  ended (`:162`): after a reset that failed the next session starts on whatever the
  device is in. `FreshStart` says what is left of the fresh start the
  documentation promises: a reset has been tried and has ended between any
  two sessions, and the device is clean if that reset worked.
* The in-process manager keeps what FastXM remembers of a run that timed out, and
  of one over which `runPL` threw after it had remembered a buffer
  (`fastxm.hpp:131-145`; the status stays READY): the next fetch may write into
  vectors that were freed (`test_harness_mgr.hpp:120`). `StaleOnlyAfterFailure`
  says that nothing else leads there.
* In performance mode an output with a repetition of 0 is accepted
  (`handleInputs` does not look at the repetition) and nothing is written for it,
  while `isResultValid` may be true; `DeliveredIfOutputsFit` is about outputs that
  are asked for at least once.
* Both bindings compare the size of an array with `size_in_bytes`; in MATLAB 0
  passes for any array, and the transaction then transfers nothing on that channel
  (`src/matlab/m_runTestHarness.cpp:153`).
* The boards with 16 channels name `from_aie_strm13` in two interface pragmas and
  `from_aie_strm12` in none (`src/pl/vek280_test_harness.cpp:191`); the wires of
  HarnessBoards follow the calls and the connectivity files, not the pragmas.

Two more concern time. `setTimeOut` does not
shorten a countdown that is running, so after a `waitForRes` with a limit an idle
session is kept longer than the interval by that extension; `RunsOutOnlyWhenIdle`
is the lower bound only. And a client with an `xrt.ini` whose request makes the
session fail may read the log files in place of the reply, since the session exits
with 0; `MessagesInTurn` leaves this case out.

## 5. Proofs

TLAPS checks, for all values of the constants that satisfy the named
assumptions: sizes, limits and intervals are natural numbers, `NoTrans` is not
a transaction, the transactions of the pipeline are numbered from 1 as the client
does it (`IdentifierAssumption`), a beat, a burst and a URAM buffer are not
empty and the buffer is whole words (`DepthAssumption`, the assertions of
`handleInputs`), and arguments are those of the `test_harness_args` type
(`RunsAssumption`).

* `HarnessServerMgr_proofs`. The safety properties are not inductive: that the
  driving thread's transaction is the front needs that it owns `pl_mtx`, that
  the deque has no duplicates, that each transaction in it has exactly one
  thread and that no thread belongs to a transaction outside it. `IInv`
  collects these facts; the lemmas take the actions one by one to show that it
  is preserved, and `Invariance` concludes. Most of `IInv` is about the manager while
  it is whole (`MgrUp`). From the first statement of the destructor on, nothing is
  remembered in fastXM, and what PL threads may still do is bounded by
  `WindowSteps`: program counters, the mutex, a status, or the end of the process.
  `TypeCorrect`, `DeviceExclusive`, `MemorySafe` (no transaction is deleted under
  its thread but in the destructor; with `FetchWritesOwnBuffers`, which says where
  `fetchRes` may write, in the destructor too), `AssertionHolds` and
  `MemoryLimited` follow from it. For
  `MemoryLimited`, the room checked at admission must still be there when the
  data has arrived, so `IInv` carries it through the states in between.
  `AccountInv` ties `memorySize` and the number of threads to `pl_threads`;
  `MemoryAccounted` and `ThreadsAgree` follow. The lemmas are stated for
  `AnyNext`, the handlers fed with any request of the right type rather than
  with those of `Declared` and `TimeOuts`, so that they hold of a step the
  pipeline's client causes as well.
  `Implementation`, in the same module: under the mapping (`queue <-
  transactions`, `stage <- StageOf`, `answers <- delivered`) each step of the
  server is a step of TransactionQueue or a stutter. Its own invariant ties
  the state of the output buffer to the position of the thread: after a wait
  has succeeded the run is in `completed`, so the fetch is whole. From the
  destructor on, all that was not answered counts as dropped.
* `SumTheorems`. The library's induction theorems take an operator, which the
  provers cannot instantiate, but its well-founded orders are plain sets: a
  counterexample to a fact about finite sets would have a least one under strict
  inclusion (`LeastSubset`). On this rest that the fold behind `SumFunctionOnSet`
  is the sum (`SumRemove`, `SumAdd`, `SumMonotone`) and that a finite set of
  numbers has a maximum.
* `HarnessPipeline_proofs`. `PipeInv` has layers, each on top of those before.
  `ServerInv`: the server's own invariants, which hold because every step of the
  pipeline is a step of `AnyNext` or leaves the server alone (`PipeIsServer`);
  PL threads and the device leave the client, the socket and the deque alone, in
  the destructor too (`BackgroundEffects`).
  `ExchangeInv`: a request that asks for an answer is the last one on its way, its
  sender holds `req_mtx` and is where that answer is read; there is one answer
  at most and only with no request behind it. `ProgressInv`: identifiers grow in
  both deques, what was submitted is known to the server or on its way, and a
  waiter asks for results only of the oldest transaction, so the server never
  throws and never blocks for another one than the front. `StoreInv`: what the client has
  seen of the end and stored of the output. `RoomInv`: what the client counts as
  unfinished covers all threads of the server. `IntervalInv`: the value the
  interval will have once all requests have been read. `PipeTypeCorrect`,
  `NeverFaulted`, `ClosesCleanly`, `NoQueryAfterDelete`, `OwnAnswers`,
  `CollectedIsStored`, `RefusalsWarned` and `IntervalPutBack` follow;
  `PipelineServesQueue` carries the refinement of TransactionQueue over, and
  `PipelineKeepsApi` shows the refinement of ClientApi, where `pending` is the
  client's deque and a transaction has been told when its waiter has the status.
* `SessionWatchdog_proofs`. `WatchInv` says that, unless a request is waiting
  to be noticed, countdown plus idle time cover the configured interval (one
  more after a sleep), and that the same holds of the present interval for the
  request being handled. `RunsOutIdle` and `LimitedRequestsSpared` follow.
* `LegacyMgr_proofs`. What fastXM remembers belongs to the current run, to one
  that timed out or to one over which `runPL` threw (`CurrentInv`), transactions not yet started are untouched
  (`FreshInv`), and where the thread is in a call says what the status and the
  output are (`CallInv`). `LegacyInvariance` is the induction; `StaleWrites` and
  `GraphsKnown` follow, and `LegacyImplementsApi` shows the refinement of
  ClientApi step by step with `pending` and `told` computed from the current
  transaction.
* `ServerMain_proofs`. That the device has one user rests on where the parent
  waits: `ChildInv` says at which places of `run()` a child may exist, and that
  one survives the parent only while the script has not restarted it. `CleanInv`
  carries the device, clean or as a failed reset has left it, from the end of the
  reset to the next session, through
  failed handshakes and directories; `NumberInv` relates the sessions started
  to `mSessionId`. `DeviceHasOneUser`, `SessionsStartFresh` and `SessionLimit`
  follow from `MainInvariance`. `MessagesTakenInTurn` needs more: `StageInv`
  says for each connection what its client has sent and not yet been read, by how
  far the server and the client are, `InboxInv` what can be on the way back,
  and `PlaceInv` that a connection is in one place (the listen queue, the server
  or a session), so nobody else reads from it.
* `StreamMover_proofs`. First the layout, as arithmetic over the arguments: the
  regions of the input buffer leave no gap and each argument's region is its
  own (`Behind`, `NoGap`, `OwnWords`), two outputs of a performance run lie apart
  (`Apart`), and `handleOutputs` takes a beat from where the kernel's word and
  the packing of residuals have put it (`PackedBeat`, `StoredBack`). Then
  `MoverInv`: the kernel's configuration is what the host has written (`CallInv`);
  a channel that is not finished is in the rotating window (`WindowInv`); in
  functional mode every beat of a channel is in exactly one of memory, FIFO, graph,
  FIFO and result buffer, in order, and a FIFO never holds more than its depth
  (`LoadInv`, `GraphInv`, `StreamInv`), and the result buffer holds for each
  argument what has been stored so far and is blank elsewhere (`PlacedInv`); in
  performance mode an input buffer that is large enough holds the data, and an
  output buffer the last round of each place (`RepeatInv`). `EndInv` and `ReturnInv` carry this to
  the application's buffers. `MoverTypes`, `ResultsPlaced`, `ResultsDelivered`
  and `PerfReported` follow, for any number of channels, arguments in any order,
  any sizes, repetitions and stalled channels.
* `ExampleApps_proofs`. The graphs are dataflow graphs: what a kernel takes from
  and puts into a queue depends on how many moves it has made and on nothing else,
  and that is what any order of moves has in common. A plan (`Plan`) says for a
  program who writes and who reads each queue, how many tokens have been put and
  taken after m moves, which place of the vectors the n-th token comes from and
  from which place a kernel keeps something; that no kernel can go on after
  its last move, and that without its last move some process further down is short
  of a token. `Fitting` adds that the arguments of every phase are those of the
  plan and that a phase reads what is there. The first half of the module shows,
  for any program that has a plan, that `IInv` is inductive: the moves of
  each process explain what is in every queue (`QueuesInv`), where each kernel is
  and what it keeps (`KernelsInv`), what the channels have moved (`ChannelsInv`), and
  what the buffers hold (`BuffersInv`); when all channels have moved all their items,
  so have all kernels (`AllMoved`, by the least rank of one that has not).
  `PlannedProgramsGolden` concludes. The second half gives each example its plan
  from its graph, arguments and wires: windows for the dmafifo, tiles and frames for
  the normalization, pairs in the cascades of the channelizer. `ExamplesInStep`,
  `ExamplesNothingLeftOver` and `ExamplesGolden` hold of `Programs` that are examples
  (`IsExample`), with any number of iterations, repetitions and pipelined
  transactions, any `Window` and `Rounds`, and for the channelizer two to four
  tiles, one to four widgets and up to eight filters, the full graph among them.

Only model-checked: liveness, since fairness and ENABLED are beyond the prover
(`ServedChannelsFinish`, `LimitedWaitReturns`, `UnlimitedWaitReturns`,
`LimitedCallReturns`, `UnlimitedCallReturns`, `QuietSessionEnds`, `NobodyHangs`,
`LegacyWaitReturns`, `ProgramsEnd`). That an example program ends (`ProgramsEnd`)
rests on the depth of the queues of its graph, about which a plan says nothing.
What is proved of the type
invariants of the server, the watchdog, the server program and the in-process
manager is not run again by TLC.

## 6. Not modelled, and the plan

In order of importance:

1. Loss of the connection in HarnessPipeline and its waiters; the watchdog
   composed with the server; the server's `graph_started` with several graphs and
   the requests the session does not know; 32-bit arithmetic of the time limit.
2. That a plan with deep enough queues cannot stop, which would prove of every
   size of the channelizer the half of `ProgramsEnd` that is not about fairness.

Left out for good: XRT and the AIE array themselves, the arithmetic of kernels
and the tables of filter taps, the contents of files that are transferred,
logging, the lifetime of Python and MATLAB objects, read and write of run-time
parameters (no example uses them) and the build scripts. The delays that a
transaction can ask for are waiting, which the models leave to any pace.
