---------------------------- MODULE HarnessBoards ---------------------------
(***************************************************************************)
(* How the channels of the data mover get to the ports of the AIE graph on *)
(* each board: the channel objects to the streams of the inner function,   *)
(* those to the kernel's arguments (src/pl/<board>_test_harness.cpp), the  *)
(* arguments to the ports of the array (cfg/<board>_system.cfg), and the   *)
(* ports to the names graphs are written with.                             *)
(***************************************************************************)
EXTENDS Integers

Same(S) == [x \in S |-> x]

Vck190Feeds == Same(0 .. 35)
Vck190Gets == Same(0 .. 35)
Vck190Call == [to |-> Same(0 .. 35), from |-> Same(0 .. 35)]
Vck190Ports == [to |-> [strm \in 0 .. 35 |-> strm + 1],
                from |-> [strm \in 0 .. 35 |-> strm + 1]]

Vek280Feeds == Same(0 .. 15)
Vek280Gets == Same(0 .. 15)
Vek280Call == [to |-> Same(0 .. 15), from |-> Same(0 .. 15)]
Vek280Ports == [to |-> [strm \in 0 .. 15 |-> strm + 1],
                from |-> [strm \in 0 .. 15 |-> strm + 1]]

Vek385Feeds == Same(0 .. 15)
Vek385Gets == Same(0 .. 15)
Vek385Call == [to |-> Same(0 .. 15), from |-> Same(0 .. 15)]
Vek385Ports == [to |-> [strm \in 0 .. 15 |-> strm + 1],
                from |-> [strm \in 0 .. 15 |-> strm + 1]]

(* The port a channel reaches by way of inner and outer function.          *)
Wired(channels, call, ports) ==
  [c \in DOMAIN channels |-> ports[call[channels[c]]]]

(* PARAM_CHANNELS and PARAM_DEPTH as the build sets them for a device.     *)
Boards == [
  vck190 |-> [channels |-> 36, depth |-> 4096,
              to |-> Wired(Vck190Feeds, Vck190Call.to, Vck190Ports.to),
              from |-> Wired(Vck190Gets, Vck190Call.from, Vck190Ports.from)],
  vek280 |-> [channels |-> 16, depth |-> 8192,
              to |-> Wired(Vek280Feeds, Vek280Call.to, Vek280Ports.to),
              from |-> Wired(Vek280Gets, Vek280Call.from, Vek280Ports.from)],
  vek385 |-> [channels |-> 16, depth |-> 8192,
              to |-> Wired(Vek385Feeds, Vek385Call.to, Vek385Ports.to),
              from |-> Wired(Vek385Gets, Vek385Call.from, Vek385Ports.from)]]
=============================================================================
