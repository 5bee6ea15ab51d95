---------------------------- MODULE MCExampleApps ---------------------------
(* The example programs with small arguments, for TLC.                     *)
EXTENDS ExampleApps

(* The adder on every board, with one repetition, with two and with more   *)
(* data than a URAM of the vck190 holds; the others with one and two       *)
(* iterations or repetitions; two transactions in a pipeline; and of the   *)
(* channelizer three tiles in a widget next to a filter, the same widget   *)
(* twice, and one with all its four tiles.                                 *)
MCPrograms ==
  <<Vck190Adder(2, 1), Vck190Adder(2, 2), Vck190Adder(5, 1),
    Vek280Adder(1, 2), Vek385Adder(2, 1),
    DmaFifo(1, 1), DmaFifo(2, 1), DmaFifo(1, 2),
    MatlabAdder(1), PythonAdder(1), PythonPipelined(2, 1),
    Normalization(1, 1), Normalization(2, 1), Normalization(1, 2),
    Channelizer(3, 1, 1), Channelizer(3, 2, 0), Channelizer(4, 1, 0)>>
=============================================================================
