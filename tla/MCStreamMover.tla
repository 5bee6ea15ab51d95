---------------------------- MODULE MCStreamMover ---------------------------
(* Small instances of the data mover and its transactions for TLC.         *)
EXTENDS StreamMover

Arg(d, c, beats, rep) ==
  [dir |-> d, chn |-> c, beats |-> beats, rep |-> rep, whole |-> TRUE]
Both(c, beats, rep) == <<Arg("to", c, beats, rep), Arg("from", c, beats, rep)>>

(* Several bursts and a residual word, a channel shorter than a burst and  *)
(* one without data, in an order that is not the channels'.                *)
Functional ==
  <<Arg("to", 2, 3, 1), Arg("to", 0, 11, 1), Arg("from", 0, 11, 1), Arg("from", 2, 3, 1)>>

(* A channel given twice, and more expected back than is sent.             *)
Awkward == {Both(1, 2, 1) \o Both(1, 3, 1),
            <<Arg("to", 1, 2, 1), Arg("from", 1, 3, 1)>>}

Refused == {<<Arg("to", 3, 2, 1)>>,
            <<[Arg("to", 0, 2, 1) EXCEPT !.whole = FALSE]>>,
            Both(0, 2, 2)}

(* Repetitions, other sizes on the way back, an input beyond the URAM, an  *)
(* output that is asked for but never repeated.                            *)
Performance == {Both(1, 3, 2) \o Both(0, 4, 1),
                <<Arg("from", 2, 3, 2), Arg("to", 2, 2, 3)>>,
                <<Arg("to", 0, 6, 1), Arg("from", 0, 3, 2)>>,
                <<Arg("to", 0, 2, 1), Arg("from", 0, 2, 0)>>}

MCRuns ==
  [mode : {"FUNC"}, args : {Functional} \cup Awkward \cup Refused]
    \cup [mode : {"PERF"}, args : Performance]

(* An output beyond the URAM, its input within.                            *)
MCLargeOutput == [mode : {"PERF"}, args : {<<Arg("to", 0, 4, 2), Arg("from", 0, 8, 1)>>}]
MCOneBeat == [mode : {"FUNC"}, args : {Both(0, 1, 1)}]
=============================================================================
