-------------------------- MODULE TransactionQueue --------------------------
(***************************************************************************)
(* What the server promises the client about its transactions, without     *)
(* threads, locks or a device: they are executed one at a time in the      *)
(* order they were submitted, each is answered at most once and in that    *)
(* order, an answer comes only after the execution has ended, and an       *)
(* answer that says DONE carries the complete output.                      *)
(***************************************************************************)
EXTENDS Sequences

CONSTANT Jobs

VARIABLES
  queue,                (* submitted and not yet answered, oldest first    *)
  stage,                (* how far each job has come                       *)
  answers               (* the answers given, oldest first                 *)

queueVars == <<queue, stage, answers>>

Stages == {"new", "queued", "running", "ended", "dropped"}

QueueInit ==
  /\ queue = << >>
  /\ stage = [j \in Jobs |-> "new"]
  /\ answers = << >>

Submit(j) ==
  /\ stage[j] = "new"
  /\ queue' = Append(queue, j)
  /\ stage' = [stage EXCEPT ![j] = "queued"]
  /\ UNCHANGED answers

(* Only the oldest unanswered job runs, so two jobs never run together.    *)
Begin(j) ==
  /\ queue # << >> /\ j = Head(queue)
  /\ stage[j] = "queued"
  /\ stage' = [stage EXCEPT ![j] = "running"]
  /\ UNCHANGED <<queue, answers>>

Finish(j) ==
  /\ queue # << >> /\ j = Head(queue)
  /\ stage[j] = "running"
  /\ stage' = [stage EXCEPT ![j] = "ended"]
  /\ UNCHANGED <<queue, answers>>

(* A job that timed out is answered with whatever output there is.         *)
Answer(j, outcome, data) ==
  /\ queue # << >> /\ j = Head(queue)
  /\ stage[j] = "ended"
  /\ outcome = "DONE" => data = "complete"
  /\ answers' = Append(answers, [trans |-> j, status |-> outcome, data |-> data])
  /\ queue' = Tail(queue)
  /\ UNCHANGED stage

(* The end of the session drops the jobs that were not answered, and       *)
(* nothing more is run or answered after it.                               *)
Abandon ==
  /\ queue' = << >>
  /\ stage' = [j \in Jobs |-> IF stage[j] = "new" THEN "new" ELSE "dropped"]
  /\ UNCHANGED answers

QueueNext ==
  \/ \E j \in Jobs : Submit(j) \/ Begin(j) \/ Finish(j)
  \/ \E j \in Jobs, outcome \in {"DONE", "TIMEOUT"},
        data \in {"partial", "complete"} : Answer(j, outcome, data)
  \/ Abandon

QueueSpec == QueueInit /\ [][QueueNext]_queueVars
=============================================================================
