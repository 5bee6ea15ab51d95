------------------------------ MODULE ClientApi -----------------------------
(***************************************************************************)
(* What a test harness manager promises the program that uses it, whether  *)
(* it drives the device itself (include/ps/test_harness_mgr.hpp) or        *)
(* through a server (include/ps/test_harness_mgr_client.hpp): the runs are *)
(* collected in the order they were submitted, each is told DONE or        *)
(* TIMEOUT once, the caller's output buffer is written at most once and    *)
(* only before the call that collects the run returns, and a run told DONE *)
(* is collected with its whole output in that buffer.                      *)
(***************************************************************************)
EXTENDS Sequences

CONSTANT Jobs           (* the runs a program may submit                   *)

VARIABLES
  pending,              (* submitted and not yet collected, oldest first   *)
  told,                 (* the status the program can see                  *)
  result                (* what the run has put into the caller's buffer   *)

apiVars == <<pending, told, result>>

Told == {"new", "RUNNING", "TIMEOUT", "DONE"}
Contents == {"initial", "partial", "complete"}

ApiInit ==
  /\ pending = << >>
  /\ told = [j \in Jobs |-> "new"]
  /\ result = [j \in Jobs |-> "initial"]

IsPending(j) == \E i \in DOMAIN pending : pending[i] = j

Submit(j) ==
  /\ told[j] = "new"
  /\ told' = [told EXCEPT ![j] = "RUNNING"]
  /\ pending' = Append(pending, j)
  /\ UNCHANGED result

(* The end of a run and its output may be told in either order, but DONE   *)
(* and a partial output exclude each other.                                *)
Conclude(j, outcome) ==
  /\ IsPending(j)
  /\ told[j] = "RUNNING"
  /\ outcome = "DONE" => result[j] # "partial"
  /\ told' = [told EXCEPT ![j] = outcome]
  /\ UNCHANGED <<pending, result>>

Store(j, data) ==
  /\ IsPending(j)
  /\ result[j] = "initial"
  /\ told[j] # "TIMEOUT" => data # "partial"
  /\ result' = [result EXCEPT ![j] = data]
  /\ UNCHANGED <<pending, told>>

Collect(j) ==
  /\ pending # << >> /\ j = Head(pending)
  /\ \/ told[j] = "TIMEOUT"
     \/ told[j] = "DONE" /\ result[j] = "complete"
  /\ pending' = Tail(pending)
  /\ UNCHANGED <<told, result>>

ApiNext ==
  \E j \in Jobs :
    \/ Submit(j) \/ Collect(j)
    \/ \E outcome \in {"DONE", "TIMEOUT"} : Conclude(j, outcome)
    \/ \E data \in Contents : Store(j, data)

ApiSpec == ApiInit /\ [][ApiNext]_apiVars
=============================================================================
